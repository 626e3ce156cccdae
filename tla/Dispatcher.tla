----------------------------- MODULE Dispatcher -----------------------------
(***************************************************************************)
(* The control of workers.Dispatcher.Run: the polling loop of each daemon  *)
(* and the goroutines it starts under the semaphore.  The queue is left to *)
(* the module that composes this one with a backend (MemoryDispatch,       *)
(* RedisDispatch): an action here is the dispatcher's half of a step.      *)
(*                                                                         *)
(* A goroutine is identified with the semaphore token it holds: `<-sem`    *)
(* and `wg.Done()` follow one another without touching shared state, so    *)
(* both are the step Release.                                              *)
(***************************************************************************)
EXTENDS Job

CONSTANTS Known,     \* the jobs whose job_type has a registered handler
          Daemons,   \* the processes that run a dispatcher on this queue
          Slots,     \* the semaphore tokens of all of them
          Owner,     \* Owner[s] is the daemon whose semaphore has token s
          NoJob      \* the empty hand

ASSUME KnownAssumption == Known \subseteq Jobs
ASSUME OwnerAssumption == Owner \in [Slots -> Daemons]
ASSUME NoJobAssumption == NoJob \notin Jobs

VARIABLES loop,       \* loop[d]: where Run of daemon d stands
          hand,       \* hand[d]: the job dequeued and not yet given to a goroutine
          slot,       \* slot[s]: the goroutine that holds token s
          cancelled   \* the daemons whose context is done

dispatcherVars == <<loop, hand, slot, cancelled>>

LoopPCs == {"select", "dequeue", "lookup", "acquire", "waiting", "returned", "down"}

\* A goroutine runs the handler, then makes one call on the queue, then releases.
Outcomes == {"ok", "transient", "permanent"}
OpPCs    == {"acknowledge", "retry", "markFailed"}
SlotPCs  == {"idle", "handling", "releasing"} \cup OpPCs

Idle == [pc |-> "idle", job |-> NoJob]

SlotsOf(d) == {s \in Slots : Owner[s] = d}
Active(s)  == slot[s].pc \in {"handling"} \cup OpPCs
Drained(d) == \A s \in SlotsOf(d) : slot[s] = Idle

DispatcherTypeOK ==
    /\ loop \in [Daemons -> LoopPCs]
    /\ hand \in [Daemons -> Jobs \cup {NoJob}]
    /\ slot \in [Slots -> [pc : SlotPCs, job : Jobs \cup {NoJob}]]
    /\ cancelled \subseteq Daemons

DispatcherInit ==
    /\ loop = [d \in Daemons |-> "select"]
    /\ hand = [d \in Daemons |-> NoJob]
    /\ slot = [s \in Slots |-> Idle]
    /\ cancelled = {}

-----------------------------------------------------------------------------
(* The loop of daemon d.                                                   *)

Goto(d, from, to) ==
    /\ loop[d] = from
    /\ loop' = [loop EXCEPT ![d] = to]

\* SIGTERM: signal.NotifyContext cancels the context the daemon runs under.
Cancel(d) ==
    /\ d \notin cancelled
    /\ cancelled' = cancelled \cup {d}
    /\ UNCHANGED <<loop, hand, slot>>

\* The only place that looks at the context: the top of the loop.
CheckContext(d) ==
    /\ Goto(d, "select", IF d \in cancelled THEN "waiting" ELSE "dequeue")
    /\ UNCHANGED <<hand, slot, cancelled>>

\* A mutant of WaitForGoroutines: Run returns without wg.Wait().
ReturnAtOnce(d) ==
    /\ Goto(d, "waiting", "returned")
    /\ UNCHANGED <<hand, slot, cancelled>>

\* wg.Wait() and return.
WaitForGoroutines(d) ==
    /\ Drained(d)
    /\ Goto(d, "waiting", "returned")
    /\ UNCHANGED <<hand, slot, cancelled>>

\* The queue gave job j.
TakeJob(d, j) ==
    /\ Goto(d, "dequeue", "lookup")
    /\ hand' = [hand EXCEPT ![d] = j]
    /\ UNCHANGED <<slot, cancelled>>

\* A mutant of TakeNothing: the loop polls on without a look at the context.
TakeNothingPollsOn(d) ==
    /\ Goto(d, "dequeue", "dequeue")
    /\ UNCHANGED <<hand, slot, cancelled>>

\* Dequeue returned an error, an empty queue included: sleep and go round.
TakeNothing(d) ==
    /\ Goto(d, "dequeue", "select")
    /\ UNCHANGED <<hand, slot, cancelled>>

\* handlers[job.JobType] is there.
FindHandler(d) ==
    /\ hand[d] \in Known
    /\ Goto(d, "lookup", "acquire")
    /\ UNCHANGED <<hand, slot, cancelled>>

\* It is not: the job is marked failed (by the composing module) and dropped.
DropUnknown(d) ==
    /\ hand[d] \notin Known
    /\ Goto(d, "lookup", "select")
    /\ hand' = [hand EXCEPT ![d] = NoJob]
    /\ UNCHANGED <<slot, cancelled>>

\* sem <- struct{}{}, wg.Add(1) and the go statement.  The send blocks while
\* every token of d is taken, whatever the context says.
Spawn(d, s) ==
    /\ Owner[s] = d
    /\ slot[s] = Idle
    /\ Goto(d, "acquire", "select")
    /\ slot' = [slot EXCEPT ![s] = [pc |-> "handling", job |-> hand[d]]]
    /\ hand' = [hand EXCEPT ![d] = NoJob]
    /\ UNCHANGED cancelled

-----------------------------------------------------------------------------
(* The goroutine that holds token s; attempts is the Attempts field of its *)
(* job object.                                                             *)

\* A mutant of OpAfter: the permanent error is not told from the others.
OpAfterIgnoringPermanent(j, outcome, attempts) ==
    CASE outcome = "ok" -> "acknowledge"
      [] outcome # "ok" /\ CanRetry(j, attempts) -> "retry"
      [] OTHER -> "markFailed"

OpAfter(j, outcome, attempts) ==
    CASE outcome = "ok" -> "acknowledge"
      [] outcome = "transient" /\ CanRetry(j, attempts) -> "retry"
      [] OTHER -> "markFailed"

HandlerReturns(s, outcome, attempts) ==
    /\ slot[s].pc = "handling"
    /\ slot' = [slot EXCEPT ![s].pc = OpAfter(slot[s].job, outcome, attempts)]
    /\ UNCHANGED <<loop, hand, cancelled>>

\* A mutant of CallReturns: the token is not given back after a failure.
CallReturnsLeaking(s, op) ==
    /\ slot[s].pc = op
    /\ slot' = [slot EXCEPT ![s].pc = IF op = "acknowledge" THEN "releasing" ELSE "leaked"]
    /\ UNCHANGED <<loop, hand, cancelled>>

\* The goroutine's queue call has returned, whatever it returned.
CallReturns(s, op) ==
    /\ slot[s].pc = op
    /\ slot' = [slot EXCEPT ![s].pc = "releasing"]
    /\ UNCHANGED <<loop, hand, cancelled>>

Release(s) ==
    /\ slot[s].pc = "releasing"
    /\ slot' = [slot EXCEPT ![s] = Idle]
    /\ UNCHANGED <<loop, hand, cancelled>>
=============================================================================
