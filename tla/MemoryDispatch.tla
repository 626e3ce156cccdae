--------------------------- MODULE MemoryDispatch ---------------------------
(***************************************************************************)
(* The dispatcher on the in-process queue (QueueBackend "memory"): the     *)
(* loop and the goroutines of Dispatcher, each step that calls the queue   *)
(* joined to the method of MemoryQueue it calls.  Jobs are enqueued by the *)
(* environment, at any time.  Several loops on one queue are allowed: the  *)
(* queue is written for that, cmd/kleffd starts one.                       *)
(***************************************************************************)
EXTENDS MemoryQueue, Dispatcher

VARIABLES ahead,         \* history: the jobs that waited when a job came, and wait since
          verdict        \* history: how the last run of a job's handler ended

historyVars == <<ahead, verdict>>
vars == <<queueVars, dispatcherVars, historyVars>>

Init ==
    /\ QueueInit
    /\ DispatcherInit
    /\ ahead = [j \in Jobs |-> {}]
    /\ verdict = [j \in Jobs |-> "none"]

-----------------------------------------------------------------------------
Submit(j) ==
    /\ status[j] = "new"
    /\ Enqueue(j)
    /\ ahead' = [ahead EXCEPT ![j] = {pending[n] : n \in 1 .. Len(pending)}]
    /\ UNCHANGED <<dispatcherVars, verdict>>

Shutdown(d) == Cancel(d) /\ UNCHANGED <<queueVars, historyVars>>

LoopTop(d) ==
    \/ CheckContext(d) /\ UNCHANGED <<queueVars, historyVars>>
    \/ WaitForGoroutines(d) /\ UNCHANGED <<queueVars, historyVars>>

LoopDequeue(d) ==
    \/ \E j \in Jobs :
          /\ TakeJob(d, j) /\ Dequeue(j)
          /\ ahead' = [n \in Jobs |-> ahead[n] \ {j}]
          /\ UNCHANGED verdict
    \/ TakeNothing(d) /\ DequeueEmpty /\ UNCHANGED historyVars

LoopLookup(d) ==
    \/ FindHandler(d) /\ UNCHANGED <<queueVars, historyVars>>
    \/ DropUnknown(d) /\ MarkFailed(hand[d]) /\ UNCHANGED historyVars

LoopSpawn(d) == \E s \in Slots : Spawn(d, s) /\ UNCHANGED <<queueVars, historyVars>>

Handle(s) ==
    LET j == slot[s].job IN
    \E outcome \in Outcomes :
        /\ HandlerReturns(s, outcome, attempts[j])
        /\ verdict' = [verdict EXCEPT ![j] = outcome]
        /\ UNCHANGED <<queueVars, ahead>>

Report(s) ==
    LET j == slot[s].job IN
    /\ \/ CallReturns(s, "acknowledge") /\ Acknowledge(j)
       \/ CallReturns(s, "retry") /\ Retry(j)
       \/ CallReturns(s, "markFailed") /\ MarkFailed(j)
    /\ UNCHANGED historyVars

Leave(s) == Release(s) /\ UNCHANGED <<queueVars, historyVars>>

Loop(d)      == LoopTop(d) \/ LoopDequeue(d) \/ LoopLookup(d) \/ LoopSpawn(d)
Goroutine(s) == Handle(s) \/ Report(s) \/ Leave(s)

Next ==
    \/ \E j \in Jobs : Submit(j)
    \/ \E d \in Daemons : Shutdown(d) \/ Loop(d)
    \/ \E s \in Slots : Goroutine(s)

Spec == Init /\ [][Next]_vars

\* The Go scheduler runs every goroutine that can run, and a handler returns:
\* each of its calls has a timeout or fails.  Nothing makes the environment
\* submit a job or stop the daemon.
Fairness ==
    /\ \A d \in Daemons : WF_vars(Loop(d))
    /\ \A s \in Slots : WF_vars(Goroutine(s))

FairSpec == Spec /\ Fairness

-----------------------------------------------------------------------------
(* Properties.                                                             *)

TypeOK ==
    /\ QueueTypeOK
    /\ DispatcherTypeOK
    /\ ahead \in [Jobs -> SUBSET Jobs]
    /\ verdict \in [Jobs -> Outcomes \cup {"none"}]

Terminal(j) == status[j] \in {"completed", "failed"}

InHand(d) == hand[d] # NoJob
HeldBy(s, j) == Active(s) /\ slot[s].job = j

\* A job that is being processed is in the hands of one loop or one goroutine,
\* never of two, and nobody holds a job the queue does not list as processing:
\* two handlers never work on one job, and no Acknowledge, Retry or MarkFailed
\* of the dispatcher, which ignores their errors, is refused (ErrJobNotFound).
OneHolder ==
    /\ \A j \in processing :
          (\E d \in Daemons : hand[d] = j) \/ (\E s \in Slots : HeldBy(s, j))
    /\ \A d \in Daemons : InHand(d) => hand[d] \in processing
    /\ \A s \in Slots : Active(s) => slot[s].job \in processing
    /\ \A d, e \in Daemons : InHand(d) /\ hand[d] = hand[e] => d = e
    /\ \A s, t \in Slots : Active(s) /\ HeldBy(t, slot[s].job) => s = t
    /\ \A d \in Daemons, s \in Slots : ~HeldBy(s, hand[d])

\* A job that was enqueued is in exactly one place: waiting in the slice, once,
\* or in the processing map, or settled.  Nothing is dropped by a retry or a
\* dispatch, and nothing is queued twice.
OnePlace ==
    /\ \A m, n \in 1 .. Len(pending) : pending[m] = pending[n] => m = n
    /\ \A j \in Jobs : status[j] = "pending" <=> \E n \in 1 .. Len(pending) : pending[n] = j
    /\ \A j \in Jobs : status[j] = "processing" <=> j \in processing

\* No job is tried more often than its max_attempts allows (a max_attempts of
\* zero still gets the one try the dequeue counts).
AttemptsBounded ==
    \A j \in Jobs : attempts[j] <= MaxAttempts[j] \/ attempts[j] <= 1

\* A job ends for the reason its handler gave: completed only after success,
\* failed only when nobody handles its type, when the handler said the error is
\* permanent, or when its attempts are used up; and a job that waits for a
\* further try failed with an error that may be retried.
EndsForCause ==
    \A j \in Jobs :
        /\ status[j] = "completed" => verdict[j] = "ok"
        /\ status[j] = "failed" =>
              \/ j \notin Known
              \/ verdict[j] = "permanent"
              \/ verdict[j] = "transient" /\ attempts[j] >= MaxAttempts[j]
        /\ status[j] = "pending" /\ attempts[j] > 0 =>
              verdict[j] = "transient" /\ attempts[j] < MaxAttempts[j]

\* When every loop has returned from a shutdown, no job is left in processing:
\* each one waits, has completed or has failed.
ShutdownLeavesNothingHalfDone ==
    (\A d \in Daemons : loop[d] = "returned") => processing = {}

\* Retries do not starve newcomers: while a job waits for its first try, only
\* the jobs that were in the slice when it came are dequeued, each once.  A job
\* that was being processed at that time, came later or is put back meanwhile
\* (Retry appends to the same slice) has its turn after it.
NewcomersAreNotOvertaken ==
    [][\A n, j \in Jobs :
         status[n] = "pending" /\ attempts[n] = 0 /\ attempts'[j] > attempts[j] =>
            j = n \/ j \in ahead[n]]_vars

\* A settled job is never touched again: no late Retry of another goroutine
\* revives it, no dispatch runs it again.
SettledIsFinal ==
    [][\A j \in Jobs : Terminal(j) => status'[j] = status[j] /\ attempts'[j] = attempts[j]]_vars

\* Every job that was enqueued is settled in the end, unless the daemon is told
\* to stop: no token of the semaphore leaks, and retries come to an end.
EveryJobSettles ==
    \A j \in Jobs : status[j] = "pending" ~> (Terminal(j) \/ cancelled # {})

\* A daemon told to stop comes back from Run.
ShutdownReturns == \A d \in Daemons : d \in cancelled ~> loop[d] = "returned"

-----------------------------------------------------------------------------
(* The queue and the dispatcher together implement JobLifecycle.           *)

Phase(j) ==
    CASE status[j] = "new" -> "new"
      [] status[j] = "pending" -> "queued"
      [] status[j] = "processing" -> "running"
      [] status[j] = "completed" -> "done"
      [] OTHER -> "failed"

Lifecycle == INSTANCE JobLifecycle WITH phase <- [j \in Jobs |-> Phase(j)], tries <- attempts

\* Each step of the loop and the goroutines is a step of the job lifecycle or
\* leaves every job as it was.
ImplementsLifecycle == Lifecycle!Spec
=============================================================================
