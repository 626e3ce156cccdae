---------------------------- MODULE RedisDispatch ----------------------------
(***************************************************************************)
(* Daemons that run the dispatcher on a shared Redis queue, with Redis     *)
(* commands that fail, daemons that crash and daemons that are stopped and *)
(* started again.  The loop and the goroutines are those of Dispatcher,    *)
(* the queue that of RedisQueue; a call that is several commands is as     *)
(* many steps.                                                             *)
(***************************************************************************)
EXTENDS RedisQueue, Dispatcher

CONSTANTS MaxCrashes,    \* bound: how often a daemon dies
          MaxShutdowns   \* bound: how often a daemon gets SIGTERM

ASSUME BoundsAssumption == MaxCrashes \in Nat /\ MaxShutdowns \in Nat

\* A thread is the loop of a daemon or a goroutine under a token of a semaphore,
\* and a semaphore is a buffered channel.
ASSUME CallersAssumption ==
    /\ Callers = Slots \cup Daemons
    /\ Slots \cap Daemons = {}
    /\ IsFiniteSet(Slots)

VARIABLES attempts,      \* attempts[c]: the Attempts field of the object c works on, else 0
          promoted,      \* the loops that are between the script and BLMOVE
          crashes, shutdowns,
          submitted,     \* history: the jobs the platform enqueued
          acknowledged,  \* history: the jobs Acknowledge was called for
          taken          \* history: taken[j] counts the BLMOVEs that took job j

localVars   == <<attempts, promoted>>
stopVars    == <<crashes, shutdowns>>
historyVars == <<submitted, acknowledged, taken>>
vars == <<queueVars, dispatcherVars, localVars, stopVars, historyVars>>

Init ==
    /\ QueueInit
    /\ DispatcherInit
    /\ attempts = [c \in Callers |-> 0]
    /\ promoted = {}
    /\ crashes = 0 /\ shutdowns = 0
    /\ submitted = {} /\ acknowledged = {}
    /\ taken = [j \in Jobs |-> 0]

-----------------------------------------------------------------------------
Submit(j) ==
    /\ j \notin submitted
    /\ Enqueue(j)
    /\ submitted' = submitted \cup {j}
    /\ UNCHANGED <<dispatcherVars, localVars, stopVars, acknowledged, taken>>

ClockTick ==
    Ripen /\ UNCHANGED <<dispatcherVars, localVars, stopVars, historyVars>>

LoopTop(d) ==
    /\ CheckContext(d) \/ WaitForGoroutines(d)
    /\ UNCHANGED <<queueVars, localVars, stopVars, historyVars>>

\* The first command of Dequeue.  When it fails the call returns its error.
LoopPromote(d) ==
    /\ d \notin promoted
    /\ loop[d] = "dequeue"
    /\ \/ /\ PromoteDelayed /\ NoFault
          /\ promoted' = promoted \cup {d}
          /\ UNCHANGED dispatcherVars
       \/ /\ Fault /\ TakeNothing(d)
          /\ UNCHANGED <<pending, processing, delayed, due, dead, removed, promoted>>
    /\ UNCHANGED <<attempts, stopVars, historyVars>>

\* The second: the copy is moved, and the reply brings it to the daemon, or is
\* lost, or brings bytes that are not a job.
LoopMove(d) ==
    /\ d \in promoted
    /\ promoted' = promoted \ {d}
    /\ \/ \E c \in ToSet(pending) :
             /\ BLMove(c)
             /\ taken' = [taken EXCEPT ![c.job] = @ + 1]
             /\ \/ /\ c.job \notin Poison /\ NoFault
                   /\ TakeJob(d, c.job)
                   /\ attempts' = [attempts EXCEPT ![d] = c.tries + 1]
                \/ /\ (c.job \in Poison /\ NoFault) \/ Fault
                   /\ TakeNothing(d)
                   /\ UNCHANGED attempts
       \/ BLMoveEmpty /\ TakeNothing(d) /\ UNCHANGED <<attempts, taken>>
    /\ UNCHANGED <<stopVars, submitted, acknowledged>>

LoopFindHandler(d) ==
    /\ FindHandler(d)
    /\ UNCHANGED <<queueVars, localVars, stopVars, historyVars>>

\* MarkFailed on a job of unknown type: take the copy out, put it into dead.
LoopDropUnknown(d) ==
    /\ loop[d] = "lookup" /\ hand[d] \notin Known
    /\ \/ Take(d, hand[d]) /\ UNCHANGED dispatcherVars
       \/ removed[d] = NoCopy /\ RemoveFails(hand[d]) /\ DropUnknown(d)
       \/ (PutFailed(d) \/ PutNowhere(d)) /\ DropUnknown(d)
    /\ UNCHANGED <<localVars, stopVars, historyVars>>

LoopSpawn(d) ==
    \E s \in Slots :
        /\ Spawn(d, s)
        /\ attempts' = [attempts EXCEPT ![s] = attempts[d], ![d] = 0]
        /\ UNCHANGED <<queueVars, promoted, stopVars, historyVars>>

-----------------------------------------------------------------------------
Handle(s) ==
    \E outcome \in Outcomes :
        /\ HandlerReturns(s, outcome, attempts[s])
        /\ UNCHANGED <<queueVars, localVars, stopVars, historyVars>>

ReportSuccess(s) ==
    /\ CallReturns(s, "acknowledge")
    /\ Acknowledge(slot[s].job)
    /\ acknowledged' = acknowledged \cup {slot[s].job}
    /\ UNCHANGED <<localVars, stopVars, submitted, taken>>

ReportFailure(s) ==
    /\ slot[s].pc \in {"retry", "markFailed"}
    /\ \/ Take(s, slot[s].job) /\ UNCHANGED dispatcherVars
       \/ /\ removed[s] = NoCopy
          /\ RemoveFails(slot[s].job)
          /\ CallReturns(s, slot[s].pc)
       \/ CallReturns(s, "retry") /\ (PutRetried(s) \/ PutNowhere(s))
       \/ CallReturns(s, "markFailed") /\ (PutFailed(s) \/ PutNowhere(s))
    /\ UNCHANGED <<localVars, stopVars, historyVars>>

Leave(s) ==
    /\ Release(s)
    /\ attempts' = [attempts EXCEPT ![s] = 0]
    /\ UNCHANGED <<queueVars, promoted, stopVars, historyVars>>

-----------------------------------------------------------------------------
\* SIGTERM.
Shutdown(d) ==
    /\ shutdowns < MaxShutdowns
    /\ loop[d] \notin {"returned", "down"}
    /\ Cancel(d)
    /\ shutdowns' = shutdowns + 1
    /\ UNCHANGED <<queueVars, localVars, crashes, historyVars>>

\* The process dies: what its threads held in memory is gone, what they wrote
\* to Redis stays.
Crash(d) ==
    LET gone == SlotsOf(d) \cup {d} IN
    /\ crashes < MaxCrashes
    /\ loop[d] \notin {"returned", "down"}
    /\ crashes' = crashes + 1
    /\ loop' = [loop EXCEPT ![d] = "down"]
    /\ hand' = [hand EXCEPT ![d] = NoJob]
    /\ slot' = [s \in Slots |-> IF Owner[s] = d THEN Idle ELSE slot[s]]
    /\ cancelled' = cancelled \ {d}
    /\ promoted' = promoted \ {d}
    /\ removed' = [c \in Callers |-> IF c \in gone THEN NoCopy ELSE removed[c]]
    /\ attempts' = [c \in Callers |-> IF c \in gone THEN 0 ELSE attempts[c]]
    /\ UNCHANGED <<pending, processing, delayed, due, dead, faults, shutdowns, historyVars>>

\* A mutant of Restart: the process puts what it finds in processing back into
\* pending, which is also what other daemons are still at work on.
RestartRequeuesProcessing(d) ==
    /\ loop[d] \in {"returned", "down"}
    /\ loop' = [loop EXCEPT ![d] = "select"]
    /\ cancelled' = cancelled \ {d}
    /\ pending' = pending \o processing
    /\ processing' = <<>>
    /\ UNCHANGED <<hand, slot, delayed, due, dead, removed, faults,
                   localVars, stopVars, historyVars>>

\* The process is started again.  Nothing in main looks at the processing list.
Restart(d) ==
    /\ loop[d] \in {"returned", "down"}
    /\ loop' = [loop EXCEPT ![d] = "select"]
    /\ cancelled' = cancelled \ {d}
    /\ UNCHANGED <<hand, slot, queueVars, localVars, stopVars, historyVars>>

Loop(d) ==
    \/ LoopTop(d) \/ LoopPromote(d) \/ LoopMove(d) \/ LoopFindHandler(d)
    \/ LoopDropUnknown(d) \/ LoopSpawn(d)

Goroutine(s) == Handle(s) \/ ReportSuccess(s) \/ ReportFailure(s) \/ Leave(s)

Next ==
    \/ \E j \in Jobs : Submit(j)
    \/ ClockTick
    \/ \E d \in Daemons : Loop(d) \/ Shutdown(d) \/ Crash(d) \/ Restart(d)
    \/ \E s \in Slots : Goroutine(s)

Spec == Init /\ [][Next]_vars

\* As for MemoryDispatch; in addition time passes, and a process that ended is
\* started again (the daemon is run under a supervisor).
Fairness ==
    /\ WF_vars(ClockTick)
    /\ \A d \in Daemons : WF_vars(Loop(d)) /\ WF_vars(Restart(d))
    /\ \A s \in Slots : WF_vars(Goroutine(s))

FairSpec == Spec /\ Fairness

-----------------------------------------------------------------------------
(* Properties.                                                             *)

TypeOK ==
    /\ QueueTypeOK
    /\ DispatcherTypeOK
    /\ attempts \in [Callers -> Nat]
    /\ promoted \subseteq Daemons
    /\ crashes \in 0 .. MaxCrashes /\ shutdowns \in 0 .. MaxShutdowns
    /\ submitted \subseteq Jobs /\ acknowledged \subseteq Jobs
    /\ taken \in [Jobs -> Nat]

In(list, j) == {i \in DOMAIN list : list[i].job = j}
Waiting(j)  == In(pending, j) # {} \/ In(due, j) # {} \/ \E c \in delayed : c.job = j
Dead(j)     == In(dead, j) # {}
Settled(j)  == j \in acknowledged \/ Dead(j)

\* The threads at work on a job, with the copies they have in memory.
Workers(j) ==
    {d \in Daemons : hand[d] = j} \cup {s \in Slots : Active(s) /\ slot[s].job = j}

LiveCopies(j) ==
    Cardinality(In(pending, j)) + Cardinality(In(due, j))
    + Cardinality({c \in delayed : c.job = j}) + Cardinality(Workers(j))

\* A job that was submitted and that nothing will ever look at again.
Stranded(j) == j \in submitted /\ LiveCopies(j) = 0 /\ ~Settled(j)

\* A job waits in one place, or one thread of one daemon works on it, even when
\* commands fail and daemons die: no two handlers ever run for the same job, and
\* none runs for a job that is acknowledged or dead.
OneLiveCopy ==
    \A j \in Jobs : LiveCopies(j) <= IF Settled(j) THEN 0 ELSE 1

\* A job is reported once: completed or dead, not both, and dead once.
SettledOnce ==
    \A j \in Jobs : Cardinality(In(dead, j)) <= IF j \in acknowledged THEN 0 ELSE 1

\* The count stored with a waiting job is the number of times it was handed to a
\* daemon, although only Retry writes it, and that number stays within bounds.
AttemptsAreCounted ==
    /\ \A c \in ToSet(pending) \cup ToSet(due) \cup delayed : c.tries = taken[c.job]
    /\ \A j \in Jobs : taken[j] <= MaxAttempts[j] \/ taken[j] <= 1

\* A thread takes out of the processing list the very copy it was given, also
\* when a failed LREM has left an older copy of the job there; so Retry reaches
\* the same verdict on the attempts as the dispatcher did.
RemovesItsOwnCopy ==
    /\ \A c \in Callers : removed[c] # NoCopy => removed[c].tries + 1 = attempts[c]
    /\ \A s \in Slots : slot[s].pc = "retry" /\ removed[s] # NoCopy =>
                            CanRetry(slot[s].job, removed[s].tries + 1)

\* A job goes astray only through a fault, and never more than the faults can
\* explain: a failed command costs one job, a crash those in the hands of the
\* daemon, at most one per token and one in the loop.
StrandedAreAccountedFor ==
    Cardinality({j \in Jobs \ Poison : Stranded(j)})
        <= faults + crashes * (Cardinality(Slots) + 1)

\* Every submitted job is acknowledged or dead in the end, or was stranded by a
\* fault; a job that cannot be parsed is stranded in any case.
EveryJobSettles ==
    \A j \in Jobs : j \in submitted ~>
        \/ Settled(j)
        \/ Stranded(j) /\ (j \in Poison \/ faults + crashes > 0)

-----------------------------------------------------------------------------
(* The Redis queue and its dispatchers implement JobLifecycle, faults and  *)
(* crashes included: a stranded job is one that runs and never ends.       *)

Phase(j) ==
    CASE j \notin submitted -> "new"
      [] j \in acknowledged -> "done"
      [] Dead(j) -> "failed"
      [] Waiting(j) -> "queued"
      [] OTHER -> "running"

Lifecycle == INSTANCE JobLifecycle WITH phase <- [j \in Jobs |-> Phase(j)], tries <- taken

\* Each Redis command is a step of the job lifecycle or leaves every job as it
\* was, whatever fails around it.
ImplementsLifecycle == Lifecycle!Spec
=============================================================================
