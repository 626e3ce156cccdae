---------------------------- MODULE JobLifecycle ----------------------------
(***************************************************************************)
(* What the daemon promises of one job, whichever queue backend carries    *)
(* it: a job is tried by one goroutine at a time, is put back only while   *)
(* it has attempts left, and once it has succeeded or failed it is never   *)
(* touched again.  MemoryDispatch and RedisDispatch are shown to implement *)
(* this module; nothing here says when a job is tried, or that it is.      *)
(***************************************************************************)
EXTENDS Integers

CONSTANTS Jobs,          \* the jobs the platform may submit
          MaxAttempts    \* MaxAttempts[j] is the job's max_attempts field

VARIABLES phase,         \* "new", "queued", "running", "done" or "failed"
          tries          \* how many times a handler has been entitled to run

vars == <<phase, tries>>

Init ==
    /\ phase = [j \in Jobs |-> "new"]
    /\ tries = [j \in Jobs |-> 0]

Move(j, from, to) ==
    /\ phase[j] = from
    /\ phase' = [phase EXCEPT ![j] = to]

Submit(j)  == Move(j, "new", "queued") /\ UNCHANGED tries
Begin(j)   == Move(j, "queued", "running") /\ tries' = [tries EXCEPT ![j] = @ + 1]
Succeed(j) == Move(j, "running", "done") /\ UNCHANGED tries
Fail(j)    == Move(j, "running", "failed") /\ UNCHANGED tries

Requeue(j) ==
    /\ tries[j] < MaxAttempts[j]
    /\ Move(j, "running", "queued")
    /\ UNCHANGED tries

Next ==
    \E j \in Jobs : Submit(j) \/ Begin(j) \/ Succeed(j) \/ Fail(j) \/ Requeue(j)

Spec == Init /\ [][Next]_vars
=============================================================================
