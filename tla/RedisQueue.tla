----------------------------- MODULE RedisQueue -----------------------------
(***************************************************************************)
(* The Redis queue backend, adapters/out/queue/redis.go.  The four keys    *)
(* are global: every daemon that is given the same Redis shares them.  A   *)
(* method is several Redis commands, each atomic in the server; what can   *)
(* happen between two of them, or instead of one, is what this module is   *)
(* about.  Each command that may fail has a failing variant that takes one *)
(* from the budget MaxFaults.                                              *)
(*                                                                         *)
(* What is stored is a serialized job; here a copy, the job and the        *)
(* Attempts it was serialized with.  A copy in `processing` keeps the      *)
(* count it was enqueued with: the increment of Dequeue is made in the     *)
(* daemon's object and reaches Redis when Retry serializes the job again.  *)
(***************************************************************************)
EXTENDS Job, SequencesExt

CONSTANTS Poison,        \* the jobs whose payload does not unmarshal
          Callers,       \* the threads that call Retry and MarkFailed
          NoCopy,        \* a caller that has taken nothing out of processing
          PromoteLimit,  \* how many due jobs one run of the script promotes
          MaxFaults      \* bound: how many commands fail

ASSUME RedisAssumption ==
    /\ Poison \subseteq Jobs
    /\ NoCopy \notin [job : Jobs, tries : Nat]
    /\ PromoteLimit \in Nat \ {0}
    /\ MaxFaults \in Nat

VARIABLES pending,      \* list: the RIGHT end, the next to be taken, comes first
          processing,   \* list: the LEFT end, the newest, comes first
          delayed,      \* sorted set, the part whose score is in the future
          due,          \* sorted set, the part whose score has passed, in score order
          dead,         \* list: the LEFT end comes first
          removed,      \* removed[c]: the copy caller c took out and must put elsewhere
          faults        \* how many commands have failed

queueVars == <<pending, processing, delayed, due, dead, removed, faults>>

Copy == [job : Jobs, tries : Nat]

QueueTypeOK ==
    /\ \A list \in {pending, processing, due, dead} : list \in Seq(Copy)
    /\ delayed \subseteq Copy
    /\ removed \in [Callers -> Copy \cup {NoCopy}]
    /\ faults \in 0 .. MaxFaults

QueueInit ==
    /\ pending = <<>> /\ processing = <<>> /\ due = <<>> /\ dead = <<>>
    /\ delayed = {}
    /\ removed = [c \in Callers |-> NoCopy]
    /\ faults = 0

Fault == faults < MaxFaults /\ faults' = faults + 1
NoFault == UNCHANGED faults

-----------------------------------------------------------------------------
\* LPUSH on pending.
Enqueue(j) ==
    /\ pending' = Append(pending, [job |-> j, tries |-> 0])
    /\ UNCHANGED <<processing, delayed, due, dead, removed, faults>>

\* The clock passes a score.  Scores are set from the clocks of the daemons,
\* so they pass in any order.
Ripen ==
    \E c \in delayed :
        /\ delayed' = delayed \ {c}
        /\ due' = Append(due, c)
        /\ UNCHANGED <<pending, processing, dead, removed, faults>>

\* A mutant of PromoteDelayed: LPUSH without ZREM.
PromoteKeepsDue ==
    LET n == IF Len(due) < PromoteLimit THEN Len(due) ELSE PromoteLimit IN
    /\ pending' = pending \o SubSeq(due, 1, n)
    /\ UNCHANGED <<processing, delayed, due, dead, removed>>

\* luaPromoteDelayed: one atomic script.
PromoteDelayed ==
    LET n == IF Len(due) < PromoteLimit THEN Len(due) ELSE PromoteLimit IN
    /\ pending' = pending \o SubSeq(due, 1, n)
    /\ due' = SubSeq(due, n + 1, Len(due))
    /\ UNCHANGED <<processing, delayed, dead, removed>>

\* BLMOVE pending processing RIGHT LEFT takes effect in the server.
BLMove(c) ==
    /\ pending # <<>>
    /\ c = Head(pending)
    /\ pending' = Tail(pending)
    /\ processing' = Cons(c, processing)
    /\ UNCHANGED <<delayed, due, dead, removed>>

\* BLMOVE waits two seconds on an empty list and returns redis.Nil.
BLMoveEmpty == pending = <<>> /\ UNCHANGED queueVars

-----------------------------------------------------------------------------
(* removeByJobID on the processing list.  LRANGE and LREM are two commands, *)
(* but LREM removes by value the copy LRANGE showed, and no other caller    *)
(* removes that copy, so nothing can come between them that matters.       *)

Positions(j) == {i \in 1 .. Len(processing) : processing[i].job = j /\ j \notin Poison}

\* A mutant of Found: the list is scanned from its oldest end.
FoundOldest(j, raw) ==
    \E i \in Positions(j) : raw = processing[i] /\ \A k \in Positions(j) : k <= i

\* raw is the first copy of the job the scan meets.
Found(j, raw) ==
    \E i \in Positions(j) : raw = processing[i] /\ \A k \in Positions(j) : i <= k

\* The error of LREM is not looked at: the caller goes on as if it had worked.
LRem(raw) ==
    \/ processing' = RemoveFirst(processing, raw) /\ NoFault
    \/ Fault /\ UNCHANGED processing

\* removeByJobID gives an error, and so does its caller, without any change:
\* LRANGE failed, or there is no such copy.
RemoveFails(j) ==
    /\ Fault \/ (Positions(j) = {} /\ NoFault)
    /\ UNCHANGED <<pending, processing, delayed, due, dead, removed>>

\* Acknowledge is removeByJobID and nothing else.
Acknowledge(j) ==
    \/ /\ \E raw \in ToSet(processing) : Found(j, raw) /\ LRem(raw)
       /\ UNCHANGED <<pending, delayed, due, dead, removed>>
    \/ RemoveFails(j)

\* The first half of Retry and MarkFailed: the copy is in the caller's memory.
Take(c, j) ==
    /\ removed[c] = NoCopy
    /\ \E raw \in ToSet(processing) :
          Found(j, raw) /\ LRem(raw) /\ removed' = [removed EXCEPT ![c] = raw]
    /\ UNCHANGED <<pending, delayed, due, dead>>

PutDown(c) ==
    /\ removed[c] # NoCopy
    /\ removed' = [removed EXCEPT ![c] = NoCopy]
    /\ UNCHANGED <<pending, processing, due>>

\* The command that writes the copy elsewhere fails: the copy is nowhere.
PutNowhere(c) == PutDown(c) /\ Fault /\ UNCHANGED <<delayed, dead>>

\* LPUSH on dead.
PutDead(c, copy) ==
    /\ PutDown(c)
    /\ dead' = Cons(copy, dead)
    /\ NoFault /\ UNCHANGED delayed

\* A mutant of PutRetried: the new count is not written.
PutRetriedUncounted(c) ==
    LET raw == removed[c] IN
    /\ PutDown(c)
    /\ delayed' = delayed \cup {raw}
    /\ NoFault /\ UNCHANGED dead

\* The second half of Retry.  ZADD keeps one member of equal value.
PutRetried(c) ==
    /\ removed[c] # NoCopy
    /\ LET again == [removed[c] EXCEPT !.tries = @ + 1] IN
       IF CanRetry(again.job, again.tries)
       THEN /\ PutDown(c)
            /\ delayed' = delayed \cup {again}
            /\ NoFault /\ UNCHANGED dead
       ELSE PutDead(c, again)

\* A mutant of PutFailed: the copy is not written to dead.
FailedIsForgotten(c) == PutDown(c) /\ NoFault /\ UNCHANGED <<delayed, dead>>

\* The second half of MarkFailed.
PutFailed(c) == PutDead(c, removed[c])
=============================================================================
