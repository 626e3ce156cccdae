---------------------------- MODULE MemoryQueue ----------------------------
(***************************************************************************)
(* The in-process queue backend, adapters/out/queue/memory.go.  Every      *)
(* method takes the queue's mutex for its whole body, so each is one step. *)
(* The queue and the dispatcher share the *jobs.Job object: status and     *)
(* attempts are fields of that object, written only under the mutex.       *)
(***************************************************************************)
EXTENDS Job, Sequences

VARIABLES pending,      \* the slice of waiting jobs, head first
          processing,   \* the keys of the processing map
          status,       \* Job.Status; "new" before the job is enqueued
          attempts      \* Job.Attempts

queueVars == <<pending, processing, status, attempts>>

QueueTypeOK ==
    /\ pending \in Seq(Jobs)
    /\ processing \subseteq Jobs
    /\ status \in [Jobs -> Statuses \cup {"new"}]
    /\ attempts \in [Jobs -> Nat]

QueueInit ==
    /\ pending = <<>>
    /\ processing = {}
    /\ status = [j \in Jobs |-> "new"]
    /\ attempts = [j \in Jobs |-> 0]

Enqueue(j) ==
    /\ status' = [status EXCEPT ![j] = "pending"]
    /\ pending' = Append(pending, j)
    /\ UNCHANGED <<processing, attempts>>

\* Mutants of Dequeue: the head stays in the slice; a try is not counted.
DequeueKeepsHead(j) ==
    /\ pending # <<>>
    /\ j = Head(pending)
    /\ status' = [status EXCEPT ![j] = "processing"]
    /\ attempts' = [attempts EXCEPT ![j] = @ + 1]
    /\ processing' = processing \cup {j}
    /\ UNCHANGED pending

DequeueForgetsAttempt(j) ==
    /\ pending # <<>>
    /\ j = Head(pending)
    /\ pending' = Tail(pending)
    /\ status' = [status EXCEPT ![j] = "processing"]
    /\ processing' = processing \cup {j}
    /\ UNCHANGED attempts

Dequeue(j) ==
    /\ pending # <<>>
    /\ j = Head(pending)
    /\ pending' = Tail(pending)
    /\ status' = [status EXCEPT ![j] = "processing"]
    /\ attempts' = [attempts EXCEPT ![j] = @ + 1]
    /\ processing' = processing \cup {j}

\* ErrQueueEmpty.
DequeueEmpty == pending = <<>> /\ UNCHANGED queueVars

\* ErrJobNotFound: the call changes nothing.
NotFound(j) == j \notin processing /\ UNCHANGED queueVars

Settle(j, verdict) ==
    /\ j \in processing
    /\ status' = [status EXCEPT ![j] = verdict]
    /\ processing' = processing \ {j}

Acknowledge(j) ==
    \/ Settle(j, "completed") /\ UNCHANGED <<pending, attempts>>
    \/ NotFound(j)

\* Mutants of Retry: the job is put back without leaving the processing map; it
\* is put back at the head of the slice.
RetryKeepsProcessing(j) ==
    \/ /\ j \in processing
       /\ status' = [status EXCEPT ![j] = "pending"]
       /\ pending' = Append(pending, j)
       /\ UNCHANGED <<processing, attempts>>
    \/ NotFound(j)

RetryAtHead(j) ==
    \/ /\ Settle(j, "pending")
       /\ pending' = <<j>> \o pending
       /\ UNCHANGED attempts
    \/ NotFound(j)

Retry(j) ==
    \/ /\ Settle(j, "pending")
       /\ pending' = Append(pending, j)
       /\ UNCHANGED attempts
    \/ NotFound(j)

MarkFailed(j) ==
    \/ Settle(j, "failed") /\ UNCHANGED <<pending, attempts>>
    \/ NotFound(j)
=============================================================================
