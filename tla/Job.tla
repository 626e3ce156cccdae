-------------------------------- MODULE Job --------------------------------
(***************************************************************************)
(* internal/workers/jobs/job.go: what the queues and the dispatcher know   *)
(* of a job.  Its identifier stands for the job; its type matters only     *)
(* through whether the daemon has a handler for it; the payload is the     *)
(* handlers' business.                                                     *)
(***************************************************************************)
EXTENDS Integers

CONSTANTS Jobs,          \* job identifiers
          MaxAttempts    \* MaxAttempts[j] is the job's max_attempts

ASSUME MaxAttemptsAssumption == MaxAttempts \in [Jobs -> Nat]

Statuses == {"pending", "processing", "completed", "failed"}

\* attempts is the value of the job's Attempts field in the object at hand.
CanRetry(j, attempts) == attempts < MaxAttempts[j]
=============================================================================
