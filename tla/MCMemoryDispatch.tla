--------------------------- MODULE MCMemoryDispatch ---------------------------
(* Three jobs for a dispatcher with two semaphore tokens: one that may be    *)
(* retried, one whose max_attempts is zero and one of an unknown type.       *)
EXTENDS MemoryDispatch, TLC

CONSTANTS kleffd, s1, s2, provision, stop, mystery

MCJobs == {provision, stop, mystery}
MCKnown == {provision, stop}
MCMaxAttempts == (provision :> 2) @@ (stop :> 0) @@ (mystery :> 3)
MCOwner == [s \in {s1, s2} |-> kleffd]
=============================================================================
