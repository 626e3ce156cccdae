------------------------- MODULE MCScrapedLifecycle -------------------------
(* A delete, a start, and a stop or restart of one workload.               *)
EXTENDS ScrapedLifecycle, TLC

CONSTANTS j1, j2, j3

MCProject  == [j \in Jobs |-> "ours"]
MCKinds    == (j1 :> {"delete"}) @@ (j2 :> {"start"}) @@ (j3 :> {"stop", "restart"})
MCAttempts == [j \in Jobs |-> 1]
=============================================================================
