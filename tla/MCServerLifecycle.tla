-------------------------- MODULE MCServerLifecycle --------------------------
(* Two jobs of the owner's project, of any kind, and one of another project. *)
EXTENDS ServerLifecycle, TLC

CONSTANTS j1, j2, other

MCProject  == [j \in Jobs |-> IF j = other THEN "theirs" ELSE "ours"]
MCKinds    == [j \in Jobs |-> IF j = other THEN {"start", "delete"} ELSE JobTypes]
MCAttempts == [j \in Jobs |-> IF j = other THEN 1 ELSE 2]
Ours       == Permutations({j1, j2})
=============================================================================
