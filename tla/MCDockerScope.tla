--------------------------- MODULE MCDockerScope ---------------------------
(* One workload each of two projects and a namespace whose ids begin alike, and *)
(* of a third project.                                                          *)
EXTENDS DockerScope

CONSTANTS a1, a2, b, c

MCTenant ==
    [w \in Workloads |-> CASE w = a1 -> "A-1" [] w = a2 -> "A-2" [] w = b -> "B" [] w = c -> "N"]
MCShortID == [t \in Tenants |-> IF t = "B" THEN "B" ELSE "A"]
=============================================================================
