--------------------------- MODULE MCRedisDispatch ---------------------------
(* Two daemons with one token each on one Redis, or one daemon with two.    *)
EXTENDS RedisDispatch, TLC

CONSTANTS d1, d2, s1, s2, provision, stop, garbage

TwoDaemons == (s1 :> d1) @@ (s2 :> d2)
OneDaemon  == [s \in Slots |-> d1]

Attempts   == [j \in Jobs |-> IF j = provision THEN 3 ELSE 1]
MCCallers  == Slots \cup Daemons
=============================================================================
