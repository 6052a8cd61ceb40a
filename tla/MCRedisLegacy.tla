--------------------------- MODULE MCRedisLegacy ---------------------------
(* Instances of RedisLegacy for TLC. *)
EXTENDS RedisLegacy

(* Every reservation lapses after one tick.                                     *)
AllShort == [w \in Workers |-> 1]
=============================================================================
