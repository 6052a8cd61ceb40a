-------------------------- MODULE MCRedisLaravel --------------------------
(* Instances of RedisLaravel for TLC. *)
EXTENDS RedisLaravel

(* A reservation lapses after one tick, or never.                               *)
OneTickOrNever == {1, Never}

(* A job two producers publish, and one poison body.                            *)
TwiceAndPoison == [b \in Bodies |-> IF b \in Poison THEN 1 ELSE 2]
=============================================================================
