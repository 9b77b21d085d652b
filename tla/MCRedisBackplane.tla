--------------------------- MODULE MCRedisBackplane ---------------------------
(* Model-checking instance of RedisBackplane. *)
EXTENDS RedisBackplane, TLC

===============================================================================
