------------------------- MODULE MCRedisTokenStore -------------------------
(* Small instances of RedisTokenStore for TLC. *)
EXTENDS RedisTokenStore, TLC

ClientSymmetry == Permutations(Clients)
=============================================================================
