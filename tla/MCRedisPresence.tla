-------------------------- MODULE MCRedisPresence --------------------------
(* Instances of RedisPresence: two sockets on one node, one on another. *)
EXTENDS RedisPresence
CONSTANTS n1, n2, s1, s2, s3
TwoNodes == [s \in {s1, s2, s3} |-> IF s = s3 THEN n2 ELSE n1]
=============================================================================
