-------------------------- MODULE MCRedisOccupancy --------------------------
(* Instances of RedisOccupancy. *)
EXTENDS RedisOccupancy, TLC
CONSTANTS s1, s2, s3, n1, n2, n3

OneEach == s1 :> n1 @@ s2 :> n2 @@ s3 :> n3
TwoOnOne == s1 :> n1 @@ s2 :> n1 @@ s3 :> n2
Pair == s1 :> n1 @@ s2 :> n2
OneNode == s1 :> n1 @@ s2 :> n1

\* With TwoOnOne, the sockets of a node are interchangeable.
Symmetry == Permutations({s1, s2})

=============================================================================
