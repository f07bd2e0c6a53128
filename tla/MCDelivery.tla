----------------------------- MODULE MCDelivery -----------------------------
(* Instances of Delivery. *)
EXTENDS Delivery, TLC
CONSTANTS s1, s2, r1, n1, n2

\* The request and a client share a node; the other subscriber is on its peer.
Spread == s1 :> n1 @@ s2 :> n2 @@ r1 :> n1
\* The last event of the batch excludes the remote subscriber.
OneBatch == r1 :> <<NoSocket, NoSocket, s2>>
Talks == s1 :> 1 @@ s2 :> 0

=============================================================================
