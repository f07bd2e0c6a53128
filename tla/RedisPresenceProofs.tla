-------------------------- MODULE RedisPresenceProofs --------------------------
(***************************************************************************)
(* Proofs about RedisPresence, for any nodes, any finite number of sockets *)
(* and users, and any limit.                                               *)
(*                                                                         *)
(* NoGhostMember is not inductive: the last socket that is done with its   *)
(* add may see a count above zero when it leaves, for a socket that has    *)
(* been counted but has not written the hash yet.  CountOK shows that then *)
(* the user is not in the hash, or another socket is about to delete it.   *)
(* ExactInTurns is about the moments between two operations; InTurns says  *)
(* what Redis holds after each command of an operation that runs alone.    *)
(***************************************************************************)
EXTENDS RedisPresence, FiniteSetTheorems, TLAPS

Types ==
  /\ hash \subseteq Users
  /\ count \in [Users -> Int]
  /\ lock \in [Nodes -> Sockets \cup {NoSocket}]
  /\ pc \in [Sockets -> Pcs]
  /\ who \in [Sockets -> Users \cup {NoUser}]
  /\ seen \in [Sockets -> Nat]
  /\ errors \in Nat /\ crashes \in Nat
  /\ \A s \in Sockets : pc[s] # "out" => who[s] \in Users

\* Sockets of u that are done with their add, and whether one of them deletes
\* the user.
Settled(u)  == {s \in Sockets : who[s] = u /\ pc[s] \in {"fetch", "in", "decr"}}
Deleting(u) == \E s \in Sockets : who[s] = u /\ pc[s] = "hdel"

\* Of the sockets counted since the count was last deleted, only the first has
\* still to write the hash.  While the user is in the hash and nobody deletes
\* it, there was a settled socket before that one, which makes up for it.
CountOK ==
  \A u \in Users :
    /\ count[u] <= Cardinality(Settled(u)) + 1
    /\ u \in hash /\ ~ Deleting(u) => /\ Settled(u) # {}
                                      /\ count[u] <= Cardinality(Settled(u))

\* cmd_conn is locked while an operation of its node runs, and by it: no two
\* operations of a node mix.
Operating(s) == pc[s] \notin {"out", "fetch", "in"}
LockedByOperation ==
  \A n \in Nodes : {s \in Sockets : NodeOf[s] = n /\ Operating(s)} =
    IF lock[n] = NoSocket THEN {} ELSE {lock[n]}

Inv == Types /\ LockedByOperation /\ CountIsNoOverestimate /\ (NoFaults => CountOK)

\* The sets whose cardinality Redis holds are finite.
LEMMA Finite ==
  \A u : /\ IsFiniteSet(Settled(u)) /\ Cardinality(Settled(u)) \in Nat
         /\ IsFiniteSet(CountedFor(u)) /\ Cardinality(CountedFor(u)) \in Nat
<1>1. \A u : Settled(u) \subseteq Sockets /\ CountedFor(u) \subseteq Sockets
  BY DEF Settled, CountedFor
<1>2. IsFiniteSet(Sockets)
  BY FiniteAssumption
<1>3. \A u : IsFiniteSet(Settled(u)) /\ IsFiniteSet(CountedFor(u))
  BY <1>1, <1>2, FS_Subset
<1> QED BY <1>3, FS_CardinalityType

\* The hash is as finite as the set of users.
LEMMA HashFinite == hash \subseteq Users => IsFiniteSet(hash) /\ Cardinality(hash) \in Nat
  BY FiniteAssumption, FS_Subset, FS_CardinalityType

\* The invariant holds initially.
LEMMA InitInv == Init => Inv
<1> SUFFICES ASSUME Init PROVE Inv
  OBVIOUS
<1>1. Types
  BY DEF Init, Types, Pcs
<1>2. LockedByOperation
  BY DEF Init, LockedByOperation, Operating
<1>3. CountOK
  <2>1. \A u \in Users : count[u] = 0
    BY DEF Init
  <2>2. hash = {}
    BY DEF Init
  <2> QED BY <2>1, <2>2, Finite DEF CountOK
<1>4. CountIsNoOverestimate
  BY Finite DEF Init, CountIsNoOverestimate
<1> QED BY <1>1, <1>2, <1>3, <1>4 DEF Inv

----------------------------------------------------------------------------
(* Types and the lock *)

\* The three ways in which a task takes, keeps and gives back cmd_conn.
LEMMA LockKept ==
  ASSUME Types, LockedByOperation, NEW s \in Sockets, NEW to, Operating(s),
         pc' = [pc EXCEPT ![s] = to], to \notin {"out", "fetch", "in"}, lock' = lock
  PROVE  LockedByOperation'
BY DEF Types, LockedByOperation, Operating

\* An operation that takes the free connection becomes its holder.
LEMMA LockTaken ==
  ASSUME Types, LockedByOperation, NEW s \in Sockets, NEW to, Acquire(s),
         pc' = [pc EXCEPT ![s] = to], to \notin {"out", "fetch", "in"}
  PROVE  LockedByOperation'
BY NodeAssumption, NoneAssumption DEF Types, LockedByOperation, Operating, Acquire, Free

\* The holder gives the connection back and operates no longer.
LEMMA LockReturned ==
  ASSUME Types, LockedByOperation, NEW s \in Sockets, NEW to, Operating(s), Release(s),
         pc' = [pc EXCEPT ![s] = to], to \in {"out", "fetch"}
  PROVE  LockedByOperation'
BY NodeAssumption, NoneAssumption DEF Types, LockedByOperation, Operating, Release

\* Every step keeps the connection with the operation that uses it.
LEMMA LockPreserved == ASSUME Types, LockedByOperation, Next PROVE LockedByOperation'
<1>1. ASSUME NEW s \in Sockets, NEW u \in Users, Subscribe(s, u) PROVE LockedByOperation'
  BY <1>1, LockTaken DEF Subscribe
<1>2. ASSUME NEW s \in Sockets, Unsubscribe(s) PROVE LockedByOperation'
  BY <1>2, LockTaken DEF Unsubscribe
<1>3. ASSUME NEW s \in Sockets, Fetch(s) PROVE LockedByOperation'
  BY <1>3 DEF Fetch, Types, LockedByOperation, Operating
<1>4. ASSUME NEW s \in Sockets, Hlen(s) \/ Hdel(s) \/ HdelCount(s) \/ Del(s) PROVE LockedByOperation'
  BY <1>4, LockKept DEF Hlen, Hdel, HdelCount, Del, Command, Operating
<1>5. ASSUME NEW s \in Sockets, Hset(s) \/ DelCounts(s) PROVE LockedByOperation'
  BY <1>5, LockReturned DEF Hset, DelCounts, LastCommand, Operating
<1>6. ASSUME NEW s \in Sockets, Hexists(s) \/ Remaining(s) PROVE LockedByOperation'
  BY <1>6, LockKept, LockReturned DEF Hexists, Remaining, Command, LastCommand, Operating
<1>7. ASSUME NEW s \in Sockets, Incr(s) \/ Decr(s) PROVE LockedByOperation'
  BY <1>7, LockKept, LockReturned DEF Incr, Decr, Command, LastCommand, Operating
<1>8. ASSUME NEW n \in Nodes, Crash(n) PROVE LockedByOperation'
  BY <1>8 DEF Crash, Types, LockedByOperation, Operating
<1> QED BY <1>1, <1>2, <1>3, <1>4, <1>5, <1>6, <1>7, <1>8 DEF Next, Step, Operate

\* Every step keeps the types.
LEMMA TypesPreserved == ASSUME Types, Next PROVE Types'
<1> USE BoundAssumption, NodeAssumption
        DEF Types, Pcs, Acquire, Release, Command, LastCommand, Answered, Fails, Write, Add, redisVars
<1>1. ASSUME NEW s \in Sockets, NEW u \in Users, Subscribe(s, u) PROVE Types'
  BY <1>1 DEF Subscribe
<1>2. ASSUME NEW s \in Sockets, Unsubscribe(s) \/ Fetch(s) PROVE Types'
  BY <1>2 DEF Unsubscribe, Fetch
<1>3. ASSUME NEW s \in Sockets, Hlen(s) PROVE Types'
  BY <1>3, HashFinite DEF Hlen
<1>4. ASSUME NEW s \in Sockets, Hexists(s) PROVE Types'
  BY <1>4 DEF Hexists
<1>5. ASSUME NEW s \in Sockets, Incr(s) PROVE Types'
  BY <1>5 DEF Incr
<1>6. ASSUME NEW s \in Sockets, Hset(s) PROVE Types'
  BY <1>6 DEF Hset
<1>7. ASSUME NEW s \in Sockets, Decr(s) PROVE Types'
  BY <1>7 DEF Decr
<1>8. ASSUME NEW s \in Sockets, Hdel(s) PROVE Types'
  BY <1>8 DEF Hdel
<1>9. ASSUME NEW s \in Sockets, HdelCount(s) PROVE Types'
  BY <1>9 DEF HdelCount
<1>10. ASSUME NEW s \in Sockets, Remaining(s) PROVE Types'
  BY <1>10 DEF Remaining
<1>11. ASSUME NEW s \in Sockets, Del(s) PROVE Types'
  BY <1>11 DEF Del
<1>12. ASSUME NEW s \in Sockets, DelCounts(s) PROVE Types'
  BY <1>12 DEF DelCounts
<1>13. ASSUME NEW n \in Nodes, Crash(n) PROVE Types'
  BY <1>13 DEF Crash
<1> QED BY <1>1, <1>2, <1>3, <1>4, <1>5, <1>6, <1>7, <1>8, <1>9, <1>10, <1>11, <1>12, <1>13
        DEF Next, Step, Operate

----------------------------------------------------------------------------
(* The counts, as long as every command is answered *)

\* Steps of a task after which the same sockets are counted, settled and
\* deleting: what they write is 0, or the deletion of members.
LEMMA SameSockets ==
  ASSUME Types, NEW s \in Sockets,
         \/ \E u \in Users : Subscribe(s, u)
         \/ Unsubscribe(s) \/ Fetch(s) \/ Hlen(s) \/ Hexists(s)
         \/ HdelCount(s) \/ Remaining(s) \/ Del(s) \/ DelCounts(s)
  PROVE  \A u \in Users : /\ Settled(u)' = Settled(u) /\ CountedFor(u)' = CountedFor(u)
                          /\ Deleting(u)' <=> Deleting(u)
<1>1. \A t \in Sockets \ {s} : pc'[t] = pc[t] /\ who'[t] = who[t]
  BY DEF Types, Subscribe, Unsubscribe, Fetch, Hlen, Hexists, HdelCount, Remaining, Del, DelCounts,
         Command, LastCommand
<1>2. /\ pc[s] \in {"fetch", "in"} /\ who'[s] = who[s] /\ pc'[s] \in {"in", "decr"}
      \/ /\ pc[s] \notin {"hset", "fetch", "in", "decr", "hdel"}
         /\ pc'[s] \notin {"hset", "fetch", "in", "decr", "hdel"}
  BY DEF Types, Subscribe, Unsubscribe, Fetch, Hlen, Hexists, HdelCount, Remaining, Del, DelCounts,
         Command, LastCommand
<1> QED BY <1>1, <1>2 DEF Settled, CountedFor, Deleting

\* The commands after which a count is what it was, or 0.
LEMMA CountsKept ==
  ASSUME Types, NEW s \in Sockets,
         \/ \E u \in Users : Subscribe(s, u)
         \/ Unsubscribe(s) \/ Fetch(s) \/ Hlen(s) \/ Hexists(s)
         \/ HdelCount(s) \/ Remaining(s) \/ Del(s) \/ DelCounts(s)
  PROVE  \A u \in Users : count'[u] \in {count[u], 0}
BY DEF Types, Subscribe, Unsubscribe, Fetch, Hlen, Hexists, HdelCount, Remaining, Del, DelCounts,
       Write, redisVars

\* They and the deletion of members keep the bounds.
LEMMA WritesLess ==
  ASSUME Types, CountOK, NEW s \in Sockets, errors' = errors,
         \/ \E u \in Users : Subscribe(s, u)
         \/ Unsubscribe(s) \/ Fetch(s) \/ Hlen(s) \/ Hexists(s)
         \/ HdelCount(s) \/ Remaining(s) \/ Del(s) \/ DelCounts(s)
  PROVE  CountOK'
<1>1. \A u \in Users : count'[u] \in {count[u], 0}
  BY CountsKept
<1>2. hash' \subseteq hash
  BY DEF Subscribe, Unsubscribe, Fetch, Hlen, Hexists, HdelCount, Remaining, Del, DelCounts,
         Write, redisVars
<1> QED BY <1>1, <1>2, SameSockets, Finite DEF CountOK

\* The count goes up with the sockets it stands for.
LEMMA IncrPreserves ==
  ASSUME Types, CountOK, NEW s \in Sockets, Incr(s), errors' = errors, errors \in Nat PROVE CountOK'
<1>1. PICK w \in Users : who[s] = w /\ pc[s] = "incr"
  BY DEF Types, Incr
<1>2. count' = [count EXCEPT ![w] = @ + 1] /\ hash' = hash
  BY <1>1 DEF Incr, Fails, Add
<1>3. \A t \in Sockets \ {s} : pc'[t] = pc[t] /\ who'[t] = who[t]
  BY DEF Types, Incr, Command, LastCommand
<1>4. /\ who'[s] = w
      /\ pc'[s] = IF count'[w] = 1 THEN "hset" ELSE "fetch"
  BY <1>1 DEF Types, Incr, Command, LastCommand
<1>5. \A u \in Users : Deleting(u)' <=> Deleting(u)
  BY <1>1, <1>3, <1>4 DEF Deleting
<1>6. \A u \in Users \ {w} : Settled(u)' = Settled(u)
  BY <1>1, <1>3, <1>4 DEF Settled
<1>7. s \notin Settled(w)
  BY <1>1 DEF Settled
<1>8. Settled(w)' = IF count'[w] = 1 THEN Settled(w) ELSE Settled(w) \cup {s}
  BY <1>1, <1>3, <1>4 DEF Settled
<1>10. count'[w] # 1 => Cardinality(Settled(w)') = Cardinality(Settled(w)) + 1
  BY <1>7, <1>8, Finite, FS_AddElement
<1>11. count'[w] = count[w] + 1 /\ count[w] \in Int
  BY <1>1, <1>2 DEF Types
<1>12. \A u \in Users \ {w} : count'[u] = count[u]
  BY <1>2 DEF Types
<1>13. Settled(w) # {} => Cardinality(Settled(w)) # 0
  BY Finite, FS_EmptySet
<1>14. /\ count'[w] <= Cardinality(Settled(w)') + 1
       /\ w \in hash' /\ ~ Deleting(w)' => /\ Settled(w)' # {}
                                           /\ count'[w] <= Cardinality(Settled(w)')
  <2>1. /\ count[w] <= Cardinality(Settled(w)) + 1
        /\ w \in hash /\ ~ Deleting(w) => /\ Settled(w) # {}
                                          /\ count[w] <= Cardinality(Settled(w))
    BY <1>1 DEF CountOK
  <2>2. Cardinality(Settled(w)) \in Nat
    BY Finite
  <2>3. CASE count'[w] = 1
    BY <1>1, <1>2, <1>5, <1>8, <1>11, <1>13, <2>1, <2>2, <2>3
  <2>4. CASE count'[w] # 1
    BY <1>1, <1>2, <1>5, <1>8, <1>10, <1>11, <2>1, <2>2, <2>4
  <2> QED BY <2>3, <2>4
<1> QED BY <1>2, <1>5, <1>6, <1>12, <1>14 DEF CountOK

\* The hash is written by a socket that settles with it.
LEMMA HsetPreserves ==
  ASSUME Types, CountOK, NEW s \in Sockets, Hset(s), errors' = errors PROVE CountOK'
<1>1. PICK w \in Users : who[s] = w /\ pc[s] = "hset"
  BY DEF Types, Hset, LastCommand
<1>2. count' = count /\ hash' = hash \cup {w}
  BY <1>1 DEF Hset, Write, Fails, Types
<1>3. \A t \in Sockets \ {s} : pc'[t] = pc[t] /\ who'[t] = who[t]
  BY DEF Types, Hset, LastCommand
<1>4. who'[s] = w /\ pc'[s] = "fetch"
  BY <1>1 DEF Types, Hset, LastCommand
<1>5. \A u \in Users : Deleting(u)' <=> Deleting(u)
  BY <1>1, <1>3, <1>4 DEF Deleting
<1>6. \A u \in Users \ {w} : Settled(u)' = Settled(u)
  BY <1>1, <1>3, <1>4 DEF Settled
<1>7. Settled(w)' = Settled(w) \cup {s} /\ s \notin Settled(w)
  BY <1>1, <1>3, <1>4 DEF Settled
<1>8. Cardinality(Settled(w)') = Cardinality(Settled(w)) + 1
  BY <1>7, Finite, FS_AddElement
<1>9. count[w] \in Int /\ Cardinality(Settled(w)) \in Nat
  BY <1>1, Finite DEF Types
<1>10. count'[w] <= Cardinality(Settled(w)')
  <2>1. count[w] <= Cardinality(Settled(w)) + 1
    BY <1>1 DEF CountOK
  <2> QED BY <1>2, <1>8, <1>9, <2>1
<1>11. Settled(w)' # {} /\ count'[w] <= Cardinality(Settled(w)') + 1
  BY <1>2, <1>7, <1>8, <1>9, <1>10
<1>12. \A u \in Users \ {w} : u \in hash' => u \in hash
  BY <1>2
<1> QED BY <1>2, <1>5, <1>6, <1>10, <1>11, <1>12 DEF CountOK

\* The count goes down with the sockets it stands for; a socket that does not
\* delete the user leaves another settled one behind.
LEMMA DecrPreserves ==
  ASSUME Types, CountOK, NEW s \in Sockets, Decr(s), errors' = errors PROVE CountOK'
<1>1. PICK w \in Users : who[s] = w /\ pc[s] = "decr"
  BY DEF Types, Decr
<1>2. count' = [count EXCEPT ![w] = @ + -1] /\ hash' = hash
  BY <1>1 DEF Decr, Fails, Add, Types
<1>3. \A t \in Sockets \ {s} : pc'[t] = pc[t] /\ who'[t] = who[t]
  BY DEF Types, Decr, Command, LastCommand
<1>4. \/ count'[w] <= 0 /\ pc'[s] = "hdel" /\ who'[s] = w
      \/ count'[w] > 0 /\ pc'[s] = "out" /\ who'[s] = NoUser
  <2>1. count'[w] \in Int
    BY <1>1, <1>2 DEF Types
  <2> QED BY <1>1, <2>1 DEF Types, Decr, Command, LastCommand, Fails
<1>5. /\ \A u \in Users \ {w} : Deleting(u)' <=> Deleting(u)
      /\ Deleting(w) => Deleting(w)'
      /\ pc'[s] = "hdel" => Deleting(w)'
  BY <1>1, <1>3, <1>4, NoneAssumption DEF Deleting
<1>6. \A u \in Users \ {w} : Settled(u)' = Settled(u)
  BY <1>1, <1>3, <1>4, NoneAssumption DEF Settled
<1>7. Settled(w)' = Settled(w) \ {s} /\ s \in Settled(w)
  BY <1>1, <1>3, <1>4, NoneAssumption DEF Settled
<1>8. Cardinality(Settled(w)') = Cardinality(Settled(w)) - 1
  BY <1>7, Finite, FS_RemoveElement
<1>9. count'[w] = count[w] - 1 /\ count[w] \in Int
  BY <1>1, <1>2 DEF Types
<1>10. \A u \in Users \ {w} : count'[u] = count[u]
  BY <1>2 DEF Types
<1>11. Settled(w)' = {} => Cardinality(Settled(w)') = 0
  BY FS_EmptySet
<1>12. /\ count'[w] <= Cardinality(Settled(w)') + 1
       /\ w \in hash' /\ ~ Deleting(w)' => /\ Settled(w)' # {}
                                           /\ count'[w] <= Cardinality(Settled(w)')
  <2>1. /\ count[w] <= Cardinality(Settled(w)) + 1
        /\ w \in hash /\ ~ Deleting(w) => count[w] <= Cardinality(Settled(w))
    BY <1>1 DEF CountOK
  <2>2. Cardinality(Settled(w)) \in Nat
    BY Finite
  <2>3. CASE pc'[s] = "hdel"
    BY <1>5, <1>8, <1>9, <2>1, <2>2, <2>3
  <2>4. CASE count'[w] > 0
    BY <1>2, <1>5, <1>8, <1>9, <1>11, <2>1, <2>2, <2>4
  <2> QED BY <1>4, <2>3, <2>4
<1> QED BY <1>2, <1>5, <1>6, <1>10, <1>12 DEF CountOK

\* HDEL takes the user out before the socket stops deleting it.
LEMMA HdelPreserves ==
  ASSUME Types, CountOK, NEW s \in Sockets, Hdel(s), errors' = errors PROVE CountOK'
<1>1. PICK w \in Users : who[s] = w /\ pc[s] = "hdel"
  BY DEF Types, Hdel, Command
<1>2. count' = count /\ hash' = hash \ {w}
  BY <1>1 DEF Hdel, Write, Fails, Types
<1>3. /\ \A t \in Sockets \ {s} : pc'[t] = pc[t] /\ who'[t] = who[t]
      /\ who'[s] = w /\ pc'[s] = "hdelCount"
  BY <1>1 DEF Types, Hdel, Command
<1>4. \A u \in Users : Settled(u)' = Settled(u)
  BY <1>1, <1>3 DEF Settled
<1>5. \A u \in Users \ {w} : Deleting(u)' <=> Deleting(u)
  BY <1>1, <1>3 DEF Deleting
<1> QED BY <1>2, <1>4, <1>5 DEF CountOK

\* Every step keeps the bound of the counts, without faults.
LEMMA CountPreserved == ASSUME Types, NoFaults => CountOK, Next PROVE (NoFaults => CountOK)'
<1> SUFFICES ASSUME NoFaults' PROVE CountOK'
  OBVIOUS
<1>1. ASSUME NEW n \in Nodes, Crash(n) PROVE FALSE
  BY <1>1 DEF Crash, NoFaults, Types
<1>2. PICK s \in Sockets : Step(s) \/ Unsubscribe(s) \/ \E u \in Users : Subscribe(s, u)
  BY <1>1 DEF Next
<1>3. crashes' = crashes /\ errors' \in {errors, errors + 1}
  BY <1>2 DEF Step, Operate, Subscribe, Unsubscribe, Hlen, Hexists, Incr, Hset, Fetch, Decr, Hdel, HdelCount,
              Remaining, Del, DelCounts, Command, LastCommand, Answered, Fails, Write
<1>4. errors' = errors /\ CountOK
  BY <1>3 DEF NoFaults, Types
<1> QED
  BY <1>2, <1>4, WritesLess, IncrPreserves, HsetPreserves, DecrPreserves, HdelPreserves DEF Step, Operate, Types

----------------------------------------------------------------------------
(* The counts with failing commands *)

\* A count goes up and down with the sockets it stands for; only a failing
\* decrement takes the socket and leaves the count.
LEMMA OverestimatePreserved ==
  ASSUME Types, CountIsNoOverestimate, Next PROVE CountIsNoOverestimate'
<1> SUFFICES ASSUME crashes' = 0, NEW u \in Users
             PROVE  count'[u] <= Cardinality(CountedFor(u)') + errors'
  BY DEF CountIsNoOverestimate
<1>1. ASSUME NEW n \in Nodes, Crash(n) PROVE FALSE
  BY <1>1 DEF Crash, Types
<1>2. PICK s \in Sockets : Step(s) \/ Unsubscribe(s) \/ \E v \in Users : Subscribe(s, v)
  BY <1>1 DEF Next
<1>3. crashes' = crashes /\ errors' \in {errors, errors + 1} /\ errors \in Nat
  BY <1>2 DEF Types, Step, Operate, Subscribe, Unsubscribe, Hlen, Hexists, Incr, Hset, Fetch, Decr, Hdel,
              HdelCount, Remaining, Del, DelCounts, Command, LastCommand, Answered, Fails, Write
<1>4. /\ count[u] <= Cardinality(CountedFor(u)) + errors /\ count[u] \in Int
      /\ Cardinality(CountedFor(u)) \in Nat
  BY <1>3, Finite DEF CountIsNoOverestimate, Types
<1>5. CASE \/ \E v \in Users : Subscribe(s, v)
           \/ Unsubscribe(s) \/ Fetch(s) \/ Hlen(s) \/ Hexists(s)
           \/ HdelCount(s) \/ Remaining(s) \/ Del(s) \/ DelCounts(s)
  <2>1. CountedFor(u)' = CountedFor(u) /\ count'[u] \in {count[u], 0}
    BY <1>5, SameSockets, CountsKept
  <2> QED BY <1>3, <1>4, <2>1
<1>6. CASE Hset(s) \/ Hdel(s)
  <2>1. CountedFor(u)' = CountedFor(u)
    BY <1>6 DEF Types, Hset, Hdel, Command, LastCommand, CountedFor
  <2>2. count' = count
    BY <1>6 DEF Hset, Hdel
  <2> QED BY <1>3, <1>4, <2>1, <2>2
<1>7. CASE Incr(s)
  <2>1. PICK w \in Users : who[s] = w /\ pc[s] = "incr"
    BY <1>7 DEF Types, Incr
  <2>2. \A t \in Sockets \ {s} : pc'[t] = pc[t] /\ who'[t] = who[t]
    BY <1>7 DEF Types, Incr, Command, LastCommand
  <2>3. who'[s] = w /\ pc'[s] \in {"hset", "fetch"}
    BY <1>7, <2>1 DEF Types, Incr, Command, LastCommand
  <2>4. count' \in {count, [count EXCEPT ![w] = @ + 1]}
    BY <1>7, <2>1 DEF Incr, Add
  <2>5. CASE u = w
    <3>1. CountedFor(w)' = CountedFor(w) \cup {s} /\ s \notin CountedFor(w)
      BY <2>1, <2>2, <2>3 DEF CountedFor
    <3>2. Cardinality(CountedFor(w)') = Cardinality(CountedFor(w)) + 1
      BY <3>1, Finite, FS_AddElement
    <3>3. count'[w] \in {count[w], count[w] + 1}
      BY <2>4 DEF Types
    <3> QED BY <1>3, <1>4, <2>5, <3>2, <3>3
  <2>6. CASE u # w
    <3>1. CountedFor(u)' = CountedFor(u)
      BY <2>1, <2>2, <2>3, <2>6 DEF CountedFor
    <3>2. count'[u] = count[u]
      BY <2>4, <2>6 DEF Types
    <3> QED BY <1>3, <1>4, <3>1, <3>2
  <2> QED BY <2>5, <2>6
<1>8. CASE Decr(s)
  <2>1. PICK w \in Users : who[s] = w /\ pc[s] = "decr"
    BY <1>8 DEF Types, Decr
  <2>2. \A t \in Sockets \ {s} : pc'[t] = pc[t] /\ who'[t] = who[t]
    BY <1>8 DEF Types, Decr, Command, LastCommand
  <2>3. pc'[s] \in {"hdel", "out"}
    BY <1>8 DEF Types, Decr, Command, LastCommand
  <2>4. \/ errors' = errors /\ count' = [count EXCEPT ![w] = @ + -1]
        \/ errors' = errors + 1 /\ count' \in {count, [count EXCEPT ![w] = @ + -1]}
    BY <1>8, <2>1 DEF Decr, Add, Answered, Fails
  <2>5. CASE u = w
    <3>1. CountedFor(w)' = CountedFor(w) \ {s} /\ s \in CountedFor(w)
      BY <2>1, <2>2, <2>3 DEF CountedFor
    <3>2. Cardinality(CountedFor(w)') = Cardinality(CountedFor(w)) - 1
      BY <3>1, Finite, FS_RemoveElement
    <3>3. \/ errors' = errors /\ count'[w] = count[w] - 1
          \/ errors' = errors + 1 /\ count'[w] \in {count[w], count[w] - 1}
      BY <1>4, <2>4, <2>5 DEF Types
    <3> QED BY <1>3, <1>4, <2>5, <3>2, <3>3
  <2>6. CASE u # w
    <3>1. CountedFor(u)' = CountedFor(u)
      <4>1. s \notin CountedFor(u) /\ ~ (who'[s] = u /\ pc'[s] \in {"hset", "fetch", "in", "decr"})
        BY <2>1, <2>3, <2>6 DEF CountedFor
      <4> QED BY <2>2, <4>1 DEF CountedFor
    <3>2. count'[u] = count[u]
      BY <2>4, <2>6 DEF Types
    <3> QED BY <1>3, <1>4, <3>1, <3>2
  <2> QED BY <2>5, <2>6
<1> QED BY <1>2, <1>5, <1>6, <1>7, <1>8 DEF Step, Operate

----------------------------------------------------------------------------

\* Types, the mutex and the bounds of the counts hold in every reachable state.
THEOREM PresenceInvariant == Spec => []Inv
<1>1. Inv /\ [Next]_vars => Inv'
  <2> SUFFICES ASSUME Inv, [Next]_vars PROVE Inv'
    OBVIOUS
  <2>1. CASE UNCHANGED vars
    <3> USE <2>1 DEF vars, redisVars
    <3>1. Types' /\ LockedByOperation'
      BY DEF Inv, Types, LockedByOperation, Operating
    <3>2. /\ \A u : Settled(u)' = Settled(u) /\ CountedFor(u)' = CountedFor(u)
          /\ \A u : Deleting(u)' <=> Deleting(u)
      BY DEF Settled, CountedFor, Deleting
    <3>3. NoFaults' <=> NoFaults
      BY DEF NoFaults
    <3>4. (CountOK => CountOK') /\ (CountIsNoOverestimate => CountIsNoOverestimate')
      BY <3>2 DEF CountOK, CountIsNoOverestimate
    <3> QED BY <3>1, <3>3, <3>4 DEF Inv
  <2>2. CASE Next
    BY <2>2, TypesPreserved, LockPreserved, OverestimatePreserved, CountPreserved DEF Inv
  <2> QED BY <2>1, <2>2
<1> QED BY InitInv, <1>1, PTL DEF Spec

\* Whoever waits for cmd_conn waits for an operation in the middle of its
\* commands, never for itself or for another that waits: no refusal, error or
\* early return keeps it locked, and no two operations of a node mix.
THEOREM LockCorrect == Spec => []LockedByOperation
BY PresenceInvariant, PTL DEF Inv

\* The count of a user exceeds the sockets it stands for by no more than the
\* number of commands that have failed, on any number of nodes.
THEOREM NoOverestimate == Spec => []CountIsNoOverestimate
<1>1. Inv => CountIsNoOverestimate
  BY DEF Inv
<1> QED BY <1>1, PresenceInvariant, PTL

\* As long as every command is answered, the last socket of a user, on whatever
\* node, takes the user out of the hash.
THEOREM NoGhosts == Spec => []NoGhostMember
<1>1. Inv => NoGhostMember
  BY DEF Inv, Types, CountOK, NoGhostMember, HasSocket, Settled, Deleting
<1> QED BY <1>1, PresenceInvariant, PTL

----------------------------------------------------------------------------
(* Operations in turns *)

\* What an operation has found out, and what it may rely on, while it is alone.
Alone(s) ==
  /\ pc[s] = "hexists" => seen[s] = Cardinality(hash)
  /\ pc[s] = "incr" => who[s] \in hash \/ Cardinality(hash) < MaxMembers
  /\ pc[s] = "hset" => who[s] \notin hash /\ Cardinality(hash) < MaxMembers
  /\ pc[s] \in {"hdel", "hdelCount"} => CountedFor(who[s]) = {}
  /\ pc[s] \in {"del", "delCounts"} => hash = {}

\* One operation runs at a time, and Redis holds what it has written so far.
InTurns ==
  /\ \A s, t \in Sockets : Operating(s) /\ Operating(t) => s = t
  /\ \A u \in Users : count[u] = Cardinality(CountedFor(u)) /\ (u \in hash <=> HasSocket(u))
  /\ Cardinality(hash) <= MaxMembers
  /\ \A s \in Sockets : Alone(s)

TurnsInv == NoFaults /\ ~ overlapped => InTurns

\* It is enough to look at the task that takes the step: the others are not in
\* the middle of an operation.
LEMMA AloneEnough ==
  ASSUME Types, NEW s \in Sockets,
         \A t \in Sockets \ {s} : pc'[t] = pc[t] /\ who'[t] = who[t] /\ ~ Operating(t),
         \A u \in Users : count'[u] = Cardinality(CountedFor(u)') /\ (u \in hash' <=> HasSocket(u)'),
         Cardinality(hash') <= MaxMembers, Alone(s)'
  PROVE  InTurns'
<1>1. ASSUME NEW t \in Sockets \ {s} PROVE Alone(t)' /\ ~ Operating(t)'
  <2>1. pc'[t] \in {"out", "fetch", "in"}
    BY DEF Operating
  <2> QED BY <2>1 DEF Alone, Operating
<1>2. \A t \in Sockets : Alone(t)'
  BY <1>1
<1>3. \A t, v \in Sockets : Operating(t)' /\ Operating(v)' => t = v
  BY <1>1
<1> QED BY <1>2, <1>3 DEF InTurns

\* Steps of the operation that do not count a socket.
LEMMA SameTurn ==
  ASSUME Types, InTurns, NEW s \in Sockets, \A t \in Sockets \ {s} : ~ Operating(t), errors' = errors,
         \/ \E u \in Users : Subscribe(s, u)
         \/ Unsubscribe(s) \/ Fetch(s) \/ Hlen(s) \/ Hexists(s)
         \/ HdelCount(s) \/ Remaining(s) \/ Del(s) \/ DelCounts(s)
  PROVE  InTurns'
<1>1. \A t \in Sockets \ {s} : pc'[t] = pc[t] /\ who'[t] = who[t]
  BY DEF Types, Subscribe, Unsubscribe, Fetch, Hlen, Hexists, HdelCount, Remaining, Del, DelCounts,
         Command, LastCommand
<1>2. \A u \in Users : CountedFor(u)' = CountedFor(u) /\ (HasSocket(u)' <=> HasSocket(u))
  <2>1. \A u : HasSocket(u) <=> Settled(u) # {} \/ Deleting(u)
    BY DEF HasSocket, Settled, Deleting
  <2>2. \A u : HasSocket(u)' <=> Settled(u)' # {} \/ Deleting(u)'
    BY DEF HasSocket, Settled, Deleting
  <2> QED BY <2>1, <2>2, SameSockets
<1>3. Alone(s) /\ Cardinality(hash) <= MaxMembers /\ Cardinality(hash) \in Nat /\ MaxMembers \in Nat /\ errors \in Nat
  BY HashFinite, BoundAssumption DEF InTurns, Types
<1>4. \A u \in Users : count[u] = Cardinality(CountedFor(u)) /\ (u \in hash <=> HasSocket(u))
  BY DEF InTurns
<1>5. Cardinality({}) = 0
  BY FS_EmptySet
<1>6. ASSUME UNCHANGED redisVars, Alone(s)' PROVE InTurns'
  BY <1>1, <1>2, <1>3, <1>4, <1>6, AloneEnough DEF redisVars
<1>7. ASSUME NEW u \in Users, Subscribe(s, u) PROVE InTurns'
  BY <1>6, <1>7 DEF Types, Subscribe, Alone
<1>8. ASSUME Unsubscribe(s) \/ Fetch(s) PROVE InTurns'
  BY <1>6, <1>8 DEF Types, Unsubscribe, Fetch, Alone, redisVars
<1>9. ASSUME Hlen(s) PROVE InTurns'
  <2>1. pc'[s] = "hexists" /\ UNCHANGED redisVars /\ seen' = [seen EXCEPT ![s] = Cardinality(hash)]
    BY <1>3, <1>9 DEF Types, Hlen, Command, Fails
  <2> QED BY <1>6, <2>1 DEF Alone, redisVars, Types
<1>10. ASSUME Hexists(s) PROVE InTurns'
  <2>1. /\ UNCHANGED redisVars /\ who[s] \in Users /\ pc[s] = "hexists"
        /\ \/ pc'[s] = "out"
           \/ pc'[s] = "incr" /\ who'[s] = who[s] /\ (who[s] \in hash \/ seen[s] < MaxMembers)
    BY <1>3, <1>10 DEF Types, Hexists, Command, LastCommand, Answered, Fails
  <2>2. Alone(s)'
    BY <1>3, <2>1 DEF Alone, redisVars
  <2> QED BY <1>6, <2>1, <2>2
<1>11. ASSUME HdelCount(s) PROVE InTurns'
  <2>1. /\ pc[s] = "hdelCount" /\ pc'[s] = "remaining" /\ who[s] \in Users
        /\ hash' = hash /\ count' = [count EXCEPT ![who[s]] = 0]
    BY <1>3, <1>11 DEF Types, HdelCount, Command, Write, Fails
  <2>2. CountedFor(who[s]) = {}
    BY <1>3, <2>1 DEF Alone
  <2>3. \A u \in Users : count'[u] = count[u]
    BY <1>4, <1>5, <2>1, <2>2 DEF Types
  <2>4. Alone(s)'
    BY <2>1 DEF Alone
  <2> QED BY <1>1, <1>2, <1>3, <1>4, <2>1, <2>3, <2>4, AloneEnough
<1>12. ASSUME Remaining(s) PROVE InTurns'
  <2>1. /\ UNCHANGED redisVars
        /\ pc'[s] = "out" \/ (pc'[s] = "del" /\ hash = {})
    BY <1>3, <1>12 DEF Types, Remaining, Command, LastCommand, Answered, Fails
  <2>2. Alone(s)'
    BY <2>1 DEF Alone, redisVars
  <2> QED BY <1>6, <2>1, <2>2
<1>13. ASSUME Del(s) PROVE InTurns'
  <2>1. pc[s] = "del" /\ pc'[s] = "delCounts" /\ count' = count /\ hash' = {}
    BY <1>3, <1>13 DEF Types, Del, Command, Write, Fails
  <2>2. hash = {}
    BY <1>3, <2>1 DEF Alone
  <2>3. Alone(s)' /\ UNCHANGED redisVars
    BY <2>1, <2>2 DEF Alone, redisVars
  <2> QED BY <1>6, <2>3
<1>14. ASSUME DelCounts(s) PROVE InTurns'
  <2>1. pc[s] = "delCounts" /\ pc'[s] = "out" /\ hash' = hash /\ count' = [u \in Users |-> 0]
    BY <1>3, <1>14 DEF Types, DelCounts, LastCommand, Write, Fails
  <2>2. hash = {}
    BY <1>3, <2>1 DEF Alone
  \* A socket that counts would be a member, or in the middle of its add.
  <2>3. ASSUME NEW u \in Users PROVE CountedFor(u) = {}
    <3>1. ~ HasSocket(u)
      BY <1>4, <2>2
    <3>2. ASSUME NEW t \in CountedFor(u) PROVE FALSE
      <4>1. t \in Sockets /\ pc[t] = "hset"
        BY <3>1 DEF CountedFor, HasSocket
      <4> QED BY <2>1, <4>1 DEF Operating
    <3> QED BY <3>2
  <2>4. \A u \in Users : count'[u] = count[u]
    BY <1>4, <1>5, <2>1, <2>3
  <2>5. Alone(s)'
    BY <2>1 DEF Alone
  <2> QED BY <1>1, <1>2, <1>3, <1>4, <2>1, <2>4, <2>5, AloneEnough
<1> QED BY <1>7, <1>8, <1>9, <1>10, <1>11, <1>12, <1>13, <1>14

\* The socket that counts up to one is the first of its user.
LEMMA IncrTurn ==
  ASSUME Types, InTurns, NEW s \in Sockets, \A t \in Sockets \ {s} : ~ Operating(t), errors' = errors, Incr(s)
  PROVE  InTurns'
<1>1. PICK w \in Users : who[s] = w /\ pc[s] = "incr"
  BY DEF Types, Incr
<1>2. count' = [count EXCEPT ![w] = @ + 1] /\ hash' = hash
  BY <1>1 DEF Incr, Fails, Add, Types
<1>3. \A t \in Sockets \ {s} : pc'[t] = pc[t] /\ who'[t] = who[t]
  BY DEF Types, Incr, Command, LastCommand
<1>4. who'[s] = w /\ pc'[s] = IF count'[w] = 1 THEN "hset" ELSE "fetch"
  BY <1>1 DEF Types, Incr, Command, LastCommand
<1>5. /\ \A u \in Users : count[u] = Cardinality(CountedFor(u)) /\ (u \in hash <=> HasSocket(u))
      /\ Alone(s) /\ Cardinality(hash) <= MaxMembers
  BY DEF InTurns
<1>6. \A u \in Users \ {w} : CountedFor(u)' = CountedFor(u) /\ (HasSocket(u)' <=> HasSocket(u))
  BY <1>1, <1>3, <1>4 DEF CountedFor, HasSocket
<1>7. CountedFor(w)' = CountedFor(w) \cup {s} /\ s \notin CountedFor(w)
  BY <1>1, <1>3, <1>4 DEF CountedFor
<1>8. /\ Cardinality(CountedFor(w)') = Cardinality(CountedFor(w)) + 1
      /\ Cardinality(CountedFor(w)) \in Nat
      /\ Cardinality(CountedFor(w)) = 0 <=> CountedFor(w) = {}
  BY <1>7, Finite, FS_AddElement, FS_EmptySet
<1>9. \A u \in Users : count'[u] = Cardinality(CountedFor(u)')
  BY <1>1, <1>2, <1>5, <1>6, <1>8 DEF Types
\* The first socket of a user finds the user missing, a later one a member.
<1>10. CountedFor(w) = {} <=> ~ HasSocket(w)
  <2>1. \A t \in Sockets : who[t] = w /\ t # s => pc[t] \in {"out", "fetch", "in"}
    BY DEF Operating
  <2> QED BY <1>1, <2>1 DEF CountedFor, HasSocket
<1>11. CASE count'[w] = 1
  <2>1. w \notin hash
    BY <1>1, <1>5, <1>8, <1>9, <1>10, <1>11
  <2>2. HasSocket(w)' <=> HasSocket(w)
    BY <1>1, <1>3, <1>4, <1>11 DEF HasSocket
  <2>3. Alone(s)'
    BY <1>1, <1>2, <1>4, <1>5, <1>11, <2>1 DEF Alone
  <2> QED BY <1>2, <1>3, <1>5, <1>6, <1>9, <2>2, <2>3, AloneEnough
<1>12. CASE count'[w] # 1
  <2>1. CountedFor(w) # {}
    BY <1>1, <1>8, <1>9, <1>12
  <2>2. HasSocket(w)' /\ HasSocket(w)
    BY <1>4, <1>10, <1>12, <2>1 DEF HasSocket
  <2>3. Alone(s)'
    BY <1>4, <1>12 DEF Alone
  <2> QED BY <1>2, <1>3, <1>5, <1>6, <1>9, <2>2, <2>3, AloneEnough
<1> QED BY <1>11, <1>12

\* The member it writes was missing, and there is room for it.
LEMMA HsetTurn ==
  ASSUME Types, InTurns, NEW s \in Sockets, \A t \in Sockets \ {s} : ~ Operating(t), errors' = errors, Hset(s)
  PROVE  InTurns'
<1>1. PICK w \in Users : who[s] = w /\ pc[s] = "hset"
  BY DEF Types, Hset, LastCommand
<1>2. count' = count /\ hash' = hash \cup {w}
  BY <1>1 DEF Hset, Write, Fails, Types
<1>3. \A t \in Sockets \ {s} : pc'[t] = pc[t] /\ who'[t] = who[t]
  BY DEF Types, Hset, LastCommand
<1>4. who'[s] = w /\ pc'[s] = "fetch"
  BY <1>1 DEF Types, Hset, LastCommand
<1>5. /\ \A u \in Users : count[u] = Cardinality(CountedFor(u)) /\ (u \in hash <=> HasSocket(u))
      /\ w \notin hash /\ Cardinality(hash) < MaxMembers
  BY <1>1 DEF InTurns, Alone
<1>6. \A u \in Users : CountedFor(u)' = CountedFor(u) /\ (HasSocket(u)' <=> HasSocket(u) \/ u = w)
  BY <1>1, <1>3, <1>4 DEF CountedFor, HasSocket
<1>7. hash \subseteq Users
  BY DEF Types
<1>8. Cardinality(hash') = Cardinality(hash) + 1 /\ Cardinality(hash) \in Nat /\ MaxMembers \in Nat
  BY <1>2, <1>5, <1>7, HashFinite, FS_AddElement, BoundAssumption
<1>9. Alone(s)'
  BY <1>4 DEF Alone
<1>10. Cardinality(hash') <= MaxMembers
  BY <1>5, <1>8
<1> QED BY <1>2, <1>3, <1>5, <1>6, <1>9, <1>10, AloneEnough

\* The socket that counts down to zero is the last of its user.
LEMMA DecrTurn ==
  ASSUME Types, InTurns, NEW s \in Sockets, \A t \in Sockets \ {s} : ~ Operating(t), errors' = errors, Decr(s)
  PROVE  InTurns'
<1>1. PICK w \in Users : who[s] = w /\ pc[s] = "decr"
  BY DEF Types, Decr
<1>2. count' = [count EXCEPT ![w] = @ + -1] /\ hash' = hash
  BY <1>1 DEF Decr, Fails, Add, Types
<1>3. \A t \in Sockets \ {s} : pc'[t] = pc[t] /\ who'[t] = who[t]
  BY DEF Types, Decr, Command, LastCommand
<1>4. \/ count'[w] <= 0 /\ pc'[s] = "hdel" /\ who'[s] = w
      \/ count'[w] > 0 /\ pc'[s] = "out" /\ who'[s] = NoUser
  <2>1. count'[w] \in Int
    BY <1>1, <1>2 DEF Types
  <2> QED BY <1>1, <2>1 DEF Types, Decr, Command, LastCommand, Fails
<1>5. /\ \A u \in Users : count[u] = Cardinality(CountedFor(u)) /\ (u \in hash <=> HasSocket(u))
      /\ Cardinality(hash) <= MaxMembers
  BY DEF InTurns
<1>6. \A u \in Users \ {w} : CountedFor(u)' = CountedFor(u) /\ (HasSocket(u)' <=> HasSocket(u))
  BY <1>1, <1>3, <1>4, NoneAssumption DEF CountedFor, HasSocket
<1>7. CountedFor(w)' = CountedFor(w) \ {s} /\ s \in CountedFor(w)
  BY <1>1, <1>3, <1>4, NoneAssumption DEF CountedFor
<1>8. /\ Cardinality(CountedFor(w)') = Cardinality(CountedFor(w)) - 1
      /\ Cardinality(CountedFor(w)') \in Nat /\ IsFiniteSet(CountedFor(w)')
  BY <1>7, Finite, FS_RemoveElement, FS_Subset, FS_CardinalityType
<1>9. \A u \in Users : count'[u] = Cardinality(CountedFor(u)')
  BY <1>1, <1>2, <1>5, <1>6, <1>8 DEF Types
<1>10. HasSocket(w)
  BY <1>1 DEF HasSocket
<1>11. CASE count'[w] <= 0
  <2>1. CountedFor(w)' = {}
    BY <1>1, <1>8, <1>9, <1>11, FS_EmptySet
  <2>2. pc'[s] = "hdel" /\ who'[s] = w
    BY <1>4, <1>8, <1>9, <1>11
  <2>3. HasSocket(w)'
    BY <2>2 DEF HasSocket
  <2>4. Alone(s)'
    BY <2>1, <2>2 DEF Alone
  <2> QED BY <1>2, <1>3, <1>5, <1>6, <1>9, <1>10, <2>3, <2>4, AloneEnough
<1>12. CASE count'[w] > 0
  <2>1. CountedFor(w)' # {}
    BY <1>1, <1>9, <1>12, FS_EmptySet
  <2>2. pc'[s] = "out" /\ who'[s] = NoUser
    BY <1>4, <1>8, <1>9, <1>12
  <2>3. PICK t \in Sockets \ {s} : who'[t] = w /\ pc'[t] \in {"hset", "fetch", "in", "decr"}
    BY <2>1, <2>2 DEF CountedFor
  <2>4. HasSocket(w)'
    BY <1>3, <2>3 DEF Operating, HasSocket
  <2>5. Alone(s)'
    BY <2>2 DEF Alone
  <2> QED BY <1>2, <1>3, <1>5, <1>6, <1>9, <1>10, <2>4, <2>5, AloneEnough
<1> QED BY <1>4, <1>11, <1>12

\* The user it takes out has no socket left.
LEMMA HdelTurn ==
  ASSUME Types, InTurns, NEW s \in Sockets, \A t \in Sockets \ {s} : ~ Operating(t), errors' = errors, Hdel(s)
  PROVE  InTurns'
<1>1. PICK w \in Users : who[s] = w /\ pc[s] = "hdel"
  BY DEF Types, Hdel, Command
<1>2. count' = count /\ hash' = hash \ {w}
  BY <1>1 DEF Hdel, Write, Fails, Types
<1>3. /\ \A t \in Sockets \ {s} : pc'[t] = pc[t] /\ who'[t] = who[t]
      /\ who'[s] = w /\ pc'[s] = "hdelCount"
  BY <1>1 DEF Types, Hdel, Command
<1>4. /\ \A u \in Users : count[u] = Cardinality(CountedFor(u)) /\ (u \in hash <=> HasSocket(u))
      /\ Cardinality(hash) <= MaxMembers /\ CountedFor(w) = {}
  BY <1>1 DEF InTurns, Alone
<1>5. \A u \in Users : CountedFor(u)' = CountedFor(u)
  BY <1>1, <1>3 DEF CountedFor
<1>6. \A u \in Users \ {w} : HasSocket(u)' <=> HasSocket(u)
  BY <1>1, <1>3 DEF HasSocket
<1>7. ~ HasSocket(w)'
  <2>1. \A t \in Sockets \ {s} : ~ (who'[t] = w /\ pc'[t] \in {"fetch", "in", "decr", "hdel"})
    BY <1>3, <1>4 DEF CountedFor, Operating
  <2> QED BY <1>3, <2>1 DEF HasSocket
<1>8. Cardinality(hash') <= MaxMembers
  <2>1. hash \subseteq Users
    BY DEF Types
  <2>2. IsFiniteSet(hash) /\ Cardinality(hash) \in Nat /\ MaxMembers \in Nat
    BY <2>1, HashFinite, BoundAssumption
  <2>3. Cardinality(hash') <= Cardinality(hash) /\ Cardinality(hash') \in Nat
    BY <1>2, <2>2, FS_Subset, FS_CardinalityType
  <2> QED BY <1>4, <2>2, <2>3
<1>9. Alone(s)'
  BY <1>3, <1>4, <1>5 DEF Alone
<1> QED BY <1>2, <1>3, <1>4, <1>5, <1>6, <1>7, <1>8, <1>9, AloneEnough

\* An operation that starts while no other node's runs is alone until it ends.
LEMMA TurnsPreserved ==
  ASSUME Types, LockedByOperation, TurnsInv, Next PROVE TurnsInv'
<1> SUFFICES ASSUME NoFaults', ~ overlapped' PROVE InTurns'
  BY DEF TurnsInv
<1> USE NodeAssumption, NoneAssumption
<1>1. ASSUME NEW n \in Nodes, Crash(n) PROVE FALSE
  BY <1>1 DEF Crash, NoFaults, Types
<1>2. PICK s \in Sockets : Step(s) \/ Unsubscribe(s) \/ \E u \in Users : Subscribe(s, u)
  BY <1>1 DEF Next
<1>3. /\ crashes' = crashes /\ errors' \in {errors, errors + 1}
      /\ overlapped => overlapped'
  BY <1>2 DEF Step, Operate, Subscribe, Unsubscribe, Hlen, Hexists, Incr, Hset, Fetch, Decr, Hdel, HdelCount,
              Remaining, Del, DelCounts, Command, LastCommand, Answered, Fails, Write, Acquire
<1>4. errors' = errors /\ InTurns
  BY <1>3 DEF NoFaults, Types, TurnsInv
\* Either it is in its turn, or nobody else is.
<1>5. CASE Operating(s)
  <2>1. \A t \in Sockets \ {s} : ~ Operating(t)
    BY <1>4, <1>5 DEF InTurns
  <2>2. CASE Incr(s) \/ Hset(s) \/ Decr(s) \/ Hdel(s)
    BY <1>4, <2>1, <2>2, IncrTurn, HsetTurn, DecrTurn, HdelTurn
  <2>3. CASE ~ (Incr(s) \/ Hset(s) \/ Decr(s) \/ Hdel(s))
    BY <1>2, <1>4, <2>1, <2>3, SameTurn DEF Step, Operate
  <2> QED BY <2>2, <2>3
<1>6. CASE ~ Operating(s) /\ ~ Fetch(s)
  <2>1. Unsubscribe(s) \/ \E u \in Users : Subscribe(s, u)
    BY <1>2, <1>6 DEF Step, Operate, Hlen, Hexists, Incr, Hset, Decr, Hdel, HdelCount, Remaining, Del, DelCounts,
                      Command, LastCommand, Operating
  <2>2. \A n \in Nodes : lock[n] = NoSocket
    BY <2>1 DEF Subscribe, Unsubscribe, Acquire
  <2>3. \A t \in Sockets : ~ Operating(t)
    BY <2>2 DEF LockedByOperation
  <2> QED BY <1>4, <2>1, <2>3, SameTurn
\* fetch only reads.
<1>7. CASE Fetch(s)
  <2>1. /\ UNCHANGED <<redisVars, who, seen>> /\ pc[s] = "fetch" /\ pc'[s] = "in"
        /\ \A t \in Sockets \ {s} : pc'[t] = pc[t]
    BY <1>7 DEF Fetch, Types
  <2>2. \A u : CountedFor(u)' = CountedFor(u) /\ (HasSocket(u)' <=> HasSocket(u))
    BY <2>1 DEF CountedFor, HasSocket
  <2>3. \A t \in Sockets : Operating(t)' <=> Operating(t)
    BY <2>1 DEF Operating
  <2>4. \A t \in Sockets : Alone(t)'
    BY <1>4, <2>1, <2>2 DEF InTurns, Alone, redisVars
  <2> QED BY <1>4, <2>1, <2>2, <2>3, <2>4 DEF InTurns, redisVars
<1> QED BY <1>5, <1>6, <1>7

\* Between two operations of nodes that take turns, Redis holds exactly the users
\* and the number of sockets that are subscribed, and no more users than the
\* limit: the clean-up of both keys loses nothing.
THEOREM ExactBetweenTurns == Spec => []ExactInTurns
<1>1. Init => TurnsInv
  <2> SUFFICES ASSUME Init PROVE InTurns
    BY DEF TurnsInv
  <2>1. hash = {} /\ (\A u \in Users : count[u] = 0) /\ \A s \in Sockets : pc[s] = "out"
    BY DEF Init
  <2>2. \A u \in Users : CountedFor(u) = {} /\ ~ HasSocket(u)
    BY <2>1 DEF CountedFor, HasSocket
  <2>3. Cardinality({}) = 0 /\ MaxMembers \in Nat
    BY FS_EmptySet, BoundAssumption
  <2> QED BY <2>1, <2>2, <2>3 DEF InTurns, Alone, Operating
<1>2. Inv /\ TurnsInv /\ [Next]_vars => TurnsInv'
  <2> SUFFICES ASSUME Inv, TurnsInv, [Next]_vars PROVE TurnsInv'
    OBVIOUS
  <2>1. CASE UNCHANGED vars
    <3> USE <2>1 DEF vars, redisVars
    <3>1. \A u : CountedFor(u)' = CountedFor(u) /\ (HasSocket(u)' <=> HasSocket(u))
      BY DEF CountedFor, HasSocket
    <3>2. \A s \in Sockets : (Operating(s)' <=> Operating(s)) /\ (Alone(s) => Alone(s)')
      BY <3>1 DEF Operating, Alone
    <3>3. InTurns => InTurns'
      BY <3>1, <3>2 DEF InTurns
    <3> QED BY <3>3 DEF TurnsInv, NoFaults
  <2>2. CASE Next
    BY <2>2, TurnsPreserved DEF Inv
  <2> QED BY <2>1, <2>2
<1>3. Inv /\ TurnsInv => ExactInTurns
  <2> SUFFICES ASSUME Types, LockedByOperation, InTurns, Idle
               PROVE  /\ hash = {who[s] : s \in Subscribed}
                      /\ \A u \in Users : count[u] = Cardinality({s \in Subscribed : who[s] = u})
                      /\ Cardinality(hash) <= MaxMembers
    BY DEF Inv, TurnsInv, ExactInTurns
  <2>1. \A s \in Sockets : pc[s] \in {"out", "fetch", "in"}
    BY NodeAssumption DEF Idle, LockedByOperation, Operating
  <2>2. hash = {who[s] : s \in Subscribed}
    <3>1. \A u \in Users : HasSocket(u) <=> \E s \in Subscribed : who[s] = u
      BY <2>1 DEF HasSocket, Subscribed
    <3>2. \A s \in Subscribed : who[s] \in Users
      BY DEF Subscribed, Types
    <3> QED BY <3>1, <3>2 DEF InTurns, Types
  <2>3. \A u \in Users : CountedFor(u) = {s \in Subscribed : who[s] = u}
    BY <2>1 DEF CountedFor, Subscribed
  <2> QED BY <2>2, <2>3 DEF InTurns
<1>4. Spec => [](Inv /\ TurnsInv)
  BY <1>1, <1>2, PresenceInvariant, PTL DEF Spec
<1> QED BY <1>3, <1>4, PTL

=============================================================================
