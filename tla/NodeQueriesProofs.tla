-------------------------- MODULE NodeQueriesProofs --------------------------
(***************************************************************************)
(* Proofs about NodeQueries, for any finite set of peers and any intervals *)
(* of which the time to live is longer than two writes take.               *)
(***************************************************************************)
EXTENDS NodeQueries, FiniteSetTheorems, TLAPS

\* An entry is never older than the timer of the loop that renews it: the
\* timer of the last renewal, or of the one before when one write failed.
Renewed ==
  \A p \in Peers : status[p] = "up" =>
    /\ p \notin silent => seenAge[p] <= beatAge[p]
    /\ misses[p] = 0 => keyAge[p] <= writeAge[p]
    /\ misses[p] = 1 => keyAge[p] <= StatsInterval + writeAge[p]

\* The key of a peer that stopped ages at least since then.
Aging ==
  \A p \in Peers :
    /\ status[p] = "unborn" => misses[p] = 2
    /\ IF status[p] = "down" THEN deadFor[p] <= keyAge[p] ELSE deadFor[p] = 0

\* Answers are only collected between the publish and the return.
Collecting == query # "waiting" => got = {}

Inv == TypeOK /\ Renewed /\ Aging /\ Collecting

\* The invariant holds initially.
LEMMA InitInv == Init => Inv
<1> SUFFICES ASSUME Init PROVE Inv
  OBVIOUS
<1> USE TimesAssumption, TtlAssumption DEF Init
<1>1. TypeOK
  BY DEF TypeOK, StaleThreshold
<1>2. Renewed /\ Aging /\ Collecting
  BY DEF Renewed, Aging, Collecting
<1> QED BY <1>1, <1>2 DEF Inv

\* Time passes for ages and timers alike.
LEMMA TickPreserves == ASSUME Inv, Tick PROVE Inv'
<1> USE TimesAssumption, TtlAssumption
<1>1. \A p \in Peers : status[p] = "up" => writeAge[p] < StatsInterval /\ beatAge[p] < BeatInterval
  BY DEF Tick, NothingDue, Up
<1>2. \A p \in Peers : /\ keyAge'[p] = Older(keyAge[p], StatsTtl)
                       /\ seenAge'[p] = Older(seenAge[p], 2 * BeatInterval)
                       /\ deadFor'[p] = IF status[p] = "down" THEN Older(deadFor[p], StatsTtl) ELSE 0
  BY DEF Tick, ExpireKeys, StaleThreshold
<1>3. \A p \in Peers : /\ writeAge'[p] = IF status[p] = "up" THEN writeAge[p] + 1 ELSE writeAge[p]
                       /\ beatAge'[p] = IF status[p] = "up" THEN beatAge[p] + 1 ELSE beatAge[p]
  BY DEF Tick, Up
<1>4. UNCHANGED <<status, misses, silent, query, callKnown, reached, got>>
  BY DEF Tick
<1>5. TypeOK'
  <2>1. \A p \in Peers : keyAge'[p] \in 0..StatsTtl /\ seenAge'[p] \in 0..(2 * BeatInterval)
                         /\ deadFor'[p] \in 0..StatsTtl
    <3> SUFFICES ASSUME NEW p \in Peers
                 PROVE keyAge'[p] \in 0..StatsTtl /\ seenAge'[p] \in 0..(2 * BeatInterval)
                       /\ deadFor'[p] \in 0..StatsTtl
      OBVIOUS
    <3>1. keyAge[p] \in 0..StatsTtl /\ seenAge[p] \in 0..(2 * BeatInterval)
          /\ deadFor[p] \in 0..StatsTtl
      BY DEF Inv, TypeOK
    <3> QED BY <1>2, <3>1 DEF Older
  <2>2. \A p \in Peers : writeAge'[p] \in 0..StatsInterval /\ beatAge'[p] \in 0..BeatInterval
    BY <1>1, <1>3 DEF Inv, TypeOK
  <2>3. waited' \in 0..RequestTimeout
    BY DEF Inv, TypeOK, Tick, NothingDue
  <2>4. /\ writeAge' = [p \in Peers |-> writeAge'[p]] /\ beatAge' = [p \in Peers |-> beatAge'[p]]
        /\ keyAge' = [p \in Peers |-> keyAge'[p]] /\ seenAge' = [p \in Peers |-> seenAge'[p]]
        /\ deadFor' = [p \in Peers |-> deadFor'[p]]
    BY DEF Tick, ExpireKeys
  <2> QED BY <1>4, <2>1, <2>2, <2>3, <2>4 DEF Inv, TypeOK
<1>6. Renewed'
  <2> SUFFICES ASSUME NEW p \in Peers, status[p] = "up"
               PROVE  /\ p \notin silent => seenAge'[p] <= beatAge'[p]
                      /\ misses[p] = 0 => keyAge'[p] <= writeAge'[p]
                      /\ misses[p] = 1 => keyAge'[p] <= StatsInterval + writeAge'[p]
    BY <1>4 DEF Renewed
  <2>1. /\ p \notin silent => seenAge[p] <= beatAge[p]
        /\ misses[p] = 0 => keyAge[p] <= writeAge[p]
        /\ misses[p] = 1 => keyAge[p] <= StatsInterval + writeAge[p]
    BY DEF Inv, Renewed
  <2>2. keyAge[p] \in 0..StatsTtl /\ seenAge[p] \in 0..(2 * BeatInterval)
        /\ writeAge[p] \in Nat /\ beatAge[p] \in Nat
    BY DEF Inv, TypeOK
  <2>3. keyAge'[p] <= keyAge[p] + 1 /\ seenAge'[p] <= seenAge[p] + 1
        /\ keyAge'[p] \in Nat /\ seenAge'[p] \in Nat
    BY <1>2, <2>2 DEF Older
  <2>4. writeAge'[p] = writeAge[p] + 1 /\ beatAge'[p] = beatAge[p] + 1
    BY <1>3
  <2> QED BY <2>1, <2>2, <2>3, <2>4
<1>7. Aging'
  <2> SUFFICES ASSUME NEW p \in Peers
               PROVE IF status[p] = "down" THEN deadFor'[p] <= keyAge'[p] ELSE deadFor'[p] = 0
    BY <1>4 DEF Aging, Inv
  <2>1. CASE status[p] = "down"
    <3>1. deadFor[p] <= keyAge[p] /\ keyAge[p] \in 0..StatsTtl /\ deadFor[p] \in 0..StatsTtl
      BY <2>1 DEF Inv, Aging, TypeOK
    <3>2. Older(deadFor[p], StatsTtl) <= Older(keyAge[p], StatsTtl)
      BY <3>1 DEF Older
    <3> QED BY <1>2, <2>1, <3>2
  <2>2. CASE status[p] # "down"
    BY <1>2, <2>2
  <2> QED BY <2>1, <2>2
<1> QED BY <1>4, <1>5, <1>6, <1>7 DEF Inv, Collecting

\* A peer that starts, stops, runs its two loops or is heard of keeps it.
LEMMA PeerPreserves ==
  ASSUME Inv, NEW p \in Peers, PeerStarts(p) \/ PeerStops(p) \/ Loops(p) \/ Hear(p)
  PROVE  Inv'
<1> USE TimesAssumption, TtlAssumption DEF Inv, TypeOK, Renewed, Aging, Collecting, queryVars, peerVars, seenVars
<1>1. CASE PeerStarts(p)
  BY <1>1 DEF PeerStarts
<1>2. CASE PeerStops(p)
  BY <1>2 DEF PeerStops
<1>3. CASE WriteStats(p)
  BY <1>3 DEF WriteStats, StatsDue, Up
<1>4. CASE WriteFails(p)
  <2>1. misses'[p] \in 0..2 /\ (misses'[p] = 1 <=> misses[p] = 0) /\ misses'[p] # 0
    BY <1>4 DEF WriteFails, Older
  <2> QED BY <1>4, <2>1 DEF WriteFails, StatsDue, Up
<1>5. CASE Heartbeat(p)
  BY <1>5 DEF Heartbeat, BeatDue, Up
<1>6. CASE HeartbeatLost(p)
  BY <1>6 DEF HeartbeatLost, BeatDue, Up
<1>7. CASE Hear(p)
  BY <1>7 DEF Hear, Up
<1> QED BY <1>1, <1>2, <1>3, <1>4, <1>5, <1>6, <1>7 DEF Loops

\* The steps of a request keep the invariant.
LEMMA QueryPreserves ==
  ASSUME Inv, Call \/ RequestStep \/ \E p \in Peers : Answer(p) PROVE Inv'
<1> USE TimesAssumption, TtlAssumption DEF Inv, TypeOK, Renewed, Aging, Collecting, peerVars, seenVars
<1>1. CASE Call
  BY <1>1 DEF Call, Known
<1>2. CASE Publish
  BY <1>2 DEF Publish, Up
<1>3. CASE PublishFails \/ Timeout
  BY <1>3 DEF PublishFails, Timeout, Returns
<1>4. ASSUME NEW p \in Peers, Answer(p) PROVE Inv'
  <2>1. UNCHANGED <<peerVars, silent>> /\ seenAge' = [seenAge EXCEPT ![p] = 0] /\ p \in reached
    BY <1>4 DEF Answer
  <2>2. Renewed' /\ Aging'
    BY <2>1
  <2>3. TypeOK' /\ Collecting'
    BY <1>4, <2>1 DEF Answer, Returns
  <2> QED BY <2>2, <2>3
<1> QED BY <1>1, <1>2, <1>3, <1>4 DEF RequestStep

\* The invariant behind what follows.
THEOREM QueriesInvariant == Spec => []Inv
<1>1. Inv /\ [Next]_vars => Inv'
  <2> SUFFICES ASSUME Inv, [Next]_vars PROVE Inv'
    OBVIOUS
  <2>1. CASE UNCHANGED vars
    BY <2>1 DEF vars, peerVars, seenVars, queryVars, Inv, TypeOK, Renewed, Aging, Collecting
  <2>2. CASE Next
    BY <2>2, TickPreserves, PeerPreserves, QueryPreserves DEF Next
  <2> QED BY <2>1, <2>2
<1> QED BY InitInv, <1>1, PTL DEF Spec

\* Type correctness: no age exceeds the limit at which the code acts on it.
THEOREM TypeCorrect == Spec => []TypeOK
<1>1. Inv => TypeOK
  BY DEF Inv
<1> QED BY <1>1, QueriesInvariant, PTL

\* A peer whose heartbeats arrive and of whose last two writes one succeeded
\* is counted: all that is needed of the intervals is TtlAssumption.
THEOREM LiveNodesCounted == Spec => []LiveNodeCounted
<1>1. Inv => LiveNodeCounted
  <2> SUFFICES ASSUME Inv, NEW p \in Peers, status[p] = "up"
               PROVE  /\ p \notin silent => p \in Known
                      /\ misses[p] <= 1 => keyAge[p] < StatsTtl
    BY DEF LiveNodeCounted, Up
  <2>1. /\ seenAge[p] \in Nat /\ keyAge[p] \in Nat /\ misses[p] \in Nat
        /\ beatAge[p] \in 0..BeatInterval /\ writeAge[p] \in 0..StatsInterval
    BY TimesAssumption, TtlAssumption DEF Inv, TypeOK
  <2>2. p \notin silent => seenAge[p] < 2 * BeatInterval
    BY <2>1, TimesAssumption DEF Inv, Renewed
  <2>3. misses[p] = 0 => keyAge[p] <= writeAge[p]
    BY DEF Inv, Renewed
  <2>4. misses[p] = 1 => keyAge[p] <= StatsInterval + writeAge[p]
    BY DEF Inv, Renewed
  <2>5. misses[p] <= 1 => keyAge[p] < StatsTtl
    BY <2>1, <2>3, <2>4, TimesAssumption, TtlAssumption
  <2> QED BY <2>2, <2>5 DEF Known, StaleThreshold
<1> QED BY <1>1, QueriesInvariant, PTL

\* Redis forgets the statistics of a dead node in time, whatever is known of it.
THEOREM DeadNodesForgotten == Spec => []DeadNodeForgotten
<1>1. Inv => DeadNodeForgotten
  <2> SUFFICES ASSUME Inv, NEW p \in Peers, deadFor[p] = StatsTtl PROVE p \notin Counted
    BY DEF DeadNodeForgotten
  <2>1. status[p] = "down"
    BY TimesAssumption, TtlAssumption DEF Inv, Aging
  <2>2. StatsTtl <= keyAge[p] /\ keyAge[p] \in 0..StatsTtl
    BY <2>1 DEF Inv, Aging, TypeOK
  <2> QED BY <2>2, TimesAssumption DEF Counted
<1> QED BY <1>1, QueriesInvariant, PTL

\* The last answer is the answer of the last peer missing: the number that was
\* taken when the request was made is as good as the set it was the size of.
THEOREM CompletionCoversKnown == Spec => CompleteCoversKnown
<1>1. Inv /\ [Next]_vars =>
        [\A p \in Peers : Answer(p) /\ query' = "idle" /\ reached \subseteq callKnown
           => got \cup {p} = callKnown]_vars
  <2> SUFFICES ASSUME Inv, NEW p \in Peers, Answer(p), query' = "idle", reached \subseteq callKnown
               PROVE  got \cup {p} = callKnown
    OBVIOUS
  <2>1. query = "waiting" /\ p \in reached /\ p \notin got
    BY DEF Answer
  <2>2. Cardinality(got) + 1 >= Cardinality(callKnown)
    BY <2>1 DEF Answer, Complete, Expected
  <2>3. got \cup {p} \subseteq callKnown /\ callKnown \subseteq Peers /\ got \subseteq callKnown
    BY <2>1 DEF Inv, TypeOK
  <2>4. IsFiniteSet(callKnown) /\ IsFiniteSet(got)
    BY <2>3, PeersAssumption, FS_Subset
  <2>5. Cardinality(got \cup {p}) = Cardinality(got) + 1
    BY <2>1, <2>4, FS_AddElement
  <2>6. Cardinality(got \cup {p}) <= Cardinality(callKnown)
    BY <2>3, <2>4, FS_Subset
  <2>7. Cardinality(got) \in Nat /\ Cardinality(callKnown) \in Nat
    BY <2>4, FS_CardinalityType
  <2>8. Cardinality(got \cup {p}) = Cardinality(callKnown)
    BY <2>2, <2>5, <2>6, <2>7
  <2> QED BY <2>3, <2>4, <2>8, FS_Subset
<1> QED BY <1>1, QueriesInvariant, PTL DEF Spec, CompleteCoversKnown

=============================================================================
