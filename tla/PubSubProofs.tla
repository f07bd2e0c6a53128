---------------------------- MODULE PubSubProofs ----------------------------
(***************************************************************************)
(* Proofs about what the pub/sub of the Redis adapter carries: Readiness,  *)
(* Discovery and RedisOccupancy, for any number of nodes, connection       *)
(* attempts and sockets.                                                   *)
(*                                                                         *)
(* Readiness: MatchMeansConnected is not inductive: it says nothing of a   *)
(* task whose captured generation lies in the future, or of one that       *)
(* belongs to an attempt yet to come.  Generations excludes both.          *)
(*                                                                         *)
(* Discovery implements Readiness: dropping the messages maps every step   *)
(* to a step of Readiness or to a stutter, so that what is shown of the    *)
(* generations holds next to the messages too.  Then, NobodyMissed: it is  *)
(* inductive as soon as it is known that an attempt that starts to read    *)
(* has not asked before (Fresh).                                           *)
(*                                                                         *)
(* RedisOccupancy: a query is thorough since all nodes know each other and *)
(* whoever was subscribed when it began and stayed is still listed; the    *)
(* key, while it exists, has a task responsible for it (KeyOwned).         *)
(***************************************************************************)
EXTENDS Discovery, RedisOccupancy, FiniteSetTheorems, TLAPS

(***************************************************************************)
(* Readiness                                                               *)
(***************************************************************************)

\* States of the listener in which the task of the current attempt runs on a
\* connection that the listener has not yet given up.
Running == {"reading", "failed", "rebump"}

\* The generation counts the bumps: two for every attempt that is over.
GenerationOf ==
  IF listener \in {"start", "sleeping"} THEN 2 * attempt
  ELSE IF listener = "bump" THEN 2 * attempt - 2 ELSE 2 * attempt - 1

Generations ==
  /\ generation = GenerationOf
  /\ listener \notin {"start", "sleeping"} => attempt >= 1
  /\ \A a \in Attempts :
       /\ captured[a] <= generation
       /\ task[a] # "none" => a <= attempt
       /\ task[a] # "none" /\ ~(a = attempt /\ listener \in Running)
            => captured[a] < generation

Inv == TypeOK /\ Generations

\* The readiness invariant holds initially.
LEMMA InitInv == Init => Inv
<1> SUFFICES ASSUME Init PROVE Inv
  OBVIOUS
<1>1. 0 \in 0..MaxAttempts /\ 0 \in 0..(2 * MaxAttempts)
  BY AttemptsAssumption
<1>2. TypeOK
  BY <1>1 DEF Init, TypeOK, ListenerStates, TaskStates
<1>3. Generations
  BY DEF Init, Generations, GenerationOf, Attempts
<1> QED BY <1>2, <1>3 DEF Inv

\* The listener's own steps: those that bump leave no captured generation
\* behind that could match.
LEMMA ListenerPreserves ==
  ASSUME Inv, ListenerStep \/ SubscribeFails \/ StreamEnds PROVE Inv'
<1> USE AttemptsAssumption DEF Inv, Attempts, TaskVars
<1>1. CASE ClearFlag
  <2>1. attempt \in 0..MaxAttempts /\ attempt < MaxAttempts /\ attempt' = attempt + 1
    BY <1>1 DEF ClearFlag, TypeOK
  <2>2. attempt' \in 0..MaxAttempts /\ attempt' >= 1
    BY <2>1
  <2>3. TypeOK'
    BY <1>1, <2>2 DEF ClearFlag, TypeOK, ListenerStates
  <2>4. Generations'
    BY <1>1, <2>1 DEF ClearFlag, TypeOK, Generations, GenerationOf, Running
  <2> QED BY <2>3, <2>4
<1>2. CASE Bump
  BY <1>2 DEF Bump, TypeOK, Generations, GenerationOf, Running, ListenerStates
<1>3. CASE Subscribe
  BY <1>3 DEF Subscribe, TypeOK, Generations, GenerationOf, Running, ListenerStates
<1>9. CASE Announce
  BY <1>9 DEF Announce, TypeOK, Generations, GenerationOf, Running, ListenerStates, TaskStates
<1>4. CASE ClearFlagAfterFailure
  BY <1>4 DEF ClearFlagAfterFailure, TypeOK, Generations, GenerationOf, Running, ListenerStates
<1>5. CASE BumpAfterFailure
  BY <1>5 DEF BumpAfterFailure, TypeOK, Generations, GenerationOf, Running, ListenerStates
<1>6. CASE Wake
  BY <1>6 DEF Wake, TypeOK, Generations, GenerationOf, Running, ListenerStates
<1>7. CASE SubscribeFails
  BY <1>7 DEF SubscribeFails, TypeOK, Generations, GenerationOf, Running, ListenerStates
<1>8. CASE StreamEnds
  BY <1>8 DEF StreamEnds, TypeOK, Generations, GenerationOf, Running, ListenerStates
<1> QED
  BY <1>1, <1>2, <1>3, <1>4, <1>5, <1>6, <1>7, <1>8, <1>9 DEF ListenerStep

\* A task moves on without touching the generations.
LEMMA TaskPreserves ==
  ASSUME Inv, NEW a \in Attempts, TaskStep(a) PROVE Inv'
<1>1. /\ task[a] # "none"
      /\ \E to \in TaskStates : task' = [task EXCEPT ![a] = to]
      /\ UNCHANGED <<listener, attempt, generation, captured>>
      /\ discovered' \in {discovered, discovered \cup {a}}
      /\ subscribed' \in {subscribed, TRUE}
  <2>1. CASE DiscoveryEnds(a)
    BY <2>1 DEF DiscoveryEnds, MoveTask, TaskStates
  <2>2. CASE DiscoveryFails(a)
    BY <2>2 DEF DiscoveryFails, MoveTask, TaskStates
  <2>3. CASE LoadGeneration(a)
    BY <2>3 DEF LoadGeneration, MoveTask, TaskStates
  <2>4. CASE StoreReady(a)
    BY <2>4 DEF StoreReady, MoveTask, TaskStates
  <2> QED BY <2>1, <2>2, <2>3, <2>4 DEF TaskStep
<1>2. TypeOK'
  BY <1>1 DEF Inv, TypeOK, Attempts
<1>3. \A b \in Attempts : task'[b] # "none" => task[b] # "none"
  BY <1>1 DEF Inv, TypeOK
<1>4. Generations'
  BY <1>1, <1>3 DEF Inv, Generations, GenerationOf
<1> QED BY <1>2, <1>4 DEF Inv

\* Generations, captured and current, stay in order in every reachable state.
THEOREM ReadinessInvariant == Spec => []Inv
<1>1. Inv /\ [Next]_vars => Inv'
  <2> SUFFICES ASSUME Inv, [Next]_vars PROVE Inv'
    OBVIOUS
  <2>1. CASE UNCHANGED vars
    BY <2>1 DEF vars, Inv, TypeOK, Generations, GenerationOf
  <2>2. CASE Next
    BY <2>2, ListenerPreserves, TaskPreserves DEF Next
  <2> QED BY <2>1, <2>2
<1> QED BY InitInv, <1>1, PTL DEF Spec

\* Type correctness, with the bound on the generation counter: two bumps for
\* every connection attempt.
THEOREM TypeCorrect == Spec => []TypeOK
<1>1. Inv => TypeOK
  BY DEF Inv
<1> QED BY <1>1, ReadinessInvariant, PTL

\* The generation check of a discovery task can only succeed for the task of
\* the attempt the listener is at, and only until the listener has bumped.
THEOREM MatchIsConnected == Spec => []MatchMeansConnected
<1>1. Inv => MatchMeansConnected
  BY DEF Inv, Generations, MatchMeansConnected, Running, TypeOK, Attempts
<1> QED BY <1>1, ReadinessInvariant, PTL

(***************************************************************************)
(* Discovery                                                               *)
(***************************************************************************)

\* The initial states of Discovery are initial states of Readiness.
LEMMA InitImplements == DiscoveryInit => Init
  BY DEF DiscoveryInit

\* The steps that leave Readiness alone.
LEMMA PeersStutter ==
  ASSUME NEW p \in Peers,
         \/ PeerStarts(p) \/ PeerSubscribes(p) \/ PeerAnnounces(p) \/ PeerDiscovers(p)
         \/ PeerHeartbeat(p) \/ PeerHeartbeatFails(p)
         \/ \E m \in Messages : PeerReads(p, m)
         \/ PeerDisconnects(p) \/ PeerStops(p) \/ PeerPrunes(p) \/ Prune(p)
  PROVE  UNCHANGED vars
  BY DEF PeerStarts, PeerSubscribes, PeerAnnounces, PeerDiscovers, PeerHeartbeat,
         PeerHeartbeatFails, PeerReads, PeerDisconnects, PeerStops, PeerPrunes, Prune, PeerGoto

\* A step of Discovery is one of Readiness or leaves its variables alone.
LEMMA StepImplements == DiscoveryNext => [Next]_vars
<1> SUFFICES ASSUME DiscoveryNext PROVE [Next]_vars
  OBVIOUS
<1>1. CASE NodeRuns
  <2>1. CASE NodeStep
    BY <2>1 DEF NodeStep, Next, ListenerStep, TaskStep
  <2>2. CASE NodeSubscribe \/ NodeAnnounce
    BY <2>2 DEF NodeSubscribe, NodeAnnounce, Next, ListenerStep
  <2> QED BY <1>1, <2>1, <2>2 DEF NodeRuns
<1>2. CASE NodeTasks
  BY <1>2 DEF NodeTasks, PublishDiscovery, DiscoveryTimesOut, PublishFails, Next, TaskStep
<1>3. CASE NodeReads
  BY <1>3 DEF NodeReads, ReadWord, ReadRequest
<1>4. CASE NodeSubscribeFails \/ NodeStreamEnds
  BY <1>4 DEF NodeSubscribeFails, NodeStreamEnds, Next
<1>5. CASE Heartbeat \/ HeartbeatFails
  BY <1>5 DEF Heartbeat, HeartbeatFails
<1> QED BY <1>1, <1>2, <1>3, <1>4, <1>5, PeersStutter DEF DiscoveryNext

\* With its messages the node still behaves as Readiness says.
THEOREM ImplementsReadiness == DiscoverySpec => Spec
<1>1. [DiscoveryNext]_allVars => [Next]_vars
  BY StepImplements DEF allVars
<1> QED BY InitImplements, <1>1, PTL DEF DiscoverySpec, Spec

\* The generation check of a discovery task only succeeds for the connection
\* that spawned it, whatever the peers send.
THEOREM MatchIsConnectedHere == DiscoverySpec => []MatchMeansConnected
  BY ImplementsReadiness, MatchIsConnected, PTL

----------------------------------------------------------------------------

\* An attempt has its discovery task, and so its request, only after it has
\* announced itself.
Fresh ==
  /\ \A a \in published : task[a] # "none"
  /\ \A a \in Attempts : task[a] # "none" =>
       /\ a <= attempt
       /\ a = attempt => listener \notin {"bump", "subscribing", "announcing"}

MessagesOK ==
  /\ peer \in [Peers -> PeerStates]
  /\ known \in [Peers -> {"no", "before", "now"}]
  /\ inbox \in [Peers -> SUBSET Messages]
  /\ peerInbox \in [Peers -> SUBSET Messages]
  /\ published \subseteq Attempts
  /\ knownBy \subseteq Peers /\ lostTo \subseteq Peers /\ lostFrom \subseteq Peers

DiscoveryInv == TypeOK /\ MessagesOK /\ Fresh /\ NobodyMissed

\* The discovery invariant holds initially.
LEMMA DiscoveryInitInv == DiscoveryInit => DiscoveryInv
<1> SUFFICES ASSUME DiscoveryInit PROVE DiscoveryInv
  OBVIOUS
<1>1. TypeOK
  BY InitImplements, InitInv DEF Inv
<1>2. MessagesOK
  BY DEF DiscoveryInit, MessagesOK, PeerStates
<1>3. Fresh /\ NobodyMissed
  BY DEF DiscoveryInit, Init, Fresh, NobodyMissed, Asked, Attempts
<1> QED BY <1>1, <1>2, <1>3 DEF DiscoveryInv

\* Every step keeps the types.
LEMMA TypesPreserved == ASSUME TypeOK, MessagesOK, DiscoveryNext PROVE MessagesOK'
<1> USE DEF MessagesOK, Messages, PeerStates
<1>1. CASE NodeStep \/ NodeSubscribe \/ NodeSubscribeFails
  BY <1>1 DEF NodeStep, NodeSubscribe, NodeSubscribeFails, peerVars
<1>2. CASE NodeAnnounce \/ Heartbeat \/ HeartbeatFails
  BY <1>2 DEF NodeAnnounce, Heartbeat, HeartbeatFails, ToPeers, NotToPeers
<1>3. CASE NodeStreamEnds
  BY <1>3 DEF NodeStreamEnds, Disconnect
<1>4. ASSUME NEW a \in Attempts, PublishDiscovery(a) \/ DiscoveryTimesOut(a) \/ PublishFails(a)
      PROVE  MessagesOK'
  BY <1>4 DEF PublishDiscovery, DiscoveryTimesOut, PublishFails, ToPeers, NotToPeers, peerVars
<1>5. ASSUME NEW p \in Peers, ReadWord(p) \/ ReadRequest(p) \/ Prune(p)
      PROVE  MessagesOK'
  BY <1>5 DEF ReadWord, ReadRequest, Prune, Read, ToPeers, NotToPeers
<1>6. ASSUME NEW p \in Peers,
             \/ PeerStarts(p) \/ PeerSubscribes(p) \/ PeerAnnounces(p) \/ PeerDiscovers(p)
             \/ PeerHeartbeat(p) \/ PeerHeartbeatFails(p)
      PROVE  MessagesOK'
  BY <1>6 DEF PeerStarts, PeerSubscribes, PeerAnnounces, PeerDiscovers, PeerHeartbeat,
              PeerHeartbeatFails, PeerGoto, ToNode, NotToNode
<1>7. ASSUME NEW p \in Peers, NEW m \in Messages, PeerReads(p, m)
      PROVE  MessagesOK'
  BY <1>7 DEF PeerReads, ToNode, NotToNode
<1>8. ASSUME NEW p \in Peers, PeerDisconnects(p) \/ PeerStops(p) \/ PeerPrunes(p)
      PROVE  MessagesOK'
  BY <1>8 DEF PeerDisconnects, PeerStops, PeerPrunes, PeerGoto
<1> QED
  BY <1>1, <1>2, <1>3, <1>4, <1>5, <1>6, <1>7, <1>8 DEF DiscoveryNext, NodeRuns, NodeReads, NodeTasks

\* No step publishes a request before its attempt has announced itself.
LEMMA FreshPreserved == ASSUME TypeOK, MessagesOK, Fresh, DiscoveryNext PROVE Fresh'
<1> USE AttemptsAssumption DEF Fresh, TypeOK, MessagesOK, Attempts
<1>1. ASSUME UNCHANGED <<vars, published>> PROVE Fresh'
  BY <1>1 DEF vars
<1>2. ASSUME ListenerStep \/ SubscribeFails \/ StreamEnds, UNCHANGED published PROVE Fresh'
  <2>1. CASE ClearFlag
    BY <1>2, <2>1 DEF ClearFlag, TaskVars
  <2>2. CASE Announce
    BY <1>2, <2>2 DEF Announce
  <2> QED
    BY <1>2, <2>1, <2>2 DEF ListenerStep, Bump, Subscribe, ClearFlagAfterFailure, BumpAfterFailure,
                            Wake, SubscribeFails, StreamEnds, TaskVars
<1>3. ASSUME NEW a \in Attempts, TaskStep(a), UNCHANGED published PROVE Fresh'
  <2>1. task[a] # "none" /\ UNCHANGED <<listener, attempt>>
        /\ \E to : to # "none" /\ task' = [task EXCEPT ![a] = to]
    BY <1>3 DEF TaskStep, DiscoveryEnds, DiscoveryFails, LoadGeneration, StoreReady, MoveTask
  <2> QED BY <1>3, <2>1
<1>4. ASSUME NEW a \in Attempts, PublishDiscovery(a) PROVE Fresh'
  BY <1>4 DEF PublishDiscovery, vars
<1>5. CASE NodeStep
  BY <1>2, <1>3, <1>5 DEF NodeStep, ListenerStep, TaskStep
<1>6. CASE NodeSubscribe \/ NodeAnnounce \/ NodeSubscribeFails \/ NodeStreamEnds
  BY <1>2, <1>6 DEF NodeSubscribe, NodeAnnounce, NodeSubscribeFails, NodeStreamEnds, ListenerStep
<1>7. CASE NodeTasks
  BY <1>3, <1>4, <1>7 DEF NodeTasks, DiscoveryTimesOut, PublishFails, TaskStep
<1>8. CASE NodeReads \/ Heartbeat \/ HeartbeatFails
  BY <1>1, <1>8 DEF NodeReads, ReadWord, ReadRequest, Heartbeat, HeartbeatFails
<1>9. ASSUME NEW p \in Peers,
             \/ PeerStarts(p) \/ PeerSubscribes(p) \/ PeerAnnounces(p) \/ PeerDiscovers(p)
             \/ PeerHeartbeat(p) \/ PeerHeartbeatFails(p)
             \/ \E m \in Messages : PeerReads(p, m)
             \/ PeerDisconnects(p) \/ PeerStops(p) \/ PeerPrunes(p) \/ Prune(p)
      PROVE  Fresh'
  <2>1. UNCHANGED published
    BY <1>9 DEF PeerStarts, PeerSubscribes, PeerAnnounces, PeerDiscovers, PeerHeartbeat,
                PeerHeartbeatFails, PeerReads, PeerDisconnects, PeerStops, PeerPrunes, Prune, PeerGoto
  <2> QED BY <1>1, <1>9, <2>1, PeersStutter
<1> QED
  BY <1>5, <1>6, <1>7, <1>8, <1>9 DEF DiscoveryNext, NodeRuns

\* What NobodyMissed says of one peer.
Told(p) ==
  Asked(p) /\ p \notin lostFrom => known[p] = "now" \/ inbox[p] # {} \/ "request" \in peerInbox[p]
ToldPeer(p) ==
  Asked(p) /\ p \notin lostTo => p \in knownBy \/ peerInbox[p] # {} \/ "request" \in inbox[p]

\* A step of this node that concerns its listener and its tasks: whoever asks
\* second asks a node that is subscribed, and a request that fails leaves its
\* mark in lostTo.
LEMMA NodeKeepsTold ==
  ASSUME TypeOK, MessagesOK, Fresh, NEW p \in Peers, Told(p), ToldPeer(p),
         NodeRuns \/ NodeTasks \/ NodeSubscribeFails \/ NodeStreamEnds \/ Heartbeat \/ HeartbeatFails
  PROVE  Told(p)' /\ ToldPeer(p)'
<1> USE DEF Told, ToldPeer, Asked, MessagesOK, Messages
<1>1. ASSUME UNCHANGED <<peerVars, published>>, listener' = "reading" => UNCHANGED <<listener, attempt>>
      PROVE  Told(p)' /\ ToldPeer(p)'
  BY <1>1 DEF peerVars
<1>2. CASE NodeStep \/ NodeSubscribe \/ NodeSubscribeFails
  <2>1. /\ UNCHANGED <<peerVars, published>>
        /\ listener' = "reading" => UNCHANGED <<listener, attempt>>
    BY <1>2 DEF NodeStep, NodeSubscribe, NodeSubscribeFails, Subscribe, SubscribeFails, ClearFlag,
                Bump, ClearFlagAfterFailure, BumpAfterFailure, Wake, LoadGeneration, StoreReady
  <2> QED BY <1>1, <2>1
<1>3. CASE NodeAnnounce
  <2>1. listener = "announcing" /\ UNCHANGED <<attempt, published>>
    BY <1>3 DEF NodeAnnounce, Announce
  <2>2. attempt' \notin published'
    BY <2>1 DEF Fresh, Attempts
  <2> QED BY <2>2
<1>4. CASE NodeStreamEnds
  BY <1>4 DEF NodeStreamEnds, StreamEnds
<1>5. CASE Heartbeat \/ HeartbeatFails
  BY <1>5 DEF Heartbeat, HeartbeatFails, vars, ToPeers, NotToPeers, Reached, PeerSubscribed
<1>6. ASSUME NEW a \in Attempts, PublishDiscovery(a) PROVE Told(p)' /\ ToldPeer(p)'
  BY <1>6 DEF PublishDiscovery, vars, ToPeers, Reached, PeerSubscribed
<1>7. ASSUME NEW a \in Attempts, DiscoveryTimesOut(a) PROVE Told(p)' /\ ToldPeer(p)'
  BY <1>1, <1>7 DEF DiscoveryTimesOut, DiscoveryEnds
<1>8. ASSUME NEW a \in Attempts, PublishFails(a) PROVE Told(p)' /\ ToldPeer(p)'
  BY <1>8 DEF PublishFails, DiscoveryFails, NotToPeers
<1> QED BY <1>2, <1>3, <1>4, <1>5, <1>6, <1>7, <1>8 DEF NodeRuns, NodeTasks

\* A message that is read leaves its sender known, and a request an answer or
\* a mark in lostTo or lostFrom.
LEMMA ReadingKeepsTold ==
  ASSUME MessagesOK, NEW p \in Peers, Told(p), ToldPeer(p), NEW q \in Peers,
         ReadWord(q) \/ ReadRequest(q) \/ \E m \in Messages : PeerReads(q, m)
  PROVE  Told(p)' /\ ToldPeer(p)'
<1> USE DEF Told, ToldPeer, Asked, MessagesOK, Messages, vars, Reached, PeerSubscribed, Subscribed
<1>1. CASE ReadWord(q)
  BY <1>1 DEF ReadWord, Read
<1>2. CASE ReadRequest(q)
  BY <1>2 DEF ReadRequest, Read, ToPeers, NotToPeers
<1>3. ASSUME NEW m \in Messages, PeerReads(q, m) PROVE Told(p)' /\ ToldPeer(p)'
  BY <1>3 DEF PeerReads, ToNode, NotToNode
<1> QED BY <1>1, <1>2, <1>3

\* A peer that asks does so on a connection; one that loses its connection has
\* to ask again; a node is only forgotten when nothing of it arrives.
LEMMA PeerKeepsTold ==
  ASSUME MessagesOK, NEW p \in Peers, Told(p), ToldPeer(p), NEW q \in Peers,
         \/ PeerStarts(q) \/ PeerSubscribes(q) \/ PeerAnnounces(q) \/ PeerDiscovers(q)
         \/ PeerHeartbeat(q) \/ PeerHeartbeatFails(q)
         \/ PeerDisconnects(q) \/ PeerStops(q) \/ PeerPrunes(q) \/ Prune(q)
  PROVE  Told(p)' /\ ToldPeer(p)'
<1> USE DEF Told, ToldPeer, Asked, MessagesOK, Messages, vars, PeerGoto, PeerSubscribed, Subscribed,
            ToNode, NotToNode
<1>1. CASE PeerStarts(q) \/ PeerSubscribes(q) \/ PeerAnnounces(q)
  BY <1>1 DEF PeerStarts, PeerSubscribes, PeerAnnounces
<1>2. CASE PeerDiscovers(q)
  BY <1>2 DEF PeerDiscovers
<1>3. CASE PeerHeartbeat(q) \/ PeerHeartbeatFails(q)
  BY <1>3 DEF PeerHeartbeat, PeerHeartbeatFails
<1>4. CASE PeerDisconnects(q) \/ PeerStops(q)
  BY <1>4 DEF PeerDisconnects, PeerStops
<1>5. CASE PeerPrunes(q) \/ Prune(q)
  BY <1>5 DEF PeerPrunes, Prune
<1> QED BY <1>1, <1>2, <1>3, <1>4, <1>5

\* The peer steps and the node's own, put together.
LEMMA NobodyMissedPreserved == ASSUME DiscoveryInv, DiscoveryNext PROVE NobodyMissed'
<1> SUFFICES ASSUME NEW p \in Peers PROVE Told(p)' /\ ToldPeer(p)'
  BY DEF NobodyMissed, Told, ToldPeer
<1>1. Told(p) /\ ToldPeer(p) /\ TypeOK /\ MessagesOK /\ Fresh
  BY DEF DiscoveryInv, NobodyMissed, Told, ToldPeer
<1> QED
  BY <1>1, NodeKeepsTold, ReadingKeepsTold, PeerKeepsTold DEF DiscoveryNext, NodeReads

\* The invariant behind what follows.
THEOREM DiscoveryInvariant == DiscoverySpec => []DiscoveryInv
<1>1. TypeOK /\ DiscoveryInv /\ [DiscoveryNext]_allVars /\ TypeOK' => DiscoveryInv'
  <2> SUFFICES ASSUME TypeOK, DiscoveryInv, [DiscoveryNext]_allVars, TypeOK' PROVE DiscoveryInv'
    OBVIOUS
  <2>1. CASE UNCHANGED allVars
    BY <2>1 DEF allVars, vars, peerVars, DiscoveryInv, MessagesOK, Fresh, NobodyMissed, Asked
  <2>2. CASE DiscoveryNext
    BY <2>2, TypesPreserved, FreshPreserved, NobodyMissedPreserved DEF DiscoveryInv
  <2> QED BY <2>1, <2>2
<1>2. DiscoverySpec => []TypeOK
  BY ImplementsReadiness, TypeCorrect, PTL
<1> QED BY DiscoveryInitInv, <1>1, <1>2, PTL DEF DiscoverySpec

\* Once this node and a peer have both asked on their connections, neither
\* misses the other, in whatever order they came up and however often one of
\* them reconnected.
THEOREM NobodyIsMissed == DiscoverySpec => []NobodyMissed
<1>1. DiscoveryInv => NobodyMissed
  BY DEF DiscoveryInv
<1> QED BY <1>1, DiscoveryInvariant, PTL

(***************************************************************************)
(* RedisOccupancy                                                          *)
(***************************************************************************)

\* The handlers of a socket that has joined and not begun to leave.
Joined == {"claim", "sendOccupied", "in"}

\* A set of peers has at most as many members as there are peers, and is all of
\* them if it has as many.
LEMMA PeerCount ==
  ASSUME NEW n \in Nodes, NEW S \in SUBSET (Nodes \ {n})
  PROVE  /\ IsFiniteSet(S)
         /\ Cardinality(S) \in 0..(Cardinality(Nodes) - 1)
         /\ Cardinality(Nodes \ {n}) = Cardinality(Nodes) - 1
         /\ Cardinality(S) = Cardinality(Nodes) - 1 => S = Nodes \ {n}
<1>1. /\ IsFiniteSet(Nodes \ {n})
      /\ Cardinality(Nodes \ {n}) = Cardinality(Nodes) - 1
  BY FiniteAssumption, FS_RemoveElement
<1>2. /\ IsFiniteSet(S)
      /\ Cardinality(S) <= Cardinality(Nodes \ {n})
      /\ Cardinality(Nodes \ {n}) = Cardinality(S) => Nodes \ {n} = S
  BY <1>1, FS_Subset
<1>3. Cardinality(S) \in Nat /\ Cardinality(Nodes \ {n}) \in Nat /\ Cardinality(Nodes) \in Nat
  BY <1>1, <1>2, FS_CardinalityType, FiniteAssumption
<1> QED BY <1>1, <1>2, <1>3

\* The types of the occupancy query hold initially.
LEMMA OccupancyTypesInit == OccupancyInit => OccupancyTypeOK
<1> SUFFICES ASSUME OccupancyInit PROVE OccupancyTypeOK
  OBVIOUS
<1>1. ASSUME NEW s \in Sockets PROVE 0 \in 0..(Cardinality(Nodes) - 1)
  BY PeerCount, NodeAssumption, FS_EmptySet
<1>2. expected \in [Sockets -> 0..(Cardinality(Nodes) - 1)]
  BY <1>1 DEF OccupancyInit
<1>3. pc \in [Sockets -> Pcs] /\ lastEvent \in {"none", "occupied", "vacated"}
  BY DEF OccupancyInit, Pcs
<1>4. errors \in 0..MaxErrors /\ timeouts \in 0..MaxTimeouts /\ crashes \in 0..MaxCrashes
  BY BoundAssumption DEF OccupancyInit
<1> QED BY <1>2, <1>3, <1>4 DEF OccupancyInit, OccupancyTypeOK

\* Every step of the occupancy query keeps the types.
LEMMA OccupancyTypesPreserved ==
  ASSUME OccupancyTypeOK, [OccupancyNext]_occupancyVars PROVE OccupancyTypeOK'
<1>a. MaxErrors \in Nat /\ MaxTimeouts \in Nat /\ MaxCrashes \in Nat
  BY BoundAssumption
<1>b. ASSUME Answered \/ Fails PROVE errors' \in 0..MaxErrors
  <2>1. errors \in 0..MaxErrors
    BY DEF OccupancyTypeOK
  <2> QED BY <1>a, <1>b, <2>1 DEF Answered, Fails
<1>c. ASSUME NEW s \in Sockets PROVE 0 \in 0..(Cardinality(Nodes) - 1)
  BY PeerCount, NodeAssumption, FS_EmptySet
<1> USE NodeAssumption DEF OccupancyTypeOK, Pcs, Node
<1>1. ASSUME NEW s \in Sockets, Join(s) PROVE OccupancyTypeOK'
  BY <1>1 DEF Join, FirstOnNode, Goto, clusterVars, queryVars, history
<1>2. ASSUME NEW s \in Sockets, Claim(s) \/ SendOccupied(s) PROVE OccupancyTypeOK'
  <2>1. errors' \in 0..MaxErrors /\ flag' \in BOOLEAN
    BY <1>2, <1>b DEF Claim, SendOccupied, Answered
  <2>2. /\ pc[s] \in {"claim", "sendOccupied"} 
        /\ \E p \in {"sendOccupied", "in"} : pc' = [pc EXCEPT ![s] = p]
    BY <1>2 DEF Claim, SendOccupied, Goto
  <2> QED BY <1>2, <2>1, <2>2 DEF Claim, SendOccupied, clusterVars, localVars, queryVars, history
<1>3. ASSUME NEW s \in Sockets, Leave(s) PROVE OccupancyTypeOK'
  BY <1>3 DEF Leave, Unwatch, Goto, clusterVars, queryVars
<1>4. ASSUME NEW s \in Sockets, DropEntry(s) PROVE OccupancyTypeOK'
  BY <1>4 DEF DropEntry, Unwatch, Goto, clusterVars, queryVars
<1>5. ASSUME NEW s \in Sockets, Check(s) PROVE OccupancyTypeOK'
  <2>1. Expect(s) \in 0..(Cardinality(Nodes) - 1) /\ Cardinality(answered[s]) = 0
    <3>1. pc[s] = "check"
      BY <1>5 DEF Check, Goto
    <3>2. knownNodes[Node(s)] \in SUBSET (Nodes \ {Node(s)}) /\ Node(s) \in Nodes
      OBVIOUS
    <3> QED BY <3>1, <3>2, PeerCount, FS_EmptySet DEF Expect
  <2>2. stayed' \in [Sockets -> SUBSET Sockets]
    BY <1>5 DEF Check, Subscribers
  <2>3. pc' \in [Sockets -> Pcs] /\ expected' \in [Sockets -> 0..(Cardinality(Nodes) - 1)]
    BY <1>5, <2>1 DEF Check, Goto
  <2>4. ASSUME NEW t \in Sockets
        PROVE  IF pc'[t] = "query" THEN Cardinality(answered'[t]) < expected'[t]
                                   ELSE expected'[t] = 0 /\ answered'[t] = {} /\ ~found'[t]
    BY <1>5, <2>1 DEF Check, Goto
  <2>5. errors' \in 0..MaxErrors
    BY <1>5, <1>b DEF Check
  <2> HIDE DEF Pcs
  <2> QED BY <1>5, <2>2, <2>3, <2>4, <2>5 DEF Check, clusterVars, localVars
<1>6. ASSUME NEW s \in Sockets, NEW n \in Nodes, Answer(s, n) PROVE OccupancyTypeOK'
  <2>1. /\ Cardinality(answered[s] \cup {n}) \in Nat
        /\ Cardinality(answered[s] \cup {n}) < expected[s] \/ Complete(s, answered[s] \cup {n})
    <3>1. IsFiniteSet(answered[s] \cup {n})
      BY FiniteAssumption, FS_Subset
    <3> QED BY <3>1, FS_CardinalityType DEF Complete
  <2>2. ~Complete(s, answered[s] \cup {n}) => Cardinality(answered[s] \cup {n}) < expected[s]
    BY <2>1
  <2> HIDE DEF Pcs
  <2>3. pc' \in [Sockets -> Pcs]
    BY <1>6 DEF Answer, Goto, Pcs
  <2>4. CASE Complete(s, answered[s] \cup {n})
    <3>1. RemovePending({s}) /\ pc'[s] # "query" /\ \A t \in Sockets \ {s} : pc'[t] = pc[t]
      BY <1>6, <2>4 DEF Answer, Goto, Pcs
    <3> QED BY <1>6, <1>c, <2>3, <3>1 DEF Answer, RemovePending, clusterVars, localVars, history
  <2>5. CASE ~Complete(s, answered[s] \cup {n})
    <3>1. /\ UNCHANGED <<expected, pc>>
          /\ answered' = [answered EXCEPT ![s] = answered[s] \cup {n}]
      BY <1>6, <2>5 DEF Answer, Goto
    <3>2. found' = [found EXCEPT ![s] = found[s] \/ local[n] # {}]
      BY <1>6, <2>5 DEF Answer, Counts
    <3>3. \A t \in Sockets : IF pc[t] = "query" THEN Cardinality(answered'[t]) < expected[t]
                              ELSE expected[t] = 0 /\ answered'[t] = {} /\ ~found'[t]
      BY <1>6, <2>2, <2>5, <3>1, <3>2 DEF Answer, Goto
    <3> QED BY <1>6, <3>1, <3>2, <3>3 DEF Answer, clusterVars, localVars, history
  <2> QED BY <2>4, <2>5
<1>7. ASSUME NEW s \in Sockets, Timeout(s) PROVE OccupancyTypeOK'
  <2>1. 0 \in 0..(Cardinality(Nodes) - 1)
    BY <1>c
  <2>2. timeouts' \in 0..MaxTimeouts
    BY <1>7, <1>a DEF Timeout
  <2> QED BY <1>7, <2>1, <2>2 DEF Timeout, RemovePending, Goto, clusterVars, localVars, history
<1>8. ASSUME NEW s \in Sockets, Release(s) \/ SendVacated(s) PROVE OccupancyTypeOK'
  <2>1. errors' \in 0..MaxErrors /\ flag' \in BOOLEAN
    BY <1>8, <1>b DEF Release, SendVacated, Answered
  <2>2. /\ pc[s] \in {"release", "sendVacated"} 
        /\ \E p \in {"sendVacated", "out"} : pc' = [pc EXCEPT ![s] = p]
    BY <1>8 DEF Release, SendVacated, Goto
  <2> QED BY <1>8, <2>1, <2>2 DEF Release, SendVacated, clusterVars, localVars, queryVars, history
<1>9. ASSUME NEW n \in Nodes, Crash(n) PROVE OccupancyTypeOK'
  <2>2. crashes' \in 0..MaxCrashes
    BY <1>9, <1>a DEF Crash
  <2>3. expected' \in [Sockets -> 0..(Cardinality(Nodes) - 1)]
    BY <1>9, <1>c DEF Crash, RemovePending
  <2> QED BY <1>9, <2>2, <2>3 DEF Crash, RemovePending, Unwatch
<1>10. ASSUME NEW n \in Nodes, NEW m \in Nodes, Forget(n, m) PROVE OccupancyTypeOK'
  BY <1>10 DEF Forget, localVars, queryVars, history
<1>11. ASSUME UNCHANGED occupancyVars PROVE OccupancyTypeOK'
  BY <1>11 DEF occupancyVars, clusterVars, localVars, queryVars, history
<1> QED
  BY <1>1, <1>2, <1>3, <1>4, <1>5, <1>6, <1>7, <1>8, <1>9, <1>10, <1>11 DEF OccupancyNext, Handler

\* Type correctness, for any cluster: a query never waits with all the answers
\* it expects, and no request stays pending after its task has gone on.
THEOREM OccupancyTypes == OccupancySpec => []OccupancyTypeOK
  BY OccupancyTypesInit, OccupancyTypesPreserved, PTL DEF OccupancySpec

\* The registry of a node lists its own sockets, and, unless an entry was
\* dropped with a subscriber in it, each socket that has joined is listed.
ListedJoined ==
  /\ \A n \in Nodes : \A s \in local[n] : Node(s) = n /\ pc[s] \in Joined
  /\ ~tookAlong => \A s \in Sockets : pc[s] \in Joined => s \in local[Node(s)]

\* Whoever stayed is still subscribed.
StayedListed == \A s, t \in Sockets : t \in stayed[s] => t \in local[Node(t)]

\* Without crashes all nodes run and know each other.
AllMeet == crashes = 0 => alive = Nodes /\ \A n \in Nodes : knownNodes[n] = Nodes \ {n}

\* Every step keeps what the registries and the histories agree on.
LEMMA ListedPreserved ==
  ASSUME OccupancyTypeOK, ListedJoined, StayedListed, [OccupancyNext]_occupancyVars
  PROVE  ListedJoined' /\ StayedListed'
<1> USE NodeAssumption DEF OccupancyTypeOK, Node
<1>0. Pcs' = Pcs
  OBVIOUS
<1>1. ASSUME NEW s \in Sockets, Join(s) PROVE ListedJoined' /\ StayedListed'
  BY <1>1 DEF Join, FirstOnNode, Goto, history, ListedJoined, StayedListed, Joined
<1>2. ASSUME NEW s \in Sockets, Claim(s) \/ SendOccupied(s) PROVE ListedJoined' /\ StayedListed'
  <2>1. pc[s] \in Joined /\ \E p \in Joined : pc' = [pc EXCEPT ![s] = p]
    BY <1>2 DEF Claim, SendOccupied, Goto, Joined
  <2>2. UNCHANGED <<local, stayed, tookAlong>>
    BY <1>2 DEF Claim, SendOccupied, localVars, history
  <2>3. \A t \in Sockets : pc'[t] \in Joined <=> pc[t] \in Joined
    BY <2>1
  <2> QED BY <2>2, <2>3 DEF ListedJoined, StayedListed
<1>3. ASSUME NEW s \in Sockets, Leave(s) PROVE ListedJoined' /\ StayedListed'
  <2>1. pc[s] = "in" /\ \E p \in {"drop", "out"} : pc' = [pc EXCEPT ![s] = p]
    BY <1>3 DEF Leave, Goto
  <2>2. /\ local' = [local EXCEPT ![NodeOf[s]] = local[NodeOf[s]] \ {s}]
        /\ stayed' = [t \in Sockets |-> stayed[t] \ {s}]
        /\ tookAlong' = tookAlong
    BY <1>3 DEF Leave, Unwatch
  <2>3. ListedJoined'
    BY <2>1, <2>2 DEF ListedJoined, Joined
  <2> QED BY <2>2, <2>3 DEF StayedListed
<1>4. ASSUME NEW s \in Sockets, DropEntry(s) PROVE ListedJoined' /\ StayedListed'
  <2>1. pc[s] = "drop" /\ pc' = [pc EXCEPT ![s] = "check"]
    BY <1>4 DEF DropEntry, Goto
  <2>2. /\ local' = [local EXCEPT ![NodeOf[s]] = {}]
        /\ stayed' = [t \in Sockets |-> stayed[t] \ local[NodeOf[s]]]
        /\ ~tookAlong' => ~tookAlong /\ local[NodeOf[s]] = {}
    BY <1>4 DEF DropEntry, Unwatch
  <2>3. ListedJoined'
    BY <2>1, <2>2 DEF ListedJoined, Joined
  <2> QED BY <2>2, <2>3 DEF StayedListed, ListedJoined
<1>5. ASSUME NEW s \in Sockets, Check(s) PROVE ListedJoined' /\ StayedListed'
  <2>1. /\ pc[s] = "check" /\ \E p \in {"out", "query", "release"} : pc' = [pc EXCEPT ![s] = p]
        /\ UNCHANGED <<local, tookAlong>> /\ stayed' = [stayed EXCEPT ![s] = Subscribers]
    BY <1>5 DEF Check, Goto, localVars
  <2>2. \A t \in Subscribers : t \in local[NodeOf[t]]
    BY DEF Subscribers, ListedJoined
  <2> QED BY <2>1, <2>2 DEF ListedJoined, StayedListed, Joined
<1>6. ASSUME NEW s \in Sockets, (\E n \in Nodes : Answer(s, n)) \/ Timeout(s) \/ Release(s) \/ SendVacated(s)
      PROVE  ListedJoined' /\ StayedListed'
  <2>1. pc[s] \notin Joined /\ \E p \in {"out", "query", "release", "sendVacated"} : pc' = [pc EXCEPT ![s] = p]
    BY <1>6 DEF Answer, Timeout, Release, SendVacated, Goto, Joined
  <2>2. UNCHANGED <<local, stayed, tookAlong>>
    BY <1>6 DEF Answer, Timeout, Release, SendVacated, localVars, history
  <2> QED BY <2>1, <2>2 DEF ListedJoined, StayedListed, Joined
<1>7. ASSUME NEW n \in Nodes, Crash(n) PROVE ListedJoined' /\ StayedListed'
  <2>1. /\ local' = [local EXCEPT ![n] = {}] /\ tookAlong' = tookAlong
        /\ pc' = [s \in Sockets |-> IF NodeOf[s] = n THEN "out" ELSE pc[s]]
        /\ stayed' = [t \in Sockets |-> stayed[t] \ {s \in Sockets : NodeOf[s] = n}]
    BY <1>7 DEF Crash, Unwatch
  <2> QED BY <2>1 DEF ListedJoined, StayedListed, Joined
<1>8. ASSUME NEW n \in Nodes, NEW m \in Nodes, Forget(n, m) PROVE ListedJoined' /\ StayedListed'
  BY <1>8 DEF Forget, localVars, history, ListedJoined, StayedListed
<1>9. ASSUME UNCHANGED occupancyVars PROVE ListedJoined' /\ StayedListed'
  BY <1>9 DEF occupancyVars, localVars, history, ListedJoined, StayedListed
<1> QED
  BY <1>1, <1>2, <1>3, <1>4, <1>5, <1>6, <1>7, <1>8, <1>9 DEF OccupancyNext, Handler

\* Every step leaves live nodes known to each other, without faults.
LEMMA MeetPreserved ==
  ASSUME OccupancyTypeOK, AllMeet, [OccupancyNext]_occupancyVars PROVE AllMeet'
<1> USE DEF AllMeet, OccupancyTypeOK
<1>1. ASSUME NEW s \in Sockets, Join(s) \/ Leave(s) \/ Handler(s) PROVE AllMeet'
  <2>1. UNCHANGED clusterVars
    BY <1>1 DEF Join, Leave, Handler, Claim, SendOccupied, DropEntry, Check, Answer, Timeout,
                Release, SendVacated
  <2> QED BY <2>1 DEF clusterVars
<1>2. ASSUME NEW n \in Nodes, Crash(n) PROVE AllMeet'
  <2>1. crashes' = crashes + 1 /\ crashes \in 0..MaxCrashes
    BY <1>2 DEF Crash
  <2> QED BY <2>1
<1>3. ASSUME NEW n \in Nodes, NEW m \in Nodes, Forget(n, m) PROVE AllMeet'
  BY <1>3 DEF Forget
<1>4. ASSUME UNCHANGED occupancyVars PROVE AllMeet'
  BY <1>4 DEF occupancyVars, clusterVars
<1> QED BY <1>1, <1>2, <1>3, <1>4 DEF OccupancyNext

\* stayed only shrinks, except when a check begins.
LEMMA StayedShrinks ==
  ASSUME OccupancyTypeOK, [OccupancyNext]_occupancyVars, NEW s \in Sockets, ~Check(s)
  PROVE  stayed'[s] \subseteq stayed[s]
<1> USE DEF OccupancyTypeOK, history
<1>1. ASSUME NEW t \in Sockets, Join(t) \/ Claim(t) \/ SendOccupied(t) \/ (\E n \in Nodes : Answer(t, n))
                               \/ Timeout(t) \/ Release(t) \/ SendVacated(t)
      PROVE  stayed'[s] \subseteq stayed[s]
  BY <1>1 DEF Join, Claim, SendOccupied, Answer, Timeout, Release, SendVacated
<1>2. ASSUME NEW t \in Sockets, Leave(t) \/ DropEntry(t) PROVE stayed'[s] \subseteq stayed[s]
  BY <1>2 DEF Leave, DropEntry, Unwatch
<1>3. ASSUME NEW t \in Sockets, Check(t) PROVE stayed'[s] \subseteq stayed[s]
  BY <1>3 DEF Check
<1>4. ASSUME NEW n \in Nodes, Crash(n) PROVE stayed'[s] \subseteq stayed[s]
  BY <1>4 DEF Crash, Unwatch
<1>5. ASSUME NEW n \in Nodes, NEW m \in Nodes, Forget(n, m) PROVE stayed'[s] \subseteq stayed[s]
  BY <1>5 DEF Forget
<1>6. ASSUME UNCHANGED occupancyVars PROVE stayed'[s] \subseteq stayed[s]
  BY <1>6 DEF occupancyVars
<1> QED BY <1>1, <1>2, <1>3, <1>4, <1>5, <1>6 DEF OccupancyNext, Handler

\* A step that is not the task's own leaves its place and its query alone; a
\* crash ends both.
LEMMA OthersLeave ==
  ASSUME OccupancyTypeOK, [OccupancyNext]_occupancyVars, NEW s \in Sockets,
         ~Join(s), ~Leave(s), ~Handler(s)
  PROVE  \/ pc'[s] = pc[s] /\ expected'[s] = expected[s] /\ answered'[s] = answered[s]
            /\ found'[s] = found[s]
         \/ pc'[s] = "out"
<1> USE DEF OccupancyTypeOK, queryVars, Goto
<1>1. ASSUME NEW t \in Sockets, Join(t) \/ Leave(t) \/ Claim(t) \/ SendOccupied(t) \/ DropEntry(t)
                               \/ Release(t) \/ SendVacated(t)
      PROVE  UNCHANGED <<expected, answered, found>> /\ (t # s => pc'[s] = pc[s])
  <2>1. UNCHANGED <<expected, answered, found>>
    BY <1>1 DEF Join, Leave, Claim, SendOccupied, DropEntry, Release, SendVacated
  <2>2. \E p : pc' = [pc EXCEPT ![t] = p]
    BY <1>1 DEF Join, Leave, Claim, SendOccupied, DropEntry, Release, SendVacated
  <2> QED BY <2>1, <2>2
<1>2. ASSUME NEW t \in Sockets, t # s, Check(t)
      PROVE  pc'[s] = pc[s] /\ expected'[s] = expected[s] /\ UNCHANGED <<answered, found>>
  BY <1>2 DEF Check
<1>3. ASSUME NEW t \in Sockets, t # s, (\E n \in Nodes : Answer(t, n)) \/ Timeout(t)
      PROVE  /\ pc'[s] = pc[s] /\ expected'[s] = expected[s] /\ answered'[s] = answered[s]
             /\ found'[s] = found[s]
  <2>1. \/ RemovePending({t})
        \/ \E n \in Nodes : /\ answered' = [answered EXCEPT ![t] = answered[t] \cup {n}]
                             /\ found' = [found EXCEPT ![t] = found[t] \/ Counts(n)]
                             /\ UNCHANGED expected
    BY <1>3 DEF Answer, Timeout
  <2>2. \E p : pc' = [pc EXCEPT ![t] = p]
    BY <1>3 DEF Answer, Timeout
  <2> QED BY <1>3, <2>1, <2>2 DEF RemovePending
<1>4. ASSUME NEW n \in Nodes, Crash(n)
      PROVE  \/ pc'[s] = pc[s] /\ expected'[s] = expected[s] /\ answered'[s] = answered[s]
                /\ found'[s] = found[s]
             \/ pc'[s] = "out"
  BY <1>4 DEF Crash, RemovePending
<1>5. ASSUME NEW n \in Nodes, NEW m \in Nodes, Forget(n, m)
      PROVE  UNCHANGED <<pc, expected, answered, found>>
  BY <1>5 DEF Forget
<1>6. ASSUME UNCHANGED occupancyVars PROVE UNCHANGED <<pc, expected, answered, found>>
  BY <1>6 DEF occupancyVars
<1> QED BY <1>1, <1>2, <1>3, <1>4, <1>5, <1>6 DEF OccupancyNext, Handler

\* A fault once counted stays counted.
LEMMA FaultsStay ==
  ASSUME OccupancyTypeOK, [OccupancyNext]_occupancyVars
  PROVE  /\ errors' = 0 => errors = 0
         /\ timeouts' = 0 => timeouts = 0
         /\ crashes' = 0 => crashes = 0
         /\ ~tookAlong' => ~tookAlong
<1>0. errors \in Nat /\ timeouts \in Nat /\ crashes \in Nat
  BY BoundAssumption DEF OccupancyTypeOK
<1> USE <1>0 DEF history, clusterVars
<1>1. ASSUME NEW t \in Sockets, Join(t) \/ Leave(t) \/ Claim(t) \/ SendOccupied(t) \/ DropEntry(t)
      PROVE  /\ errors' = errors \/ errors' = errors + 1
             /\ UNCHANGED <<timeouts, crashes>> /\ (tookAlong' = tookAlong \/ tookAlong')
  BY <1>1 DEF Join, Leave, Claim, SendOccupied, DropEntry, Answered, Fails, OccupancyTypeOK
<1>2. ASSUME NEW t \in Sockets, Check(t) \/ (\E n \in Nodes : Answer(t, n)) \/ Release(t) \/ SendVacated(t)
      PROVE  /\ errors' = errors \/ errors' = errors + 1
             /\ UNCHANGED <<timeouts, crashes, tookAlong>>
  BY <1>2 DEF Check, Answer, Release, SendVacated, Answered, Fails
<1>3. ASSUME NEW t \in Sockets, Timeout(t)
      PROVE  /\ timeouts' = timeouts \/ timeouts' = timeouts + 1
             /\ UNCHANGED <<errors, crashes, tookAlong>>
  BY <1>3 DEF Timeout
<1>4. ASSUME NEW n \in Nodes, Crash(n) \/ \E m \in Nodes : Forget(n, m)
      PROVE  /\ crashes' = crashes \/ crashes' = crashes + 1
             /\ UNCHANGED <<errors, timeouts, tookAlong>>
  BY <1>4 DEF Crash, Forget
<1>5. ASSUME UNCHANGED occupancyVars PROVE UNCHANGED <<errors, timeouts, crashes, tookAlong>>
  BY <1>5 DEF occupancyVars
<1> QED BY <1>1, <1>2, <1>3, <1>4, <1>5 DEF OccupancyNext, Handler

\* What VerifiedVacated says of one task, with what its query knows so far.
Thorough(s) ==
  /\ pc[s] = "query" =>
       /\ expected[s] = Cardinality(Nodes) - 1
       /\ answered[s] \subseteq Nodes \ {Node(s)}
       /\ ~found[s] => \A t \in stayed[s] : Node(t) \notin answered[s] \cup {Node(s)}
  /\ pc[s] \in {"release", "sendVacated"} => stayed[s] = {}

AllThorough == NoFaults => \A s \in Sockets : Thorough(s)

\* Every step keeps a check thorough: its begin asks this node, each answer one
\* more, the last one the last; others only shorten the list of those who stay.
LEMMA ThoroughPreserved ==
  ASSUME OccupancyTypeOK, ListedJoined, StayedListed, AllMeet, AllThorough,
         [OccupancyNext]_occupancyVars
  PROVE  AllThorough'
<1> SUFFICES ASSUME NoFaults', NEW s \in Sockets PROVE Thorough(s)'
  BY DEF AllThorough
<1> USE NodeAssumption DEF OccupancyTypeOK
<1>1. NoFaults /\ Thorough(s)
  BY FaultsStay DEF NoFaults, AllThorough
<1>2. /\ Node(s) \in Nodes /\ Node(s)' = Node(s)
      /\ alive = Nodes /\ knownNodes[Node(s)] = Nodes \ {Node(s)}
      /\ errors' = errors /\ timeouts' = timeouts /\ errors \in Nat /\ timeouts \in Nat
  BY <1>1, BoundAssumption DEF NoFaults, AllMeet, Node
<1>3. CASE Join(s) \/ Leave(s) \/ Claim(s) \/ SendOccupied(s) \/ DropEntry(s) \/ SendVacated(s)
  <2>1. pc'[s] \in {"sendOccupied", "claim", "in", "drop", "out", "check"}
    BY <1>3 DEF Join, FirstOnNode, Leave, Claim, SendOccupied, DropEntry, SendVacated, Goto
  <2> QED BY <2>1 DEF Thorough
<1>4. CASE Check(s)
  <2>1. /\ stayed'[s] = Subscribers /\ UNCHANGED <<answered, found>>
        /\ pc[s] = "check" /\ answered[s] = {}
    BY <1>4 DEF Check, Goto
  <2>2. Cardinality(Nodes \ {Node(s)}) = Cardinality(Nodes) - 1
    BY <1>2, PeerCount
  <2>3. local[Node(s)] = {} => \A t \in Subscribers : Node(t) # Node(s) /\ Node(t) \in Nodes
    BY <1>2 DEF Subscribers, ListedJoined, Node
  <2>4. CASE pc'[s] = "query"
    <3>1. local[Node(s)] = {} /\ expected'[s] = Expect(s)
      BY <1>4, <2>4 DEF Check, Goto
    <3> QED BY <1>2, <2>1, <2>2, <2>3, <2>4, <3>1 DEF Thorough, Expect, Node
  <2>5. CASE pc'[s] = "release"
    <3>1. local[Node(s)] = {} /\ Expect(s) = 0
      BY <1>2, <1>4, <2>5 DEF Check, Goto, Fails
    <3>2. Nodes \ {Node(s)} = {}
      BY <1>2, <3>1, FiniteAssumption, FS_RemoveElement, FS_EmptySet DEF Expect
    <3> QED BY <2>1, <2>3, <2>5, <3>1, <3>2 DEF Thorough
  <2>6. pc'[s] \in {"out", "query", "release"}
    BY <1>4 DEF Check, Goto
  <2> QED BY <2>4, <2>5, <2>6 DEF Thorough
<1>5. ASSUME NEW n \in Nodes, Answer(s, n) PROVE Thorough(s)'
  <2> DEFINE all == answered[s] \cup {n}
  <2>1. pc[s] = "query" /\ n # Node(s) /\ all \subseteq Nodes \ {Node(s)} /\ stayed' = stayed
    BY <1>1, <1>5 DEF Answer, Goto, Thorough, history
  <2>2. ~found[s] /\ ~Counts(n) => \A t \in stayed[s] : Node(t) \notin all \cup {Node(s)}
    BY <1>1, <2>1 DEF Thorough, Counts, StayedListed, Node
  <2>3. CASE Complete(s, all)
    <3>1. pc'[s] = IF found[s] \/ Counts(n) THEN "out" ELSE "release"
      BY <1>5, <2>3 DEF Answer, Goto
    <3>2. all = Nodes \ {Node(s)}
      <4>1. Cardinality(all) >= Cardinality(Nodes) - 1
        BY <1>1, <2>1, <2>3 DEF Complete, Thorough
      <4>2. Cardinality(all) \in 0..(Cardinality(Nodes) - 1)
        BY <1>2, <2>1, PeerCount
      <4>3. Cardinality(Nodes) \in Nat
        BY FS_CardinalityType, FiniteAssumption
      <4>4. Cardinality(all) = Cardinality(Nodes) - 1
        BY <4>1, <4>2, <4>3
      <4> QED BY <1>2, <2>1, <4>4, PeerCount
    <3>3. pc'[s] = "release" => stayed[s] = {}
      BY <2>2, <3>1, <3>2 DEF Node
    <3> QED BY <2>1, <3>1, <3>3 DEF Thorough
  <2>4. CASE ~Complete(s, all)
    <3>1. /\ pc'[s] = "query" /\ expected'[s] = expected[s] /\ answered'[s] = all
          /\ found'[s] = (found[s] \/ Counts(n))
      BY <1>5, <2>4 DEF Answer, Goto
    <3> QED BY <1>1, <1>2, <2>1, <2>2, <3>1 DEF Thorough, Node
  <2> QED BY <2>3, <2>4
<1>6. CASE Timeout(s)
  <2>1. pc[s] = "query" /\ Hopeless(s)
    BY <1>2, <1>6 DEF Timeout, Goto
  <2>2. answered[s] \cup (alive \ {Node(s)}) = Nodes \ {Node(s)}
    BY <1>1, <1>2, <2>1 DEF Thorough
  <2>3. Cardinality(Nodes \ {Node(s)}) < Cardinality(Nodes) - 1
    BY <1>1, <2>1, <2>2 DEF Hopeless, Thorough
  <2>4. Cardinality(Nodes) \in Nat /\ Cardinality(Nodes \ {Node(s)}) = Cardinality(Nodes) - 1
    BY <1>2, PeerCount, FS_CardinalityType, FiniteAssumption
  <2> QED BY <2>3, <2>4
<1>7. CASE Release(s)
  <2>1. pc[s] = "release" /\ pc'[s] = "sendVacated" /\ stayed' = stayed
    BY <1>7 DEF Release, Goto, history
  <2> QED BY <1>1, <2>1 DEF Thorough
<1>8. CASE ~(Join(s) \/ Leave(s) \/ Handler(s))
  <2>1. stayed'[s] \subseteq stayed[s]
    BY <1>8, StayedShrinks DEF Handler
  <2>2. \/ pc'[s] = pc[s] /\ expected'[s] = expected[s] /\ answered'[s] = answered[s]
            /\ found'[s] = found[s]
        \/ pc'[s] = "out"
    BY <1>8, OthersLeave
  <2> QED BY <1>1, <1>2, <2>1, <2>2 DEF Thorough, Node
<1> QED BY <1>3, <1>4, <1>5, <1>6, <1>7, <1>8 DEF Handler

----------------------------------------------------------------------------

\* The task that is going to delete the key, unless somebody is found who is
\* still subscribed.
Responsible(s) ==
  \/ pc[s] \in Joined \cup {"drop", "check", "release"}
  \/ pc[s] = "query" /\ ~found[s]

KeyOwned == errors = 0 /\ crashes = 0 /\ ~tookAlong /\ flag => \E s \in Sockets : Responsible(s)

\* Whoever gives up the responsibility for the key knows of a socket that is
\* listed, and so of another task that has it.
LEMMA OwnedPreserved ==
  ASSUME OccupancyTypeOK, ListedJoined, KeyOwned, [OccupancyNext]_occupancyVars
  PROVE  KeyOwned'
<1> SUFFICES ASSUME errors' = 0, crashes' = 0, ~tookAlong', flag' PROVE \E s \in Sockets : Responsible(s)'
  BY DEF KeyOwned
<1> USE NodeAssumption DEF OccupancyTypeOK
<1>1. /\ errors = 0 /\ crashes = 0 /\ ~tookAlong
      /\ \A n \in Nodes : \A s \in local[n] : pc[s] \in Joined
      /\ \A s \in Sockets : pc[s] \in Joined => s \in local[Node(s)]
  BY FaultsStay DEF ListedJoined
<1>2. ASSUME NEW s \in Sockets, Join(s) \/ Claim(s) \/ SendOccupied(s) PROVE Responsible(s)'
  <2>1. pc'[s] \in Joined
    BY <1>2 DEF Join, FirstOnNode, Claim, SendOccupied, Goto, Joined
  <2> QED BY <2>1 DEF Responsible
\* A step after which somebody listed elsewhere remains, or the key is kept by
\* the task that kept it before.
<1>3. ASSUME NEW s \in Sockets, NEW p, pc' = [pc EXCEPT ![s] = p],
             \A t \in Sockets \ {s} : found'[t] = found[t],
             \/ Responsible(s)'
             \/ ~Responsible(s) /\ flag
             \/ \E n \in Nodes, t \in Sockets \ {s} : t \in local[n]
      PROVE  \E t \in Sockets : Responsible(t)'
  <2>1. CASE Responsible(s)'
    BY <2>1
  <2>2. CASE ~Responsible(s) /\ flag
    <3>1. PICK t \in Sockets : Responsible(t)
      BY <1>1, <2>2 DEF KeyOwned
    <3>2. pc'[t] = pc[t] /\ found'[t] = found[t]
      BY <1>3, <2>2, <3>1
    <3> QED BY <3>1, <3>2 DEF Responsible, Joined
  <2>3. ASSUME NEW n \in Nodes, NEW t \in Sockets \ {s}, t \in local[n]
        PROVE  \E u \in Sockets : Responsible(u)'
    <3>1. pc'[t] \in Joined
      BY <1>1, <1>3, <2>3
    <3> QED BY <3>1 DEF Responsible
  <2> QED BY <1>3, <2>1, <2>2, <2>3
<1>4. ASSUME NEW s \in Sockets, Leave(s) PROVE \E t \in Sockets : Responsible(t)'
  <2>1. pc[s] = "in" /\ s \in local[Node(s)] /\ entry[Node(s)] /\ Node(s) \in Nodes
    BY <1>1, <1>4 DEF Leave, Goto, Joined, Node
  <2>2. found' = found
    BY <1>4 DEF Leave, queryVars
  <2>3. CASE local[Node(s)] \ {s} = {}
    <3>1. pc' = [pc EXCEPT ![s] = "drop"]
      BY <1>4, <2>1, <2>3 DEF Leave, Goto
    <3> QED BY <3>1 DEF Responsible
  <2>4. CASE local[Node(s)] \ {s} # {}
    <3>1. pc' = [pc EXCEPT ![s] = "out"]
      BY <1>4, <2>1, <2>4 DEF Leave, Goto
    <3>2. \E t \in Sockets \ {s} : t \in local[Node(s)]
      BY <2>1, <2>4
    <3> QED BY <1>3, <2>1, <2>2, <3>1, <3>2
  <2> QED BY <2>3, <2>4
<1>5. ASSUME NEW s \in Sockets, DropEntry(s) PROVE Responsible(s)'
  BY <1>5 DEF DropEntry, Goto, Responsible
<1>6. ASSUME NEW s \in Sockets, Check(s) PROVE \E t \in Sockets : Responsible(t)'
  <2>1. pc[s] = "check" /\ found' = found /\ Node(s) \in Nodes
    BY <1>6 DEF Check, Goto, Node
  <2>2. CASE local[Node(s)] # {}
    <3>1. pc' = [pc EXCEPT ![s] = "out"]
      BY <1>6, <2>2 DEF Check, Goto
    <3>2. \E t \in Sockets \ {s} : t \in local[Node(s)]
      BY <1>1, <2>1, <2>2 DEF Joined
    <3> QED BY <1>3, <2>1, <3>1, <3>2
  <2>3. CASE local[Node(s)] = {}
    <3>1. pc'[s] \in {"query", "release"} /\ ~found[s]
      BY <1>6, <2>1, <2>3 DEF Check, Goto
    <3> QED BY <2>1, <3>1 DEF Responsible
  <2> QED BY <2>2, <2>3
<1>7. ASSUME NEW s \in Sockets, NEW n \in Nodes, Answer(s, n) PROVE \E t \in Sockets : Responsible(t)'
  <2>1. /\ pc[s] = "query" /\ flag
        /\ \A t \in Sockets \ {s} : found'[t] = found[t]
        /\ \E p : pc' = [pc EXCEPT ![s] = p]
    BY <1>7 DEF Answer, Goto, RemovePending
  <2>2. CASE Counts(n)
    <3>1. \E t \in Sockets \ {s} : t \in local[n]
      BY <1>1, <2>1, <2>2 DEF Counts, Joined
    <3> QED BY <1>3, <2>1, <3>1
  <2>3. CASE ~Counts(n) /\ ~found[s]
    <3>1. CASE Complete(s, answered[s] \cup {n})
      <4>1. pc'[s] = "release"
        BY <1>7, <2>3, <3>1 DEF Answer, Goto
      <4> QED BY <4>1 DEF Responsible
    <3>2. CASE ~Complete(s, answered[s] \cup {n})
      <4>1. pc'[s] = "query" /\ found'[s] = (found[s] \/ Counts(n))
        BY <1>7, <3>2 DEF Answer, Goto
      <4> QED BY <2>3, <4>1 DEF Responsible
    <3> QED BY <3>1, <3>2
  <2>4. CASE found[s]
    <3>1. ~Responsible(s)
      BY <2>1, <2>4 DEF Responsible, Joined
    <3> QED BY <1>3, <2>1, <3>1
  <2> QED BY <2>2, <2>3, <2>4
<1>8. ASSUME NEW s \in Sockets, Timeout(s) PROVE Responsible(s)'
  BY <1>8 DEF Timeout, Goto, Responsible
<1>9. ASSUME NEW s \in Sockets, Release(s) PROVE FALSE
  BY <1>1, <1>9 DEF Release, Fails
<1>10. ASSUME NEW s \in Sockets, SendVacated(s) PROVE \E t \in Sockets : Responsible(t)'
  <2>1. /\ pc[s] = "sendVacated" /\ flag /\ found' = found
        /\ pc' = [pc EXCEPT ![s] = "out"]
    BY <1>10 DEF SendVacated, Goto, queryVars
  <2>2. ~Responsible(s)
    BY <2>1 DEF Responsible, Joined
  <2> QED BY <1>3, <2>1, <2>2
<1>11. ASSUME NEW n \in Nodes, Crash(n) PROVE FALSE
  BY <1>1, <1>11 DEF Crash
<1>12. ASSUME NEW n \in Nodes, NEW m \in Nodes, Forget(n, m) PROVE \E t \in Sockets : Responsible(t)'
  <2>1. UNCHANGED <<flag, pc, found>>
    BY <1>12 DEF Forget, queryVars
  <2> QED BY <1>1, <2>1 DEF KeyOwned, Responsible
<1>13. ASSUME UNCHANGED occupancyVars PROVE \E t \in Sockets : Responsible(t)'
  <2>1. UNCHANGED <<flag, pc, found>>
    BY <1>13 DEF occupancyVars, queryVars
  <2> QED BY <1>1, <2>1 DEF KeyOwned, Responsible
<1> QED
  BY <1>2, <1>4, <1>5, <1>6, <1>7, <1>8, <1>9, <1>10, <1>11, <1>12, <1>13
     DEF OccupancyNext, Handler

OccupancyInv ==
  OccupancyTypeOK /\ ListedJoined /\ StayedListed /\ AllMeet /\ AllThorough /\ KeyOwned

\* The occupancy invariant holds initially.
LEMMA OccupancyInitInv == OccupancyInit => OccupancyInv
<1> SUFFICES ASSUME OccupancyInit PROVE OccupancyInv
  OBVIOUS
<1>1. ListedJoined /\ StayedListed /\ AllMeet
  BY DEF OccupancyInit, ListedJoined, StayedListed, AllMeet, Joined
<1>2. AllThorough /\ KeyOwned
  BY DEF OccupancyInit, AllThorough, Thorough, KeyOwned
<1> QED BY <1>1, <1>2, OccupancyTypesInit DEF OccupancyInv

\* Every step keeps the occupancy invariant.
LEMMA OccupancyInvPreserved == OccupancyInv /\ [OccupancyNext]_occupancyVars => OccupancyInv'
  BY OccupancyTypesPreserved, ListedPreserved, MeetPreserved, ThoroughPreserved, OwnedPreserved
     DEF OccupancyInv

\* The invariant behind what follows.
THEOREM OccupancyInvariant == OccupancySpec => []OccupancyInv
  BY OccupancyInitInv, OccupancyInvPreserved, PTL DEF OccupancySpec

\* Without faults a channel is taken for vacated only if nobody has been
\* subscribed throughout the check, for any number of nodes and sockets and
\* however joins, leaves and other queries interleave with it.
THEOREM QueryOverlooksNobody == OccupancySpec => []VerifiedVacated
<1>1. OccupancyInv => VerifiedVacated
  BY DEF OccupancyInv, AllThorough, Thorough, VerifiedVacated
<1> QED BY <1>1, OccupancyInvariant, PTL

\* Once all handlers have returned and nobody is subscribed the key is gone,
\* whatever answers were late, unless a command failed, a node crashed or a
\* subscriber was dropped with its entry.
THEOREM LastLeaverDeletes == OccupancySpec => []FlagDeleted
<1>1. OccupancyInv => FlagDeleted
  BY DEF OccupancyInv, KeyOwned, Responsible, FlagDeleted, Quiescent, Joined
<1> QED BY <1>1, OccupancyInvariant, PTL

=============================================================================
