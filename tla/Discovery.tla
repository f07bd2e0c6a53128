----------------------------- MODULE Discovery -----------------------------
(***************************************************************************)
(* How a node with the Redis adapter and its peers get to know each other  *)
(* (src/adapter/redis/pubsub.rs): the node of module Readiness, with the   *)
(* messages it exchanges on Redis pub/sub.  A peer runs the same code; of  *)
(* its tasks only the order subscribe, announce, discover is kept.         *)
(*                                                                         *)
(* A publish reaches the nodes that are subscribed when it is made and no  *)
(* other.  Messages wait on the subscriber's connection until its loop     *)
(* reads them and are gone when the connection ends.  There is no clock:   *)
(* an entry of known_nodes may be pruned (60 seconds) when its node cannot *)
(* have been heard of in time.                                             *)
(***************************************************************************)
EXTENDS Readiness

CONSTANT Peers

\* What matters of a message: it makes its sender known, and a discovery
\* request is answered.
Messages == {"word", "request"}

VARIABLES peer,       \* what each peer is doing
          known,      \* known_nodes: never heard of, heard of on an earlier
                      \* connection, or on the current one
          knownBy,    \* peers that have this node in their known_nodes
          inbox,      \* of this node, by sender
          peerInbox,  \* of each peer, from this node
          published,  \* attempts whose discovery request has been published
          lostTo,     \* peers that the last publish of this node failed to reach
          lostFrom    \* peers whose last publish to this node failed

peerVars == <<peer, known, knownBy, inbox, peerInbox, lostTo, lostFrom>>
allVars  == <<vars, peerVars, published>>

\* "off": not running; "away": running, without a connection; "up", "unasked":
\* its discovery request was published, or that failed.
PeerStates == {"off", "away", "subscribed", "announced", "up", "unasked"}

DiscoveryTypeOK ==
  /\ TypeOK
  /\ peer \in [Peers -> PeerStates]
  /\ known \in [Peers -> {"no", "before", "now"}]
  /\ knownBy \subseteq Peers
  /\ inbox \in [Peers -> SUBSET Messages]
  /\ peerInbox \in [Peers -> SUBSET Messages]
  /\ published \subseteq Attempts
  /\ lostTo \subseteq Peers /\ lostFrom \subseteq Peers

DiscoveryInit ==
  /\ Init
  /\ peer = [p \in Peers |-> "off"]
  /\ known = [p \in Peers |-> "no"]
  /\ knownBy = {}
  /\ inbox = [p \in Peers |-> {}]
  /\ peerInbox = [p \in Peers |-> {}]
  /\ published = {}
  /\ lostTo = {} /\ lostFrom = {}

----------------------------------------------------------------------------
(* Publishing *)

\* Mutant: the SUBSCRIBEs follow the discovery.
SubscribedLast == listener = "reading" /\ task[attempt] # "discovering"

Subscribed == listener \in {"announcing", "reading"}
PeerSubscribed(p) == peer[p] \notin {"off", "away"}
Reached == {p \in Peers : PeerSubscribed(p)}

\* This node publishes m to the peers in P; p publishes m to this node.  A
\* publish to nobody succeeds.
ToPeers(P, m) ==
  /\ peerInbox' = [p \in Peers |-> IF p \in P \cap Reached
                                   THEN peerInbox[p] \cup {m} ELSE peerInbox[p]]
  /\ lostTo' = lostTo \ P

NotToPeers(P) ==
  /\ lostTo' = lostTo \cup P
  /\ UNCHANGED peerInbox

ToNode(p, m) ==
  /\ inbox' = IF Subscribed THEN [inbox EXCEPT ![p] = @ \cup {m}] ELSE inbox
  /\ lostFrom' = lostFrom \ {p}

NotToNode(p) ==
  /\ lostFrom' = lostFrom \cup {p}
  /\ UNCHANGED inbox

----------------------------------------------------------------------------
(* This node *)

\* The connection is gone, with what was waiting on it; what is known of the
\* peers is from now on old.
Disconnect ==
  /\ inbox' = [p \in Peers |-> {}]
  /\ known' = [p \in Peers |-> IF known[p] = "no" THEN "no" ELSE "before"]

NodeStreamEnds ==
  /\ StreamEnds
  /\ Disconnect
  /\ UNCHANGED <<peer, knownBy, peerInbox, lostTo, lostFrom, published>>

NodeSubscribe ==
  /\ Subscribe
  /\ UNCHANGED <<peerVars, published>>

NodeAnnounce ==
  /\ Announce
  /\ ToPeers(Peers, "word") \/ NotToPeers(Peers)
  /\ UNCHANGED <<peer, known, knownBy, inbox, lostFrom, published>>

\* Mutant: heartbeats stop once the node is ready.
HeartbeatUntilReady ==
  /\ ToPeers(Peers, "word")
  /\ ~ subscribed
  /\ UNCHANGED <<vars, peer, known, knownBy, inbox, lostFrom, published>>

\* heartbeat_loop: every 30 seconds, whatever the listener is doing
Heartbeat ==
  /\ ToPeers(Peers, "word")
  /\ UNCHANGED <<vars, peer, known, knownBy, inbox, lostFrom, published>>

HeartbeatFails ==
  /\ NotToPeers(Peers)
  /\ UNCHANGED <<vars, peer, known, knownBy, inbox, lostFrom, published>>

PublishDiscovery(a) ==
  /\ task[a] = "discovering" /\ a \notin published
  /\ published' = published \cup {a}
  /\ ToPeers(Peers, "request")
  /\ UNCHANGED <<vars, peer, known, knownBy, inbox, lostFrom>>

DiscoveryTimesOut(a) ==
  /\ a \in published
  /\ DiscoveryEnds(a)
  /\ UNCHANGED <<peerVars, published>>

\* The publish failed: discover_peers returns at once.
PublishFails(a) ==
  /\ a \notin published
  /\ DiscoveryFails(a)
  /\ NotToPeers(Peers)
  /\ UNCHANGED <<peer, known, knownBy, inbox, lostFrom, published>>

Read(p, m) ==
  /\ listener = "reading" /\ m \in inbox[p]
  /\ inbox' = [inbox EXCEPT ![p] = @ \ {m}]
  /\ known' = [known EXCEPT ![p] = "now"]

ReadWord(p) ==
  /\ Read(p, "word")
  /\ UNCHANGED <<vars, peer, knownBy, peerInbox, lostTo, lostFrom, published>>

\* handle_request(DiscoverPeers) and send_response to p alone
ReadRequest(p) ==
  /\ Read(p, "request")
  /\ ToPeers({p}, "word") \/ NotToPeers({p})
  /\ UNCHANGED <<vars, peer, knownBy, lostFrom, published>>

\* get_peer_count, get_known_node_ids: a peer is dropped that was not heard of
\* for two heartbeat intervals.
Prune(p) ==
  /\ known[p] # "no"
  /\ known[p] = "before" \/ ~ PeerSubscribed(p) \/ p \in lostFrom
  /\ known' = [known EXCEPT ![p] = "no"]
  /\ UNCHANGED <<vars, peer, knownBy, inbox, peerInbox, lostTo, lostFrom, published>>

\* The remaining steps of Readiness, which send and receive nothing.
NodeStep ==
  /\ \/ ClearFlag \/ Bump \/ ClearFlagAfterFailure \/ BumpAfterFailure \/ Wake
     \/ \E a \in Attempts : LoadGeneration(a) \/ StoreReady(a)
  /\ UNCHANGED <<peerVars, published>>

\* SubscribeFails of Readiness: what was subscribed to is gone again.
NodeSubscribeFails ==
  /\ SubscribeFails
  /\ UNCHANGED <<peerVars, published>>

----------------------------------------------------------------------------
(* A peer; one that stops does so for good, and its place may be taken by  *)
(* a new node once nothing of it is left here.                             *)

PeerGoto(p, from, to) ==
  /\ peer[p] = from
  /\ peer' = [peer EXCEPT ![p] = to]
  /\ UNCHANGED <<vars, known, published>>

PeerStarts(p) ==
  /\ known[p] = "no" /\ inbox[p] = {}
  /\ PeerGoto(p, "off", "away")
  /\ lostTo' = lostTo \ {p} /\ lostFrom' = lostFrom \ {p}
  /\ UNCHANGED <<knownBy, inbox, peerInbox>>

PeerSubscribes(p) ==
  /\ PeerGoto(p, "away", "subscribed")
  /\ UNCHANGED <<knownBy, inbox, peerInbox, lostTo, lostFrom>>

PeerAnnounces(p) ==
  /\ PeerGoto(p, "subscribed", "announced")
  /\ ToNode(p, "word") \/ NotToNode(p)
  /\ UNCHANGED <<knownBy, peerInbox, lostTo>>

PeerDiscovers(p) ==
  /\ \/ PeerGoto(p, "announced", "up") /\ ToNode(p, "request")
     \/ PeerGoto(p, "announced", "unasked") /\ NotToNode(p)
  /\ UNCHANGED <<knownBy, peerInbox, lostTo>>

PeerHeartbeat(p) ==
  /\ peer[p] # "off"
  /\ ToNode(p, "word")
  /\ UNCHANGED <<vars, peer, known, knownBy, peerInbox, lostTo, published>>

PeerHeartbeatFails(p) ==
  /\ peer[p] # "off"
  /\ NotToNode(p)
  /\ UNCHANGED <<vars, peer, known, knownBy, peerInbox, lostTo, published>>

\* The peer is in its message loop from its announcement on.
PeerReads(p, m) ==
  /\ peer[p] \in {"announced", "up", "unasked"} /\ m \in peerInbox[p]
  /\ peerInbox' = [peerInbox EXCEPT ![p] = @ \ {m}]
  /\ knownBy' = knownBy \cup {p}
  /\ IF m = "request" THEN ToNode(p, "word") \/ NotToNode(p) ELSE UNCHANGED <<inbox, lostFrom>>
  /\ UNCHANGED <<vars, peer, known, lostTo, published>>

PeerDisconnects(p) ==
  /\ PeerSubscribed(p)
  /\ PeerGoto(p, peer[p], "away")
  /\ peerInbox' = [peerInbox EXCEPT ![p] = {}]
  /\ UNCHANGED <<knownBy, inbox, lostTo, lostFrom>>

PeerStops(p) ==
  /\ peer[p] # "off"
  /\ PeerGoto(p, peer[p], "off")
  /\ peerInbox' = [peerInbox EXCEPT ![p] = {}]
  /\ knownBy' = knownBy \ {p}
  /\ UNCHANGED <<inbox, lostTo, lostFrom>>

\* The peer has not heard of this node for two heartbeat intervals.
PeerPrunes(p) ==
  /\ p \in knownBy /\ (p \in lostTo \/ ~ PeerSubscribed(p))
  /\ knownBy' = knownBy \ {p}
  /\ UNCHANGED <<vars, peer, known, inbox, peerInbox, lostTo, lostFrom, published>>

----------------------------------------------------------------------------

NodeReads == \E p \in Peers : ReadWord(p) \/ ReadRequest(p)
NodeTasks == \E a \in Attempts : PublishDiscovery(a) \/ DiscoveryTimesOut(a) \/ PublishFails(a)
NodeRuns  == NodeStep \/ NodeSubscribe \/ NodeAnnounce

DiscoveryNext ==
  \/ NodeRuns \/ NodeReads \/ NodeTasks
  \/ NodeSubscribeFails \/ NodeStreamEnds
  \/ Heartbeat \/ HeartbeatFails
  \/ \E p \in Peers :
       \/ PeerStarts(p) \/ PeerSubscribes(p) \/ PeerAnnounces(p) \/ PeerDiscovers(p)
       \/ PeerHeartbeat(p) \/ PeerHeartbeatFails(p)
       \/ \E m \in Messages : PeerReads(p, m)
       \/ PeerDisconnects(p) \/ PeerStops(p) \/ PeerPrunes(p) \/ Prune(p)

\* Tasks run on; connections are read; heartbeats are sent again and again.
DiscoveryFairness ==
  /\ WF_allVars(NodeStep) /\ WF_allVars(NodeSubscribe) /\ WF_allVars(NodeAnnounce)
  /\ WF_allVars(NodeReads) /\ WF_allVars(NodeTasks) /\ WF_allVars(Heartbeat)
  /\ \A p \in Peers : WF_allVars(PeerHeartbeat(p))
  /\ \A p \in Peers : WF_allVars(\E m \in Messages : PeerReads(p, m))

DiscoverySpec == DiscoveryInit /\ [][DiscoveryNext]_allVars
FairDiscovery == DiscoverySpec /\ DiscoveryFairness

----------------------------------------------------------------------------

\* Both nodes subscribe before they ask, and ask on every connection: once
\* this node and a peer have both asked, each knows the other or is about to
\* read a message that tells it, in whatever order the two came up, unless the
\* last publish to it failed.  No heartbeat is needed for it (README.md:538).
Asked(p) == listener = "reading" /\ attempt \in published /\ peer[p] = "up"

NobodyMissed ==
  \A p \in Peers : Asked(p) =>
    /\ p \notin lostFrom =>
         known[p] = "now" \/ inbox[p] # {} \/ "request" \in peerInbox[p]
    /\ p \notin lostTo =>
         p \in knownBy \/ peerInbox[p] # {} \/ "request" \in inbox[p]

\* Heartbeats repair what failed before: when both stay connected and publishes
\* no longer fail, each knows the other from some point on.
PeersMeet ==
  \A p \in Peers :
    <>[](listener = "reading" /\ peer[p] \in {"up", "unasked"} /\ p \notin lostTo \cup lostFrom)
      => <>[](known[p] = "now" /\ p \in knownBy)

=============================================================================
