--------------------------- MODULE RedisOccupancy ---------------------------
(***************************************************************************)
(* channel_occupied and channel_vacated of one channel in a cluster        *)
(* (src/adapter/redis/mod.rs: is_channel_globally_occupied / _vacated, on  *)
(* top of RedisPubSub::request): the flag in Redis, the subscribers of     *)
(* every node, and the query a node sends to its peers before it deletes   *)
(* the flag.                                                               *)
(*                                                                         *)
(* A peer's answer is counted and received in one step: a late receipt is  *)
(* a late step of the requester, or a timeout.                             *)
(***************************************************************************)
EXTENDS Integers, FiniteSets

CONSTANTS Nodes, Sockets,
          NodeOf,        \* the node each socket is connected to
          Presence,      \* the channel is of a presence kind
          MaxErrors,     \* bound: failing Redis commands
          MaxTimeouts,   \* bound: requests that time out though every peer answers
          MaxCrashes     \* bound: crashing nodes

ASSUME NodeAssumption == NodeOf \in [Sockets -> Nodes] /\ Presence \in BOOLEAN
ASSUME FiniteAssumption == IsFiniteSet(Nodes) /\ IsFiniteSet(Sockets)
ASSUME BoundAssumption == {MaxErrors, MaxTimeouts, MaxCrashes} \subseteq Nat

VARIABLES alive,      \* nodes that run
          knownNodes, \* known_nodes of each node
          entry,      \* the channel has an entry in the node's registry
          local,      \* the sockets of that entry
          flag,       \* the occupancy key exists
          pc,
          expected,   \* expected_count of the task's pending request
          answered,   \* peers whose response has arrived
          found,      \* a response counted a subscriber
          lastEvent,  \* last occupied / vacated event sent
          stayed,     \* history: subscribers since the task's check began
          tookAlong,  \* history: an entry was dropped with a subscriber in it
          errors, timeouts, crashes

clusterVars == <<alive, knownNodes, crashes>>
localVars == <<entry, local>>
queryVars == <<expected, answered, found>>
history == <<stayed, tookAlong>>
occupancyVars == <<clusterVars, localVars, flag, pc, queryVars, lastEvent, history,
                   errors, timeouts>>

Pcs == {"out", "claim", "sendOccupied", "in",
        "drop", "check", "query", "release", "sendVacated"}

(***************************************************************************)
(* Type invariant.  A query expects no more answers than there are peers,  *)
(* waits only while it has fewer, and leaves nothing pending.              *)
(***************************************************************************)
OccupancyTypeOK ==
  /\ alive \subseteq Nodes
  /\ knownNodes \in [Nodes -> SUBSET Nodes] /\ \A n \in Nodes : n \notin knownNodes[n]
  /\ entry \in [Nodes -> BOOLEAN]
  /\ local \in [Nodes -> SUBSET Sockets]
  /\ \A n \in Nodes : local[n] # {} => entry[n]
  /\ flag \in BOOLEAN
  /\ pc \in [Sockets -> Pcs]
  /\ expected \in [Sockets -> 0..(Cardinality(Nodes) - 1)]
  /\ answered \in [Sockets -> SUBSET Nodes]
  /\ found \in [Sockets -> BOOLEAN]
  /\ \A s \in Sockets :
       IF pc[s] = "query" THEN Cardinality(answered[s]) < expected[s]
                          ELSE expected[s] = 0 /\ answered[s] = {} /\ ~found[s]
  /\ lastEvent \in {"none", "occupied", "vacated"}
  /\ stayed \in [Sockets -> SUBSET Sockets] /\ tookAlong \in BOOLEAN
  /\ errors \in 0..MaxErrors /\ timeouts \in 0..MaxTimeouts /\ crashes \in 0..MaxCrashes

\* Every node has discovered its peers.
OccupancyInit ==
  /\ alive = Nodes
  /\ knownNodes = [n \in Nodes |-> Nodes \ {n}]
  /\ entry = [n \in Nodes |-> FALSE]
  /\ local = [n \in Nodes |-> {}]
  /\ flag = FALSE
  /\ pc = [s \in Sockets |-> "out"]
  /\ expected = [s \in Sockets |-> 0]
  /\ answered = [s \in Sockets |-> {}]
  /\ found = [s \in Sockets |-> FALSE]
  /\ lastEvent = "none"
  /\ stayed = [s \in Sockets |-> {}] /\ tookAlong = FALSE
  /\ errors = 0 /\ timeouts = 0 /\ crashes = 0

Node(s) == NodeOf[s]
Subscribers == UNION {local[n] : n \in alive}

Goto(s, from, to) ==
  /\ pc[s] = from
  /\ pc' = [pc EXCEPT ![s] = to]

Answered == UNCHANGED errors
Fails    == errors < MaxErrors /\ errors' = errors + 1

\* The sockets gone are no longer subscribed, whoever is watching them.
Unwatch(gone) == stayed' = [t \in Sockets |-> stayed[t] \ gone]

----------------------------------------------------------------------------
(* Joining: add_to_channel, then is_channel_globally_occupied *)

\* The presence handler sends the webhook on the local result alone.
FirstOnNode == IF Presence THEN "sendOccupied" ELSE "claim"

Join(s) ==
  LET n == Node(s) IN
  /\ Goto(s, "out", IF local[n] = {} THEN FirstOnNode ELSE "in")
  /\ n \in alive
  /\ entry' = [entry EXCEPT ![n] = TRUE]
  /\ local' = [local EXCEPT ![n] = @ \cup {s}]
  /\ UNCHANGED <<clusterVars, flag, queryVars, lastEvent, history, errors, timeouts>>

\* SETNX.  On an error the local answer (true) stands, and the key may have
\* been set.
Claim(s) ==
  /\ \/ Answered /\ flag' = TRUE /\ Goto(s, "claim", IF flag THEN "in" ELSE "sendOccupied")
     \/ Fails /\ flag' \in {flag, TRUE} /\ Goto(s, "claim", "sendOccupied")
  /\ UNCHANGED <<clusterVars, localVars, queryVars, lastEvent, history, timeouts>>

SendOccupied(s) ==
  /\ Goto(s, "sendOccupied", "in")
  /\ lastEvent' = "occupied"
  /\ UNCHANGED <<clusterVars, localVars, flag, queryVars, history, errors, timeouts>>

----------------------------------------------------------------------------
(* Leaving: remove_from_channel in two steps, then                         *)
(* is_channel_globally_vacated                                             *)

\* A socket that finds no entry, since another task dropped it, has not
\* vacated anything.
Leave(s) ==
  LET n == Node(s)  left == local[n] \ {s} IN
  /\ Goto(s, "in", IF entry[n] /\ left = {} THEN "drop" ELSE "out")
  /\ local' = [local EXCEPT ![n] = left]
  /\ Unwatch({s})
  /\ UNCHANGED <<clusterVars, entry, flag, queryVars, lastEvent, tookAlong, errors, timeouts>>

\* channels.remove(channel), after the guard on the entry was released: it
\* takes along a socket that has joined in between.
DropEntry(s) ==
  LET n == Node(s) IN
  /\ Goto(s, "drop", "check")
  /\ entry' = [entry EXCEPT ![n] = FALSE]
  /\ local' = [local EXCEPT ![n] = {}]
  /\ Unwatch(local[n])
  /\ tookAlong' = (tookAlong \/ local[n] # {})
  /\ UNCHANGED <<clusterVars, flag, queryVars, lastEvent, errors, timeouts>>

\* Mutant: the first answer settles the query.
ExpectOne(s) == IF knownNodes[Node(s)] = {} THEN 0 ELSE 1

\* get_peer_count
Expect(s) == Cardinality(knownNodes[Node(s)])

\* local_count > 0: somebody has joined meanwhile, so not vacated.  With no
\* known peer, or when publishing the request fails, there is no answer to
\* wait for.
Check(s) ==
  /\ \/ local[Node(s)] # {} /\ Goto(s, "check", "out") /\ Answered /\ UNCHANGED expected
     \/ /\ local[Node(s)] = {}
        /\ \/ Expect(s) = 0 /\ Goto(s, "check", "release") /\ Answered /\ UNCHANGED expected
           \/ /\ Expect(s) > 0 /\ Goto(s, "check", "query") /\ Answered
              /\ expected' = [expected EXCEPT ![s] = Expect(s)]
           \/ Expect(s) > 0 /\ Goto(s, "check", "release") /\ Fails /\ UNCHANGED expected
  /\ stayed' = [stayed EXCEPT ![s] = Subscribers]
  /\ UNCHANGED <<clusterVars, localVars, flag, answered, found, lastEvent, tookAlong, timeouts>>

\* Mutant: a node still counts the sockets whose handlers are leaving.
CountsLeaving(n) ==
  local[n] # {} \/ \E t \in Sockets : Node(t) = n /\ pc[t] \in {"drop", "check", "query"}

\* get_channel_socket_count > 0
Counts(n) == local[n] # {}

Complete(s, all) == Cardinality(all) >= expected[s]

\* A request returns, or its node is gone: its entry in the pending table is
\* removed.
RemovePending(gone) ==
  /\ expected' = [s \in Sockets |-> IF s \in gone THEN 0 ELSE expected[s]]
  /\ answered' = [s \in Sockets |-> IF s \in gone THEN {} ELSE answered[s]]
  /\ found' = [s \in Sockets |-> s \notin gone /\ found[s]]

\* Node n counts its subscribers and its response arrives.  The request is
\* complete when as many responses as expected are there, whoever sent them.
Answer(s, n) ==
  LET all == answered[s] \cup {n}
      any == found[s] \/ Counts(n) IN
  /\ n \in alive \ (answered[s] \cup {Node(s)})
  /\ \/ /\ ~Complete(s, all) /\ Goto(s, "query", "query")
        /\ answered' = [answered EXCEPT ![s] = all]
        /\ found' = [found EXCEPT ![s] = any]
        /\ UNCHANGED expected
     \/ /\ Complete(s, all) /\ Goto(s, "query", IF any THEN "out" ELSE "release")
        /\ RemovePending({s})
  /\ UNCHANGED <<clusterVars, localVars, flag, lastEvent, history, errors, timeouts>>

\* Too few peers are left to complete the request.
Hopeless(s) == Cardinality(answered[s] \cup (alive \ {Node(s)})) < expected[s]

\* request_timeout: the request returns no responses, not those that did
\* arrive, and the sum over none is zero.
Timeout(s) ==
  /\ Goto(s, "query", "release")
  /\ IF Hopeless(s) THEN UNCHANGED timeouts
                    ELSE timeouts < MaxTimeouts /\ timeouts' = timeouts + 1
  /\ RemovePending({s})
  /\ UNCHANGED <<clusterVars, localVars, flag, lastEvent, history, errors>>

\* DEL.  On an error the key may be left, and the channel counts as vacated.
Release(s) ==
  /\ Goto(s, "release", "sendVacated")
  /\ \/ Answered /\ flag' = FALSE
     \/ Fails /\ flag' \in {flag, FALSE}
  /\ UNCHANGED <<clusterVars, localVars, queryVars, lastEvent, history, timeouts>>

SendVacated(s) ==
  /\ Goto(s, "sendVacated", "out")
  /\ lastEvent' = "vacated"
  /\ UNCHANGED <<clusterVars, localVars, flag, queryVars, history, errors, timeouts>>

----------------------------------------------------------------------------
(* Failures of nodes *)

\* A node stops: its memory and its tasks are gone, the key is not.
Crash(n) ==
  LET mine == {s \in Sockets : Node(s) = n} IN
  /\ n \in alive
  /\ crashes < MaxCrashes /\ crashes' = crashes + 1
  /\ alive' = alive \ {n}
  /\ entry' = [entry EXCEPT ![n] = FALSE]
  /\ local' = [local EXCEPT ![n] = {}]
  /\ pc' = [s \in Sockets |-> IF s \in mine THEN "out" ELSE pc[s]]
  /\ Unwatch(mine)
  /\ RemovePending(mine)
  /\ UNCHANGED <<knownNodes, flag, lastEvent, tookAlong, errors, timeouts>>

\* get_peer_count prunes a peer that has been silent for two heartbeats.
Forget(n, m) ==
  /\ n \in alive /\ m \in knownNodes[n] \ alive
  /\ knownNodes' = [knownNodes EXCEPT ![n] = @ \ {m}]
  /\ UNCHANGED <<alive, crashes, localVars, flag, pc, queryVars, lastEvent, history,
                 errors, timeouts>>

Handler(s) ==
  \/ Claim(s) \/ SendOccupied(s)
  \/ DropEntry(s) \/ Check(s) \/ (\E n \in Nodes : Answer(s, n)) \/ Timeout(s)
  \/ Release(s) \/ SendVacated(s)

OccupancyNext ==
  \/ \E s \in Sockets : Join(s) \/ Leave(s) \/ Handler(s)
  \/ \E n \in Nodes : Crash(n) \/ \E m \in Nodes : Forget(n, m)

OccupancySpec == OccupancyInit /\ [][OccupancyNext]_occupancyVars

----------------------------------------------------------------------------
(* Properties *)

(***************************************************************************)
(* As long as nothing fails and answers are in time, a channel is taken    *)
(* for vacated only after a moment of the check at which each node was     *)
(* without subscribers: nobody who is subscribed from the beginning of the *)
(* check to the deletion of the key is overlooked (the comment in          *)
(* is_channel_globally_vacated: "Vacated checks require real-time          *)
(* accuracy").                                                             *)
(***************************************************************************)
NoFaults == errors = 0 /\ timeouts = 0 /\ crashes = 0

VerifiedVacated ==
  NoFaults => \A s \in Sockets : pc[s] \in {"release", "sendVacated"} => stayed[s] = {}

Quiescent == \A s \in Sockets : pc[s] = "out"

(***************************************************************************)
(* Once everybody has left, the key is gone: one that stayed behind would  *)
(* silence the next channel_occupied.  However the leaving nodes           *)
(* interleave, and though answers are late or lost, the last query deletes *)
(* it; only a failed DEL or a crash leaves it, or a subscriber that was    *)
(* dropped with the entry of its channel (KeyDeleted).                     *)
(***************************************************************************)
FlagDeleted == errors = 0 /\ crashes = 0 /\ ~tookAlong /\ Quiescent => ~flag

----------------------------------------------------------------------------
(* What the documentation says and the code does not do *)

(***************************************************************************)
(* README.md: channel_vacated fires only when no node has any subscribers. *)
(* A query that a dead peer makes time out drops the answers it has, and   *)
(* no answers count as no subscribers.                                     *)
(***************************************************************************)
VacatedMeansEmpty ==
  \A s \in Sockets : pc[s] \in {"release", "sendVacated"} => stayed[s] = {}

(***************************************************************************)
(* README.md: the last node to see all subscribers leave deletes the flag. *)
(* A subscriber that another socket's removal has taken along finds no     *)
(* entry when it leaves and starts no query: the key it claimed stays.     *)
(***************************************************************************)
KeyDeleted == errors = 0 /\ crashes = 0 /\ Quiescent => ~flag

(***************************************************************************)
(* README.md: the occupied and vacated webhooks are deduplicated across    *)
(* the cluster, so vacated is not sent twice in a row.  Two nodes whose    *)
(* last subscribers leave together both see zero and both send it.         *)
(***************************************************************************)
VacatedOnce == [][\A s \in Sockets : SendVacated(s) => lastEvent # "vacated"]_occupancyVars

(***************************************************************************)
(* README.md: channel_occupied fires only once across all nodes.  For a    *)
(* presence channel every node sends it for its own first subscriber.      *)
(***************************************************************************)
OccupiedOnce == [][\A s \in Sockets : SendOccupied(s) => lastEvent # "occupied"]_occupancyVars

(***************************************************************************)
(* README.md: channel_occupied fires when the first subscriber joins.  So  *)
(* when all handlers have returned and somebody is subscribed, the last    *)
(* event was not vacated.  A join that finds the key of a node about to    *)
(* delete it is silent.                                                    *)
(***************************************************************************)
OccupiedIsTrue ==
  (\A s \in Sockets : pc[s] \in {"out", "in"}) /\ Subscribers # {} => lastEvent = "occupied"

=============================================================================
