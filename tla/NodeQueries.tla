---------------------------- MODULE NodeQueries ----------------------------
(***************************************************************************)
(* What one node asks of the others (src/adapter/redis/mod.rs, pubsub.rs): *)
(* connection and channel counts, which it reads from the statistics every *)
(* node keeps writing to Redis under a key that expires, and metrics,      *)
(* which it requests over pub/sub and waits for.  Both start from          *)
(* known_nodes, the peers heard of lately.                                 *)
(*                                                                         *)
(* Time is counted in units that are longer than any delay: what is due in *)
(* a unit is done before the unit ends, and an age that reaches a limit    *)
(* has reached it before the task that acts at that time gets to act.      *)
(* A restarted node has a new id, so a peer that stops never returns.      *)
(* How a node gets to be known after it has started is module Discovery;   *)
(* how a count is summed up from the nodes' values is left out: a node is  *)
(* counted or it is not.                                                   *)
(***************************************************************************)
EXTENDS Integers, FiniteSets

CONSTANTS Peers,
          StatsInterval,  \* between two writes of the statistics: 5 seconds
          StatsTtl,       \* EX of their key: 15 seconds
          BeatInterval,   \* HEARTBEAT_INTERVAL: 30 seconds
          RequestTimeout

ASSUME TimesAssumption ==
  /\ StatsInterval \in Nat \ {0} /\ StatsTtl \in Nat
  /\ BeatInterval \in Nat \ {0} /\ RequestTimeout \in Nat
\* A key outlives one write that fails.
ASSUME TtlAssumption == 2 * StatsInterval < StatsTtl
ASSUME PeersAssumption == IsFiniteSet(Peers)

\* Mutant: entries are stale after one interval.
OneBeat == BeatInterval

\* stale_threshold of get_peer_count and get_known_node_ids
StaleThreshold == 2 * BeatInterval

VARIABLES status,    \* of each peer
          writeAge,  \* time since stats_heartbeat_loop last woke up
          keyAge,    \* age of the peer's statistics key; StatsTtl: no key
          misses,    \* writes that failed in a row (2: more, or none succeeded yet)
          beatAge,   \* time since heartbeat_loop last woke up
          seenAge,   \* age of the entry in known_nodes; StaleThreshold: pruned
          silent,    \* peers whose last heartbeat was lost
          deadFor,   \* time since the peer stopped
          query,     \* the request this node is making
          callKnown, \* peers it knew when it made the request
          reached,   \* peers the request was delivered to
          got,       \* responses of the pending entry
          waited     \* time since the publish

peerVars  == <<status, writeAge, keyAge, misses, beatAge, deadFor>>
seenVars  == <<seenAge, silent>>
queryVars == <<query, callKnown, reached, got, waited>>
vars == <<peerVars, seenVars, queryVars>>

TypeOK ==
  /\ status \in [Peers -> {"unborn", "up", "down"}]
  /\ writeAge \in [Peers -> 0..StatsInterval]
  /\ keyAge \in [Peers -> 0..StatsTtl]
  /\ misses \in [Peers -> 0..2]
  /\ beatAge \in [Peers -> 0..BeatInterval]
  /\ seenAge \in [Peers -> 0..(2 * BeatInterval)]
  /\ silent \subseteq Peers
  /\ deadFor \in [Peers -> 0..StatsTtl]
  /\ query \in {"idle", "publishing", "waiting"}
  /\ callKnown \subseteq Peers /\ reached \subseteq Peers
  /\ got \subseteq reached
  /\ waited \in 0..RequestTimeout

Init ==
  /\ status = [p \in Peers |-> "unborn"]
  /\ writeAge = [p \in Peers |-> 0]
  /\ keyAge = [p \in Peers |-> StatsTtl]
  /\ misses = [p \in Peers |-> 2]
  /\ beatAge = [p \in Peers |-> 0]
  /\ seenAge = [p \in Peers |-> StaleThreshold]
  /\ silent = {}
  /\ deadFor = [p \in Peers |-> 0]
  /\ query = "idle" /\ callKnown = {} /\ reached = {}
  /\ got = {} /\ waited = 0

Up == {p \in Peers : status[p] = "up"}

\* get_known_node_ids: entries below the threshold; the others are removed.
Known == {p \in Peers : seenAge[p] < StaleThreshold}

----------------------------------------------------------------------------
(* Time *)

Older(age, limit) == IF age < limit THEN age + 1 ELSE limit

NothingDue ==
  /\ \A p \in Up : writeAge[p] < StatsInterval /\ beatAge[p] < BeatInterval
  /\ query = "idle" \/ (query = "waiting" /\ waited < RequestTimeout)

\* Mutant: SET without EX.
KeepKeys == keyAge

\* Redis removes a key whose time to live has passed.
ExpireKeys == [p \in Peers |-> Older(keyAge[p], StatsTtl)]

Tick ==
  /\ NothingDue
  /\ writeAge' = [p \in Peers |-> IF p \in Up THEN writeAge[p] + 1 ELSE writeAge[p]]
  /\ beatAge' = [p \in Peers |-> IF p \in Up THEN beatAge[p] + 1 ELSE beatAge[p]]
  /\ keyAge' = ExpireKeys
  /\ seenAge' = [p \in Peers |-> Older(seenAge[p], StaleThreshold)]
  /\ deadFor' = [p \in Peers |-> IF status[p] = "down" THEN Older(deadFor[p], StatsTtl) ELSE 0]
  /\ waited' = IF query = "waiting" THEN waited + 1 ELSE waited
  /\ UNCHANGED <<status, misses, silent, query, callKnown, reached, got>>

----------------------------------------------------------------------------
(* The peers *)

\* A node starts and announces itself; both loops sleep first.
PeerStarts(p) ==
  /\ status[p] = "unborn"
  /\ status' = [status EXCEPT ![p] = "up"]
  /\ \/ seenAge' = [seenAge EXCEPT ![p] = 0] /\ UNCHANGED silent
     \/ silent' = silent \cup {p} /\ UNCHANGED seenAge
  /\ UNCHANGED <<writeAge, keyAge, misses, beatAge, deadFor, queryVars>>

\* An answer it has sent may still be on its way.
PeerStops(p) ==
  /\ status[p] = "up"
  /\ status' = [status EXCEPT ![p] = "down"]
  /\ writeAge' = [writeAge EXCEPT ![p] = 0]
  /\ beatAge' = [beatAge EXCEPT ![p] = 0]
  /\ misses' = [misses EXCEPT ![p] = 2]
  /\ silent' = silent \ {p}
  /\ UNCHANGED <<keyAge, deadFor, seenAge, queryVars>>

StatsDue(p) == p \in Up /\ writeAge[p] = StatsInterval

\* stats_heartbeat_loop: collect_local_stats, SET key EX ttl
WriteStats(p) ==
  /\ StatsDue(p)
  /\ writeAge' = [writeAge EXCEPT ![p] = 0]
  /\ keyAge' = [keyAge EXCEPT ![p] = 0]
  /\ misses' = [misses EXCEPT ![p] = 0]
  /\ UNCHANGED <<status, beatAge, deadFor, seenVars, queryVars>>

WriteFails(p) ==
  /\ StatsDue(p)
  /\ writeAge' = [writeAge EXCEPT ![p] = 0]
  /\ misses' = [misses EXCEPT ![p] = Older(@, 2)]
  /\ UNCHANGED <<status, keyAge, beatAge, deadFor, seenVars, queryVars>>

BeatDue(p) == p \in Up /\ beatAge[p] = BeatInterval

\* heartbeat_loop, and record_peer at this node
Heartbeat(p) ==
  /\ BeatDue(p)
  /\ beatAge' = [beatAge EXCEPT ![p] = 0]
  /\ seenAge' = [seenAge EXCEPT ![p] = 0]
  /\ silent' = silent \ {p}
  /\ UNCHANGED <<status, writeAge, keyAge, misses, deadFor, queryVars>>

\* It could not be published, or this node was not subscribed.
HeartbeatLost(p) ==
  /\ BeatDue(p)
  /\ beatAge' = [beatAge EXCEPT ![p] = 0]
  /\ silent' = silent \cup {p}
  /\ UNCHANGED <<status, writeAge, keyAge, misses, deadFor, seenAge, queryVars>>

\* Any other message of p: broadcasts, requests, answers that come too late.
Hear(p) ==
  /\ p \in Up
  /\ seenAge' = [seenAge EXCEPT ![p] = 0]
  /\ UNCHANGED <<peerVars, silent, queryVars>>

----------------------------------------------------------------------------
(* request() of this node *)

\* expected_count; the number is taken once, when the request is made.
Expected == Cardinality(callKnown)

\* The entry is inserted; without known peers the answer is empty at once.
Call ==
  /\ query = "idle" /\ Known # {}
  /\ query' = "publishing"
  /\ callKnown' = Known
  /\ UNCHANGED <<peerVars, seenVars, reached, got, waited>>

Publish ==
  /\ query = "publishing"
  /\ query' = "waiting"
  /\ reached' = Up
  /\ UNCHANGED <<peerVars, seenVars, callKnown, got, waited>>

\* request() returns; an answer still to come finds no pending entry (Hear).
Returns ==
  /\ query' = "idle" /\ waited' = 0
  /\ callKnown' = {} /\ reached' = {} /\ got' = {}

\* The early return; the caller falls back to its own metrics.
PublishFails ==
  /\ query = "publishing"
  /\ Returns
  /\ UNCHANGED <<peerVars, seenVars>>

\* Mutant: one response too few is enough.
CompleteEarly(n) == n + 1 >= Expected

Complete(n) == n >= Expected

\* handle_request and send_response at p, unless p stops first or the answer
\* is lost; record_peer and handle_response: the last response sends them all.
Answer(p) ==
  /\ query = "waiting" /\ p \in reached \ got
  /\ seenAge' = [seenAge EXCEPT ![p] = 0]
  /\ IF Complete(Cardinality(got) + 1)
     THEN Returns
     ELSE got' = got \cup {p} /\ UNCHANGED <<query, callKnown, reached, waited>>
  /\ UNCHANGED <<peerVars, silent>>

TimeLimit == query = "waiting" /\ waited = RequestTimeout

\* Mutant: the timeout is only looked at while nobody has answered.
TimeoutUnanswered ==
  /\ TimeLimit /\ got = {}
  /\ Returns
  /\ UNCHANGED <<peerVars, seenVars>>

\* The responses that did arrive are dropped with the pending entry.
Timeout ==
  /\ TimeLimit
  /\ Returns
  /\ UNCHANGED <<peerVars, seenVars>>

----------------------------------------------------------------------------

Loops(p) == WriteStats(p) \/ WriteFails(p) \/ Heartbeat(p) \/ HeartbeatLost(p)
RequestStep == Publish \/ PublishFails \/ Timeout

Next ==
  \/ Tick \/ Call \/ RequestStep
  \/ \E p \in Peers : PeerStarts(p) \/ PeerStops(p) \/ Loops(p) \/ Hear(p)
  \/ \E p \in Peers : Answer(p)

Spec == Init /\ [][Next]_vars

\* Time goes on, however often requests are made, and the loops run; nothing
\* forces an answer.
Fairness == SF_vars(Tick) /\ WF_vars(RequestStep) /\ \A p \in Peers : WF_vars(Loops(p))

FairSpec == Spec /\ Fairness

----------------------------------------------------------------------------

\* Mutant: only nodes heard of within one heartbeat interval are read.
CountedLately == {p \in Known : keyAge[p] < StatsTtl /\ seenAge[p] < BeatInterval}

\* read_remote_stats: MGET of the keys of the known nodes, when it succeeds (a
\* read that fails counts none of them, once)
Counted == {p \in Known : keyAge[p] < StatsTtl}

\* A live node is counted in spite of one failed write, and while its
\* heartbeats come in (README.md:539): neither limit is as short as two
\* intervals, so neither runs out between two successes.
LiveNodeCounted ==
  \A p \in Up :
    /\ p \notin silent => p \in Known
    /\ misses[p] <= 1 => keyAge[p] < StatsTtl

\* The connections of a node that is gone count for one time to live at most,
\* although it is listed as known for longer.
DeadNodeForgotten == \A p \in Peers : deadFor[p] = StatsTtl => p \notin Counted

\* When messages and commands get through, the nodes counted are in the end
\* the nodes that are running, whatever stopped, started or failed before.
CountConverges ==
  <>[](\A p \in Up : p \notin silent /\ misses[p] = 0) => <>[](Counted = Up)

\* expected_count is a number, taken before the request is published: when that
\* was delivered to no other node than those counted, the last response
\* completes the set of all of them and none is missing from the result.
CompleteCoversKnown ==
  [][\A p \in Peers : Answer(p) /\ query' = "idle" /\ reached \subseteq callKnown
       => got \cup {p} = callKnown]_vars

\* A request that has been published ends, whoever has stopped or does not answer.
RequestReturns == query = "waiting" ~> query = "idle"

----------------------------------------------------------------------------
(* What the documentation says and the code does not do *)

\* "Send a request to all other nodes and collect responses" (pubsub.rs:166):
\* what was collected is returned.
AnswersReported == [][Timeout => got = {}]_vars

\* "Get aggregated metrics from all nodes" (mod.rs:72): a request that is
\* completed has been answered by every known node that still runs.
AllKnownAnswered ==
  [][\A p \in Peers : Answer(p) /\ query' = "idle" => callKnown \cap Up \subseteq got \cup {p}]_vars

=============================================================================
