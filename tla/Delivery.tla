------------------------------ MODULE Delivery ------------------------------
(***************************************************************************)
(* The events of one cache channel: HTTP requests that cache an event and  *)
(* send it (src/http/routes/events.rs, batch_events.rs), client events,    *)
(* the broadcast to the other nodes (RedisPubSub::publish, the subscriber  *)
(* loop, handle_broadcast), and the subscribe handler that lists the       *)
(* socket and then replays the cached event.                               *)
(*                                                                         *)
(* A task is a request or the task of a connection; an event is <<t, i>>,  *)
(* the i-th event of task t.  A publish that fails has reached Redis or    *)
(* not, but does not reach it later.  Sockets do not overflow here (that   *)
(* is ConnectionLoop), and caching is enabled.                             *)
(***************************************************************************)
EXTENDS Integers, SequencesExt

CONSTANTS Nodes, Sockets, Requests, NoSocket,
          NodeOf,        \* the node of a connection, and that serves a request
          Batch,         \* per request: the socket_id each of its events excludes
          Absent,        \* no entry in a map, no value in the cache
          Failed,        \* a read of the cache that failed
          MaxJoins,        \* bound: subscriptions of each socket
          MaxClientEvents, \* bound: client events, per socket
          MaxFaults        \* bound: failing publishes and cache commands, lost connections, expiries

Tasks == Requests \cup Sockets

ASSUME TaskAssumption == Requests \cap Sockets = {} /\ NoSocket \notin Sockets /\ Absent \notin Tasks
ASSUME NodeAssumption == NodeOf \in [Tasks -> Nodes]
ASSUME BatchAssumption == Batch \in [Requests -> Seq(Sockets \cup {NoSocket})]
ASSUME BoundAssumption == {MaxJoins, MaxFaults} \subseteq Nat /\ MaxClientEvents \in [Sockets -> Nat]

VARIABLES pc,
          index,      \* the event a task sends
          entry,      \* each node's entry of the channel: a set of sockets, or Absent
          subscribed, \* sockets with the channel in subscribed_channels
          frames,     \* the events a listed socket was sent
          cached,     \* events cached since the last expiry; the last one is the value
          found,      \* what a socket's replay_cache read
          seen,       \* history: the events the value it read stands for
          busy,       \* the task that holds a node's broadcast_conn, or Absent
          linked,     \* nodes whose subscriber connection is up
          inbox,      \* events on their way to a node
          heard,      \* history: events a node has fanned out
          failed,     \* history: events whose first publish returned an error
          joins, faults

taskVars == <<pc, index>>
channelVars == <<entry, subscribed, joins>>
cacheVars == <<cached, found, seen>>
wireVars == <<busy, linked, inbox, failed>>
fanOutVars == <<frames, heard>>
vars == <<taskVars, channelVars, cacheVars, wireVars, fanOutVars, faults>>

RequestEvents == UNION {{r} \X DOMAIN Batch[r] : r \in Requests}
ClientEvents == UNION {{s} \X (1..MaxClientEvents[s]) : s \in Sockets}
Events == RequestEvents \cup ClientEvents

SocketPcs == {"idle", "listed", "read", "emptied"}
RequestPcs == {"check", "cache", "done"}
SendPcs == {"publish", "retry", "fanOut"}

Live(e) == <<"event", e>>
Replay(e) == <<"replay", e>>
CacheMiss == <<"cache_miss", Absent>>
Frames == {Live(e) : e \in Events} \cup {Replay(e) : e \in Events} \cup {CacheMiss}

(***************************************************************************)
(* Type invariant.  broadcast_conn is held over two steps by the task that *)
(* retries on it, and only by it.                                          *)
(***************************************************************************)
TypeOK ==
  /\ pc \in [Tasks -> SocketPcs \cup RequestPcs \cup SendPcs]
  /\ index \in [Tasks -> Nat]
  /\ entry \in [Nodes -> (SUBSET Sockets) \cup {Absent}]
  /\ subscribed \subseteq Sockets
  /\ frames \in [Sockets -> Seq(Frames)]
  /\ cached \in Seq(Events)
  /\ found \in [Sockets -> Events \cup {Absent, Failed}]
  /\ seen \in [Sockets -> SUBSET Events]
  /\ busy \in [Nodes -> Tasks \cup {Absent}]
  /\ \A n \in Nodes : \A t \in Tasks : busy[n] = t <=> pc[t] = "retry" /\ NodeOf[t] = n
  /\ linked \subseteq Nodes
  /\ inbox \in [Nodes -> Seq(Events)]
  /\ heard \in [Nodes -> SUBSET Events]
  /\ failed \subseteq Events
  /\ joins \in [Sockets -> 0..MaxJoins]
  /\ faults \in 0..MaxFaults

Init ==
  /\ pc = [t \in Tasks |-> IF t \in Requests THEN "check" ELSE "idle"]
  /\ index = [t \in Tasks |-> IF t \in Requests THEN 1 ELSE 0]
  /\ entry = [n \in Nodes |-> Absent]
  /\ subscribed = {}
  /\ frames = [s \in Sockets |-> <<>>]
  /\ cached = <<>>
  /\ found = [s \in Sockets |-> Absent]
  /\ seen = [s \in Sockets |-> {}]
  /\ busy = [n \in Nodes |-> Absent]
  /\ linked = Nodes
  /\ inbox = [n \in Nodes |-> <<>>]
  /\ heard = [n \in Nodes |-> {}]
  /\ failed = {}
  /\ joins = [s \in Sockets |-> 0]
  /\ faults = 0

Goto(t, from, to) == pc[t] = from /\ pc' = [pc EXCEPT ![t] = to]
Event(t) == <<t, index[t]>>
Excepting(e) == IF e[1] \in Sockets THEN e[1] ELSE Batch[e[1]][e[2]]
Fault == faults < MaxFaults /\ faults' = faults + 1

(***************************************************************************)
(* Sending, the same for requests and connections                          *)
(***************************************************************************)
\* Namespace::send_to_channel: under the guard of the channel's entry.
SendLocally(n, e) ==
  /\ frames' = [s \in Sockets |->
       IF entry[n] # Absent /\ s \in entry[n] \ {Excepting(e)}
       THEN Append(frames[s], Live(e)) ELSE frames[s]]
  /\ heard' = [heard EXCEPT ![n] = @ \cup {e}]

\* Mutant: a node does not recognise its own messages.
BroadcastToAll(n, e) ==
  inbox' = [m \in Nodes |-> IF m \in linked THEN Append(inbox[m], e) ELSE inbox[m]]

\* Redis sends a message to every connected node, in one order; the loop of the
\* sender's own node skips it, so it is not put in that inbox.
Broadcast(n, e) ==
  inbox' = [m \in Nodes |-> IF m \in linked \ {n} THEN Append(inbox[m], e) ELSE inbox[m]]

\* Mutant: the guard is dropped after the failed attempt, and others publish
\* while the task is about to try again.
PublishUnlocks(t) ==
  /\ busy[NodeOf[t]] = Absent
  /\ \/ /\ Goto(t, "publish", "fanOut")
        /\ Broadcast(NodeOf[t], Event(t))
        /\ UNCHANGED <<failed, faults>>
     \/ /\ Goto(t, "publish", "retry")
        /\ Fault
        /\ failed' = failed \cup {Event(t)}
        /\ Broadcast(NodeOf[t], Event(t)) \/ UNCHANGED inbox
  /\ UNCHANGED <<index, channelVars, cacheVars, busy, linked, fanOutVars>>

\* RedisPubSub::publish, first attempt, once broadcast_conn is locked.
Publish(t) ==
  /\ busy[NodeOf[t]] = Absent
  /\ \/ /\ Goto(t, "publish", "fanOut")
        /\ Broadcast(NodeOf[t], Event(t))
        /\ UNCHANGED <<busy, failed, faults>>
     \/ /\ Goto(t, "publish", "retry")
        /\ Fault
        /\ failed' = failed \cup {Event(t)}
        /\ busy' = [busy EXCEPT ![NodeOf[t]] = t]
        /\ Broadcast(NodeOf[t], Event(t)) \/ UNCHANGED inbox
  /\ UNCHANGED <<index, channelVars, cacheVars, linked, fanOutVars>>

\* The new connection is refused, or takes the message, which may fail again;
\* the caller logs an error and goes on.
Retry(t) ==
  /\ Goto(t, "retry", "fanOut")
  /\ busy' = [busy EXCEPT ![NodeOf[t]] = Absent]
  /\ Broadcast(NodeOf[t], Event(t)) \/ UNCHANGED inbox
  /\ UNCHANGED <<index, channelVars, cacheVars, linked, failed, fanOutVars, faults>>

\* The local half of send_to_channel, and the next event of the batch.
FanOut(t) ==
  /\ LET more == t \in Requests /\ index[t] < Len(Batch[t])
     IN /\ Goto(t, "fanOut", IF more THEN "cache" ELSE IF t \in Requests THEN "done" ELSE "idle")
        /\ index' = IF more THEN [index EXCEPT ![t] = @ + 1] ELSE index
  /\ SendLocally(NodeOf[t], Event(t))
  /\ UNCHANGED <<channelVars, cacheVars, wireVars, faults>>

(***************************************************************************)
(* HTTP requests                                                           *)
(***************************************************************************)
\* The checks of a request accept it, or answer with an error; a batch without
\* events has nothing to send.
Accept(r) == Batch[r] # <<>> /\ Goto(r, "check", "cache")
Refuse(r) == Goto(r, "check", "done")

\* Mutant: an event is cached after it has been sent, before the next one.
CacheAfter(r) ==
  /\ Goto(r, "cache", "publish")
  /\ cached' = IF index[r] = 1 THEN cached ELSE Append(cached, <<r, index[r] - 1>>)
  /\ UNCHANGED <<index, channelVars, found, seen, wireVars, fanOutVars, faults>>

\* A failing set is ignored.
Cache(r) ==
  /\ Goto(r, "cache", "publish")
  /\ \/ cached' = Append(cached, Event(r)) /\ UNCHANGED faults
     \/ Fault /\ UNCHANGED cached
  /\ UNCHANGED <<index, channelVars, found, seen, wireVars, fanOutVars>>

Request(r) ==
  \/ (Accept(r) \/ Refuse(r))
       /\ UNCHANGED <<index, channelVars, cacheVars, wireVars, fanOutVars, faults>>
  \/ Cache(r)

(***************************************************************************)
(* Connections                                                             *)
(***************************************************************************)
\* add_to_channel, once the checks of the subscribe handler have passed.  What
\* follows up to replay_cache does not touch the channel's entry, and only the
\* task itself reads subscribed_channels; subscription_succeeded is not recorded.
Join(s) ==
  /\ s \notin subscribed
  /\ joins[s] < MaxJoins
  /\ Goto(s, "idle", "listed")
  /\ LET n == NodeOf[s]
     IN entry' = [entry EXCEPT ![n] = IF @ = Absent THEN {s} ELSE @ \cup {s}]
  /\ subscribed' = subscribed \cup {s}
  /\ joins' = [joins EXCEPT ![s] = @ + 1]
  /\ UNCHANGED <<index, cacheVars, wireVars, fanOutVars, faults>>

\* CacheDriver::get; RedisCache turns an error into None.
ReadCache(s) ==
  /\ Goto(s, "listed", "read")
  /\ \/ /\ found' = [found EXCEPT ![s] = IF cached = <<>> THEN Absent ELSE Last(cached)]
        /\ UNCHANGED faults
     \/ Fault /\ found' = [found EXCEPT ![s] = Failed]
  /\ seen' = [seen EXCEPT ![s] = Range(cached)]
  /\ UNCHANGED <<index, channelVars, cached, wireVars, fanOutVars>>

ReplayCache(s) ==
  /\ Goto(s, "read", "idle")
  /\ frames' = [frames EXCEPT ![s] = Append(@,
       IF found[s] \in {Absent, Failed} THEN CacheMiss ELSE Replay(found[s]))]
  /\ UNCHANGED <<index, channelVars, cacheVars, wireVars, heard, faults>>

\* The checks of client_event::handle pass; its webhook is queued.
ClientEvent(s) ==
  /\ s \in subscribed
  /\ index[s] < MaxClientEvents[s]
  /\ Goto(s, "idle", "publish")
  /\ index' = [index EXCEPT ![s] = @ + 1]
  /\ UNCHANGED <<channelVars, cacheVars, wireVars, fanOutVars, faults>>

\* remove_channel and the first half of remove_from_channel.  What the socket was
\* sent is of no further interest.
Unsubscribe(s) ==
  LET n == NodeOf[s]
      rest == IF entry[n] = Absent THEN {} ELSE entry[n] \ {s}
  IN /\ s \in subscribed
     /\ Goto(s, "idle", IF entry[n] # Absent /\ rest = {} THEN "emptied" ELSE "idle")
     /\ subscribed' = subscribed \ {s}
     /\ entry' = [entry EXCEPT ![n] = IF @ = Absent THEN Absent ELSE rest]
     /\ frames' = [frames EXCEPT ![s] = <<>>]
     /\ found' = [found EXCEPT ![s] = Absent]
     /\ seen' = [seen EXCEPT ![s] = {}]
     /\ UNCHANGED <<index, joins, cached, wireVars, heard, faults>>

\* The second half: whoever was listed in between is dropped (see Namespace).
DropEntry(s) ==
  /\ Goto(s, "emptied", "idle")
  /\ entry' = [entry EXCEPT ![NodeOf[s]] = Absent]
  /\ UNCHANGED <<index, subscribed, joins, cacheVars, wireVars, fanOutVars, faults>>

Connection(s) ==
  \/ Join(s) \/ ReadCache(s) \/ ReplayCache(s)
  \/ ClientEvent(s) \/ Unsubscribe(s) \/ DropEntry(s)

(***************************************************************************)
(* The subscriber loop of a node, its connection, and time                 *)
(***************************************************************************)
\* Mutant: a task per received message: a later one can be handled first.
ReceiveAny(n) ==
  /\ \E i \in DOMAIN inbox[n] :
       /\ inbox' = [inbox EXCEPT ![n] = RemoveAt(@, i)]
       /\ SendLocally(n, inbox[n][i])
  /\ UNCHANGED <<taskVars, channelVars, cacheVars, busy, linked, failed, faults>>

Receive(n) ==
  /\ inbox[n] # <<>>
  /\ inbox' = [inbox EXCEPT ![n] = Tail(@)]
  /\ SendLocally(n, Head(inbox[n]))
  /\ UNCHANGED <<taskVars, channelVars, cacheVars, busy, linked, failed, faults>>

\* Redis keeps nothing for a subscriber that is not connected.
Disconnect(n) ==
  /\ n \in linked
  /\ Fault
  /\ linked' = linked \ {n}
  /\ inbox' = [inbox EXCEPT ![n] = <<>>]
  /\ UNCHANGED <<taskVars, channelVars, cacheVars, busy, failed, fanOutVars>>

Reconnect(n) ==
  /\ n \notin linked
  /\ linked' = linked \cup {n}
  /\ UNCHANGED <<taskVars, channelVars, cacheVars, busy, inbox, failed, fanOutVars, faults>>

\* cache_ttl has passed since the last set.
Expire ==
  /\ cached # <<>>
  /\ Fault
  /\ cached' = <<>>
  /\ UNCHANGED <<taskVars, channelVars, found, seen, wireVars, fanOutVars>>

Next ==
  \/ \E t \in Tasks : Publish(t) \/ Retry(t) \/ FanOut(t)
  \/ \E r \in Requests : Request(r)
  \/ \E s \in Sockets : Connection(s)
  \/ \E n \in Nodes : Receive(n) \/ Disconnect(n) \/ Reconnect(n)
  \/ Expire

Spec == Init /\ [][Next]_vars

(***************************************************************************)
(* Properties                                                              *)
(***************************************************************************)
\* A subscriber misses nothing between the past the replay stands for and the
\* live stream: an event is cached before it is sent, and a socket is listed
\* before it reads the cache.  So every unexpired cached event its node has
\* fanned out either came live, or was cached no later than the value
\* replay_cache read.  Said of a socket that is still listed, has finished its
\* subscription, and whose read of the cache did not fail
\* (src/http/routes/events.rs trigger, src/websocket/events/subscribe.rs).
Listed(s) == entry[NodeOf[s]] # Absent /\ s \in entry[NodeOf[s]]
Settled(s) == s \in subscribed /\ Listed(s) /\ pc[s] \in {"idle"} \cup SendPcs
NoGapAtJoin ==
  \A s \in Sockets : Settled(s) /\ found[s] # Failed =>
    \A e \in Range(cached) \cap heard[NodeOf[s]] :
      Excepting(e) # s => Live(e) \in Range(frames[s]) \cup {Live(x) : x \in seen[s]}

\* The events of one task arrive in the order it sent them, on every node and
\* with retried publishes too: a handler awaits each publish, the retry
\* included, and the subscriber loop applies one message at a time.
SenderOrder ==
  \A s \in Sockets : \A p, q \in DOMAIN frames[s] :
    LET f == frames[s][p]
        g == frames[s][q]
    IN p < q /\ f[1] = "event" /\ g[1] = "event" /\ f[2][1] = g[2][1] => f[2][2] <= g[2][2]

\* A subscriber gets an event twice only if its publish returned an error: a
\* node does not fan out its own broadcasts again (listen skips them).
TwiceOnlyAfterError ==
  \A s \in Sockets : \A p, q \in DOMAIN frames[s] :
    p # q /\ frames[s][p] = frames[s][q] /\ frames[s][p][1] = "event" => frames[s][p][2] \in failed

(***************************************************************************)
(* What the documentation says and the code does not do                    *)
(***************************************************************************)
\* README.md:640: a cache channel "replays the last event to new subscribers":
\* a replay does not follow an event that was cached after the replayed one.
\* In the code an event that is cached and sent after replay_cache has read is
\* overtaken by the replay.
ReplayIsLast ==
  \A s \in Sockets : \A p, q \in DOMAIN frames[s] :
    p < q /\ frames[s][q][1] = "replay" /\ frames[s][p][1] = "event"
      => frames[s][p][2] \notin Range(cached) \ seen[s]

=============================================================================
