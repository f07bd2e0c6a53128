# rushsocket in TLA+

A specification of [rushsocket](../src/README.md), a Pusher-protocol WebSocket server
written in Rust (tokio, DashMap, optional Redis): TLA+ modules for the parts whose
correctness depends on interleavings, failures and timing; TLC configurations that
check them on small instances; TLAPS proofs that hold for instances of every size.
Source paths below are relative to `src/src/`.

```
tlc -workers 2 -config MCSockets.cfg MCSocketTasks     # model-check a run
tlapm SocketTasksProofs.tla                            # check proofs
```

## 1. The system

One process serves many apps. Every client connection is a tokio task
(`websocket/mod.rs: run_connection`). All tasks share, per app, a *namespace* of
concurrent maps (`adapter/namespace.rs`); HTTP handlers publish through the *adapter*
(`adapter/local.rs`, or `adapter/redis/` for several nodes); webhooks go to one
background worker per app (`webhook/mod.rs`).

```
 client <-> connection loop --- handlers ---> namespace (DashMaps, counter)
              ^ bounded queue, flag   |              ^ local
 HTTP API ----+-- fan-out ------------+--> adapter --+
 terminate ---+                       |              | redis: hashes, key per channel,
                                      v              v        statistics, pub/sub
                              webhook worker --> receiver
 server: admission, counters, stats timer, shutdown  (around all of it)
```

| Part | State | Operations | What makes it hard | What makes it correct |
|---|---|---|---|---|
| Namespace registry, `adapter/namespace.rs` | maps sockets, channels, reverse index, presence, users; `connection_count` | `try_add_socket`/`add_socket`/`remove_socket`, `add_to_channel`/`remove_from_channel`, `try_add_`/`remove_presence_member`, `add_user`/`remove_user` | each operation takes several map guards one after the other; removal of an emptied entry happens after its guard was released; a weak CAS loop | counter = slots in use; no reference to a socket that is gone; no empty entry left; limits |
| Socket tasks, `websocket/lifecycle.rs`, `events/*` | per connection: channels, presence, user | subscribe, unsubscribe, signin, `on_close` | handlers of many sockets interleave between two map operations; webhooks are sent after the update they report | everything a connection registered is removed; `member_removed` never ahead of `member_added`; closing completes |
| Presence roster, `events/subscribe.rs`, `events/unsubscribe.rs` | what a client of a presence channel has been told | member list, `member_added`, `member_removed` | the list is taken before the socket joins and queued after it; events are sent after the change | list and later events agree with the registry |
| Connection loop, `websocket/mod.rs`, `connection.rs` | outbound queue (512), `force_close`, `pinged`, deadline | `select!` over socket, queue, deadline; `send_raw`; terminate | a full queue drops messages; one timer for two timeouts; the flag is polled between iterations only | no gap visible to the client; no early timeout; flagged connections end |
| Webhook worker, `webhook/mod.rs` | queue, batch, attempt | collect, flush with retries, close | lost answers, retries, shutdown | order, no silent loss, everything sent is settled |
| Redis readiness and discovery, `adapter/redis/pubsub.rs` | `subscribed`, `generation`, `known_nodes` | `listen`, `subscribe_loop`, `discover_peers`, `heartbeat_loop`, `record_peer` | discovery tasks of lost connections are still running; a publish reaches only who is subscribed; messages die with the connection | only the running connection's task passes the check; readiness recovers; nodes that have asked know each other |
| Node statistics and requests, `adapter/redis/mod.rs`, `pubsub.rs` | statistics keys with a time to live, pending table | write, expire, read; request, answer, timeout | dead nodes stay known; a number of answers is expected, not a set | live nodes counted, dead ones forgotten; requests end |
| Redis presence, `adapter/redis/mod.rs` | hash of members, hash of socket counts, `cmd_conn` mutex | `try_add_presence_member`, `remove_presence_member` as command sequences | commands of several nodes interleave; errors are swallowed; a crash leaves keys | a user without sockets goes; every path gives the mutex back |
| Redis occupancy, `adapter/redis/mod.rs`, `pubsub.rs` | one key per channel, pending request, known peers | SETNX, cross-node count query, DEL | the query, DEL and webhook are separate steps; dead peers; timeouts | no steady subscriber is overlooked; the key goes when everybody left |
| Event delivery, `http/routes/events.rs`, `batch_events.rs`, `events/client_event.rs`, `cache/*`, broadcasts of `adapter/redis/` | last event per channel, `broadcast_conn` mutex, messages in flight | set, publish (and retry), local fan-out; receive; replay on subscribe | publishing races subscribing; errors that hide a success; lost connections | no gap between replay and live stream; sender's order; no duplicate without an error |
| Server, state, metrics, `server.rs`, `state.rs`, `metrics/mod.rs` | connection counters, sampled memory, snapshot, `closing` | admission, count up and down, sample, publish, drain, grace | early returns between counting up and down; a stale sample; two timers; clients that stay | counters agree with the registry; high memory refuses; a signal ends the process |
| Rate limiter, wire protocol, authentication, configuration | – | – | library code, pure functions, start-up | not modelled, see section 8 |

`PROJECT.json` holds the same inventory with the hazards, each at the line where it
bites and with the properties that cover it.

## 2. Modules

| Module | Models | Built on |
|---|---|---|
| `Namespace` | registry of one app: state and one operator per *atomic* map operation | – |
| `SocketTasks` | the tasks of all sockets over the registry, from admission to `on_close` | EXTENDS `Namespace` |
| `PresenceRoster` | what the clients of a presence channel are told by those tasks | EXTENDS `SocketTasks` |
| `ConnectionLoop` | the `select!` loop of one connection with its senders, client and clock | – |
| `WebhookContract` | abstract promise of the worker to the receiver | – |
| `WebhookWorker` | batching, retries, shutdown; implements the contract | INSTANCE `WebhookContract` |
| `Readiness` | listener and discovery tasks of one node; what `Discovery` implements | – |
| `Discovery` | that node with the messages between it and its peers | EXTENDS `Readiness` |
| `NodeQueries` | statistics keys, heartbeats and requests, in time | – |
| `RedisPresence` | one presence channel over nodes and Redis, one command per step | – |
| `RedisOccupancy` | one channel's occupancy key, peers' registries, count query | – |
| `Delivery` | events of a cache channel: requests, client events, cache, broadcast, subscriptions | – |
| `Server` | admission frame, counters, stats timer, two-phase shutdown | – |
| `SocketTasksProofs` (`SocketTasks`, `PresenceRoster`), `ConnectionLoopProofs`, `PubSubProofs` (`Readiness`, `Discovery`, `RedisOccupancy`), `WebhookProofs`, `RedisPresenceProofs`, `DeliveryProofs`, `ServerProofs`, `NodeQueriesProofs` | theorems and proofs | EXTENDS the modules they are about |
| `MCSocketTasks`, `MCPresenceRoster`, `MCRedisPresence`, `MCRedisOccupancy`, `MCDelivery`, `MCServer` | sets, node assignments and symmetry for TLC | – |

Three refinements are stated: `PresenceRoster` implements `SocketTasks` (its steps are those of
the tasks, or queue a list for a client), `WebhookWorker` implements `WebhookContract` (over the
sequence of posts that reach the receiver), and `Discovery` implements `Readiness` (its variables are a
subset, and steps that only send or receive are stutters). All are proved.

### How state and steps correspond to the code

**Namespace.** A DashMap is a total function plus the set of its keys, because a key
with an empty value and a missing key behave differently. One operation under one shard
guard is one atomic operator; `remove_from_channel`, `remove_presence_member` and
`remove_user` release the guard before they remove the emptied entry, so each is two
operators (`RemoveFromChannel`, `DropChannel` and so on). `DropChannel` takes the whole
entry with it, whatever was added in between – as `DashMap::remove` does.

**SocketTasks.** `pc[s]` names the next shared operation of the task of `s`; the local
variables of the running handler are `seen`, `cur`, `arg`, `flag`, `todo`. State that only
the task itself touches (`conn.subscribed_channels`, `conn.presence`, `conn.user`) changes
together with the neighbouring shared operation. `Leave...` is shared by unsubscribe and
`on_close`, as the functions it stands for are. Admission is the CAS loop of
`try_add_socket` (`LoadCount`, `CasSucceeds`, `CasFails` – the exchange is weak and may
fail spuriously – `Register`), or `Register`, `Count` without a limit. Removal decrements
in a step of its own. Webhooks are steps, recorded as the last occupied/vacated event per
channel and as numbers of member events. Requests refused before any state changes are
left out.

**PresenceRoster.** Each step of `SocketTasks` with its effect on frames. `snapshot[s]` is
the list `try_add_presence_member` returned, `owes[s]` the channel whose
`presence_subscription_succeeded` is still to be queued (`SendList`), `view[s][c]` the
roster a client has built from the frames queued for it. Member frames go to whoever is
listed in the channel at that moment, the sender excepted. `missed` and `contended` are
history variables: an event that came between the list being taken and queued and
contradicts it; a user with two changes in flight at once, or dropped with an entry that was
found empty earlier. They name the two ways in which the code's rosters do go wrong, so that
`RosterAccurate` can say that there is no third.

**ConnectionLoop.** `pc` is the place in the loop: `top` (flag test), `select`, `handler`,
a `write...` while `sink.send` is awaited, `cleanup`. `select!` picks any ready branch.
Messages are numbered as they are offered; `written` counts those the client has got, so
a gap is visible. `timer` counts down to `activity_deadline`; `Tick` may happen during
handlers and writes. `idle` and `overrun` are history variables.

**WebhookWorker.** Events are numbered; queue, batch and settled events are intervals
between counters. A failing post may or may not have reached the receiver; `posted` is the sequence
of those that do, in the order in which they are made (one that times out may arrive later than
that). `Kill` drops the task anywhere.

**Readiness.** `listener` walks through `listen` and `subscribe_loop`: clear flag, bump,
subscribe, announce, capture and spawn, read, clear, bump, sleep. Every attempt's discovery
task is kept, since old ones are never cancelled. Load of the generation and store of the
flag are two steps, as in the code.

**Discovery.** A peer runs the same code; of its tasks only the order subscribe, announce,
discover is kept (`peer[p]`). `inbox` and `peerInbox` hold what waits on a subscription
connection, as a set per sender of the two kinds of message that matter: any `word` makes its
sender known, a `request` is answered too. A publish reaches the nodes subscribed at that
moment and no other; it may fail (`lostTo`, `lostFrom`: whose last publish did). A connection
that ends takes its inbox along. `known` tells entries of `known_nodes` heard of on the
current connection from older ones; `Prune` drops an entry when its node can have been silent
for two heartbeat intervals. There is no clock.

**NodeQueries.** Here there is one. `Tick` adds one to all ages, when nothing that is due is
left to do. `writeAge` and `beatAge` are the timers of the peer's two loops, `keyAge` the age
of its key in Redis, `seenAge` the age of its entry here; `misses` counts the writes that
failed in a row, `silent` holds the peers whose last heartbeat was lost, `deadFor` the time
since a peer stopped. The request keeps the set of peers known when it was made
(`callKnown`), of which the code keeps the number (`Expected`), the peers it was delivered to
(`reached`) and those that have answered (`got`).

**RedisPresence.** Every Redis command is a step. A node's tasks take turns through
`lock[n]` (`cmd_conn`), held from the first command of an operation to the last. A failing
write may have been applied; each `unwrap_or` is modelled by its default. A crash forgets
the node's tasks and leaves its keys. Failed commands and crashes share one bound,
`MaxFaults`. `Operate` are the steps of the task that holds the mutex, `Fetch` is the second
time an add takes it.

**RedisOccupancy.** `entry`/`local` are the channel's entry in each node's registry (with
the two-step removal), `flag` the key, `expected`/`answered`/`found` the pending request.
A peer's count and the receipt of its response are one step: a late receipt is a late step,
or a timeout. A request that times out yields no responses at all, as in `pubsub.rs`, and
the sum over none is zero; with the answer, the timeout or the crash its entry in the pending
table is gone (`RemovePending`). `tookAlong` notes that the removal of an entry found empty
dropped a subscriber with it. `Presence = TRUE` models the presence branch, which sends
`channel_occupied` on the local result alone.

**Delivery.** A task is an HTTP request with its batch, or a connection; both send through
the same `Publish`, `Retry`, `FanOut` (`RedisAdapter::send_to_channel`: broadcast first,
local fan-out second). `busy[n]` is the mutex of `broadcast_conn`, which matters only over a
retry. `cached` is the sequence of events set since the last expiry, of which the code keeps
the last; `seen[s]` is that sequence when `replay_cache` read. `frames[s]` holds events,
replays and misses since the socket was listed; `subscription_succeeded` is not recorded. A
batch without events sends nothing and is over. A
failed publish has reached Redis or not when the error is returned; a command of a broken
connection is not executed later. A node's own messages, which its loop skips, are not put
in its inbox. A single node with the memory cache is the instance with one node: its inbox
stays empty.

**Server.** A connection is a slot that is used again once its task has returned; `pc[s]`
names the place between the memory check and the last counter, with the early return after a
greeting that could not be sent. `connected` and `appConnected` are the two counters of
`Metrics`, moved in separate steps; `registered` is the adapter. `timer` is the stats task
(metrics enabled) or the memory sampler (disabled): `cachedUsage` is its last sample,
`snapshot` what the last published statistics say of `closing`. `phase` is `server::run`:
serving, drain period (`elapsed`), grace period, stopped; `http` counts the requests
`graceful_shutdown` waits for. What a connection does while it is open is the subject of
`SocketTasks` and `ConnectionLoop`.

## 3. Runs

All bounds are constants of the modules and are named there as bounds.

| Run | Instance | States | Shows |
|---|---|---|---|
| `MCSockets` | 3 sockets for 2 slots, a public channel and a presence channel for 1 member, 2 users, 2 requests each | 2 230 624 | counter and limit through the CAS races; no ghost in a channel; the index is empty at removal |
| `MCRoster` (`PresenceRoster`) | 2 sockets, 2 users, a public and a presence channel, 3 requests | 2 835 537 | members have live owners; order of member events; the clients' rosters; types |
| `MCUsers` | 2 sockets, both kinds of channel, signin, no connection limit, 2 requests; fairness | 180 176 | entries found empty are removed; closing completes |
| `MCLoop` | queue of 2, ping 2, pong 1 ticks, 4 messages, 2 frames; fairness | 81 177 | gaps, overrun, timeouts, flagged connections |
| `MCWebhook` | 3 attempts, 3 events; fairness | 6 540 | loss, settlement, refinement of `WebhookContract` |
| `MCReadiness` (`Discovery`) | 2 connection attempts, a peer; fairness | 242 292 | generation check, recovery, who knows whom |
| `MCRedisPresence` | 2 nodes, 3 sockets (2+1), 2 users for 1 member, one fault; fairness | 411 616 | counts too high by failed commands only; last socket removes the user; exact when operations take turns; the mutex becomes free |
| `MCOccupancy` | 3 nodes, two sockets on one and one on another, one error, one timeout, one crash | 391 640 | the query overlooks no steady subscriber; the key is deleted |
| `MCDelivery` | 2 nodes with a subscriber each, a batch of 3 (the last excludes the remote subscriber), a client event, one fault | 1 375 987 | no gap at the join, sender's order, duplicates only after an error |
| `MCServer` | 2 connections, 2 apps for one connection each, 1 request in flight, drain of 2 intervals; fairness | 99 328 | counters, memory check, shutdown |
| `MCQueries` (`NodeQueries`) | 2 peers, statistics every unit for 3, heartbeats every 2, timeout 1; fairness | 291 888 | live and dead nodes, complete answers, convergence, requests end |

One run exhibits a behaviour that contradicts what the repository says
(`expect: violation`): `MCLostSubscriber`. The other divergences are in section 6.

**Why the bounds are enough.** The races in the registry are between the two halves of one
task's removal and one operation of another task, and a third task profits or suffers:
three sockets and two requests each (join and leave again) give every such order, and two
users compete for a member limit of one. A limit of two slots with three sockets lets two
tasks race for the last slot while a third releases one. A client's roster is followed by
one socket while the other joins, leaves and joins again: three requests. Three nodes are
needed where a query must wait for *all* peers; two nodes show every race on a shared Redis
key. Two attempts are a lost connection and its successor, one peer both orders of coming up
(the theorems of `PubSubProofs` hold for any number of either). Three events and one
subscription per socket put a join before, between and after the cached events, with two
events to compare at either subscriber; the client event contends with the batch for the
publishing connection. A queue of two shows full, partly full and empty; ticks only matter
relative to each other: ping, pong and announced activity timeout in `MCLoop`; in
`MCQueries` a time to live of three intervals (as 15 s and 5 s) and a threshold of two
(60 s and 30 s). Two slots of two apps put one task between its two counters while another
is anywhere. One fault of each kind is the interesting number: properties that are promised
only without faults say so (`NoFaults`), the others must survive it; where there is no bound
on faults (`Discovery`, `NodeQueries`, `Server`), there is none in the system either. Every
action and every disjunct of the next-state relations is taken in some passing run. Deadlock
checking is off, since all instances are finite: a system whose clients have used up their
requests really stops.

**Properties and mutants.** Each property of a passing run has a mutant in `PROJECT.json`:
an operator in the same module, commented `Mutant:`, that stands for a plausible mistake in
the mapped code (a forgotten `fetch_add`, `>` for `>=`, a guard dropped too late
or too early, a buffer that is not emptied) and makes TLC report that property.

## 4. Properties worth a word

* `ConnectionAccounting` relates counter and map to the tasks between their two updates. It
  is what makes `AdmissionLimit` true, and that `fetch_sub` never wraps.
* `NoGhostSubscriber`: a fan-out never names a closed connection, although the index and the
  channel are updated under different guards.
* `IndexEmptyAtRemoval`: `on_close` throws away the list of channels `remove_socket` reports
  as vacated. That is harmless only because nothing can be left in the index.
* `NoGhostMember`: a listed member always has a live task that will remove it. The converse
  (a subscriber is listed) is false in the code.
* `MemberRemovedAfterAdded`: the events of a user's sockets interleave; still a
  `member_removed` is covered by an earlier `member_added`.
* `EmptyEntryIsTransient`: an entry without content always has a task about to remove it. What
  is lost with an entry that is removed too late is another question (section 6).
* `CloseCompletes` starts when `on_close` is called; `sink.close`, which comes before it and may
  wait for the peer, is a step of `ConnectionLoop`.
* `RosterAccurate`: a client replaces its roster by the list and follows the events. Because
  a list is queued by the task that took it, after that task has joined the channel, a client
  and the registry agree about every user, except those whose own changes overlapped or came
  between the list being taken and queued.
* `NoGap`: once a message was dropped for a full queue, none of the later ones is written,
  because every later message finds the queue full until the flag is read. This hinges on
  where the flag is tested.
* `StaleOnlyAfterTimeout`: one timer is reused for ping interval and pong timeout.
* `ImplementsContract`: what the receiver sees is a sequence of posts, repeated ones included.
  A retry may repeat the batch as it was, `Attempts` times in all; no post is made with an
  event that was delivered or given up before, and none skips an event that was not.
* `MatchMeansConnected`, `ReadinessRecovers`: the generation protocol of reconnects.
* `NobodyMissed`: a publish reaches only those subscribed, so of two nodes that come up
  together the one that asks second finds the other; it needs SUBSCRIBE before the request
  on both sides, on every connection. `PeersMeet`: heartbeats repair lost messages.
* `LiveNodeCounted`, `DeadNodeForgotten`: two clocks (time to live, stale threshold) against
  two timers, with one failure allowed. `CountConverges` is their liveness.
* `CompleteCoversKnown`: waiting for a *number* of answers is as good as waiting for the set
  whose size it was, as long as nobody else got the request.
  `RequestReturns` starts once the request is published.
* `CountIsNoOverestimate`, `NoGhostMember` (Redis): interleaved HINCRBY/HDEL of two nodes
  lose counts but never invent any, so while commands are answered nobody stays
  listed for good. A failed decrement does leave a count too high, and its user listed; by one
  per failure, and no more whatever follows. `ExactInTurns`: as long
  as operations on the hash did not overlap, nothing is lost either; it checks the order of the
  commands and the clean-up, not the interleavings of two nodes. `ConnectionReleased`: the
  mutex of the connection becomes free again after every path. `try_add_presence_member` locks
  it twice, so without its `drop(conn)` it would wait for itself.
* `VerifiedVacated`, `FlagDeleted`: the cross-node query, without a snapshot, is still
  sufficient; the last leaver deletes the key even after a timeout, unless a subscriber was
  dropped with its entry before (`MCStuckKey`).
* `NoGapAtJoin`: set before send and list before read together close the window at a join,
  on every node; either order reversed opens it.
* `SenderOrder`, `TwiceOnlyAfterError`: a retry can duplicate a message but stays within the
  sender's turn.
* `CountersMatchRegistry`: `on_connect`/`on_disconnect` bracket the registration on every
  path, the early return included. `MemoryRefuses`: whichever of the two timers runs, the
  sample follows the usage. `ServerStops`: nobody who stays can keep the process.

## 5. Fairness

* `SocketTasks!FairSpec`: weak fairness of each task's steps other than new requests. tokio
  polls a task that can run; map operations do not wait for one another for good.
* `ConnectionLoop!LiveSpec`: weak fairness of the loop, the clock, the second half of the
  terminate call, and of the steps that wait for the peer, `sink.send` and `sink.close` (it reads,
  or its connection breaks).
  `StalledPeerSpec` drops the last: TCP does not promise that a peer reads.
* `WebhookWorker!FairSpec`: weak fairness of the worker: timers fire, a request returns
  within its client timeout of 5 s. `MaxEvents` bounds what is sent: under an endless stream of
  events the `select!` of the worker, which polls the queue first, need never take its timer, and
  the batch would grow without being posted.
* `RedisPresence!FairSpec`: weak fairness, per node, of the task that holds `cmd_conn`: every
  command that is sent returns, with an answer or an error. No task is assumed to get the mutex
  (tokio's is first come, first served, so whoever waits gets it once it is always released).
* `Discovery!FairDiscovery`: weak fairness of the listener's steps, of the discovery tasks,
  of reading on both sides and of heartbeats (an endless loop over a timer). Failures are
  not fair: they need not happen. `ReadinessRecovers` and `PeersMeet` assume a connection that
  stays up, and `PeersMeet` that the last publish in either direction did not fail.
* `NodeQueries!FairSpec`: weak fairness of the peers' loops and of the request's own steps,
  strong fairness of time, which requests made again and again disable for a moment but do
  not stop. No answer is ever assumed.
* `Server!FairSpec`: weak fairness of each task, the timer and the shutdown sequence; a
  sample is taken or fails, and one taken again and again succeeds at some point (strong
  fairness of `SampleMemory`; `/proc` is readable).

Clients, HTTP calls, crashes, signals and errors are never assumed to happen.

## 6. Divergences

Where the repository says more than the code does, the property is defined at the end of
the module under "What the documentation says and the code does not do". The first one is a
run of the project. The others are reproduced with the cfg named (each gives a short
counterexample; where a cfg names two properties, `tlc -continue` reports both):

| cfg | Property | Counterexample | Repository |
|---|---|---|---|
| **`MCLostSubscriber`** | `EverySubscriberReached` | a socket joins a channel after another task found the entry empty and before it removes it (`adapter/namespace.rs:122`): it is told `subscription_succeeded` and gets nothing | `adapter/mod.rs:44` |
| `MCStalledPeer` | `SlowConsumerCloses` | while the loop awaits `sink.send` to a peer that does not read, neither flag nor deadline is looked at (`websocket/mod.rs:244`) | README:652 |
| `MCRedisLostMember` | `MemberListed` | another node's HINCRBY and HSET fall between HINCRBY and HDEL (`adapter/redis/mod.rs:504`) | README:406 |
| `MCOverAdmission` | `NoOverAdmission` | a member added between the halves of `remove_presence_member` is forgotten and replaced by another | README:664 |
| `MCStaleRoster` | `RosterComplete` | a member that joins after the list was taken announces itself before the list is queued; the list overwrites it (`events/subscribe.rs:186`) | README:403 |
| `MCStaleUser` | `UserMappingRemoved` | a second signin leaves the first user's mapping behind for good (`events/signin.rs:89`) | `websocket/lifecycle.rs:88` |
| `MCLostUser` | `SignedInIsFound` | a signin between the halves of `remove_user` is lost for the terminate API | `adapter/mod.rs:115` |
| `MCFalseVacated` | `VacatedIsTrue` | vacated of the leaver is queued behind occupied of the joiner | README:389 |
| `MCLoopDocs` | `NoResponseWhenStale` | `select!` takes the expired deadline although the pong is in the inbox | `websocket/mod.rs:253` |
| `MCLoopDocs` | `IdleUntilActivityTimeout` | `activity_timeout` is only announced; the server closes after ping interval and pong timeout | README:247 |
| `MCWebhook`, with this property | `RetriesAsDocumented` | three attempts with backoffs of 2 s and 4 s; never 8 s | README:360 |
| `MCReadinessDocs` (`Readiness`) | `StaleTaskNeverFlips` | generation is loaded, the connection is lost, the flag is stored | README:668 |
| `MCReadinessDocs` (`Readiness`) | `ReadyMeansDiscovered` | a failed publish counts as discovery | README:462 |
| `MCDiscarded` (`NodeQueries`) | `AnswersReported` | the answers that arrived before the timeout are dropped with the pending entry (`pubsub.rs:218`) | `pubsub.rs:166` |
| `MCRedisLimit` | `PresenceLimit`, two nodes | two nodes pass HLEN together (`adapter/redis/mod.rs:453`) | `adapter/mod.rs:83` |
| `MCRedisCrash` | `RemovedWhenGone` | members of a crashed node stay; the keys have no expiry | README:530 |
| `MCVacatedTwice` | `VacatedOnce` | two last leavers see zero and both announce it; the answer of DEL is ignored | README:534 |
| `MCVacatedCrash` | `VacatedMeansEmpty` | a dead peer makes the query time out; no answers are taken for no subscribers | README:391 |
| `MCStuckKey` | `KeyDeleted`, two sockets on a node | a subscriber lost to the two-step removal leaves without a query, the key stays | README:534 |
| `MCSilentOccupied` | `OccupiedIsTrue` | SETNX finds a key that is about to be deleted | README:388 |
| `MCOldReplay` | `ReplayIsLast` | an event is cached and sent between `cache.get` and the replay: the subscriber gets the newer event first and the older one last (`events/subscribe.rs:260`) | README:640 |
| `MCOccupiedTwice` | `OccupiedOnce` | the presence branch does not ask Redis | README:391 |
| `MCServerDocs` | `ClosedCleanly` | the process ends with open connections; their tasks are dropped without `on_close` (`server.rs:154`) | README:67 |
| `MCServerDocs` | `StatsKeepUp` | the stats task ends at the first tick after the signal, so the last snapshot never says that the server is closing (`server.rs:90`) | README:491 |

README:542 says presence limits are per node; `redis/mod.rs:451` checks "global member
limit via Redis". The model follows the code. `FlagDeleted` is `KeyDeleted` without the local race
of `MCStuckKey` (`tookAlong`), so that it does not hide the cross-node question.
A request may also complete with the answer of a node that was not known when it was made in
place of one that was (`AllKnownAnswered` in `NodeQueries`); `CompleteCoversKnown` names the
condition under which it cannot.

## 7. Proofs

Checked by `tlapm`, from the definitions the runs use. All theorems are about every value of
the constants that satisfies the named assumptions of the modules (finite sets where
something is counted, `NoUser` and `NoChannel` outside their sets, numeric limits; TLC
evaluates them in the runs).

| Module | Holds for | Theorems | Inductive invariant |
|---|---|---|---|
| `SocketTasksProofs` | every finite set of sockets and users, any channels, every limit and request bound | `AdmissionInvariant`, `TypeCorrect`, `AccountingCorrect`, `LimitRespected`; `IndexInvariant`, `NoGhosts`, `IndexEmpty`; `MembersAreOwned`; `NoEmptyEntryStays` (with `MaxMembers > 0`); `RemovedAfterAdded`; `RosterImplementsTasks`, `RosterInvariant`, `RostersAreAccurate` | `AdmissionInv`, `IndexInv`, `MemberInv`, `EntryInv`, `EventInv`; `ListInv`, `RosterInv` |
| `ConnectionLoopProofs` | every queue capacity, number of messages and interval | `LoopInvariant`, `NoGaps`, `OneOverrun`, `NeverTooEarly` | `Inv` |
| `PubSubProofs` | any number of connection attempts and peers | `ReadinessInvariant`, `TypeCorrect`, `MatchIsConnected`; `ImplementsReadiness`, `MatchIsConnectedHere`; `DiscoveryInvariant`, `NobodyIsMissed` | `Inv`, `DiscoveryInv` |
| | every finite set of nodes and sockets, any number of errors, timeouts and crashes | `OccupancyTypes`, `OccupancyInvariant`, `QueryOverlooksNobody`, `LastLeaverDeletes` | `OccupancyInv` |
| `DeliveryProofs` | any number of nodes, requests, connections and faults, every batch | `TypeCorrect`, `FlowInvariant`, `InSendersOrder`, `DuplicateMeansError`; `NothingMissedAtJoin` | `FlowInv` (with types and places), `Followed` |
| `WebhookProofs` | any number of attempts and events | `WorkerInvariant`, `NothingLostSilently`, `WorkerImplementsContract` | `Inv` |
| `RedisPresenceProofs` | any number of nodes, every finite set of sockets, every finite set of users, any number of errors and crashes | `PresenceInvariant`, `LockCorrect`, `NoOverestimate`, `NoGhosts`; `ExactBetweenTurns` | `Inv`, `TurnsInv` |
| `ServerProofs` | any number of apps, every finite set of connections, every limit | `ServerInvariant`, `TypeCorrect`, `CountersMatch` | `Inv` |
| `NodeQueriesProofs` | every finite set of peers, all intervals with `2 * StatsInterval < StatsTtl` | `QueriesInvariant`, `TypeCorrect`, `LiveNodesCounted`, `DeadNodesForgotten`, `CompletionCoversKnown` | `Inv` |

**SocketTasksProofs.** `TypeOK` is not inductive: that the counter stays in `Nat` when it
is decremented needs `ConnectionAccounting`, and that a handler's channel and user are
proper values needs to know where the handler is. The invariant is
`AdmissionInv == TypeOK /\ CallOK /\ ConnectionAccounting /\ ReservationOK`:
`CallOK` ties `cur` and `arg` to `pc`; `ConnectionAccounting` says
`connectionCount = Cardinality(Counted)`; `ReservationOK` says that a task about to
exchange has seen a value below the limit and that the counter is within the limit. The
handlers' steps do not touch any of the sets (`HandlingIsNeutral`); the admission and
removal steps move one socket into or out of `Counted` (`SetsStep`, `AccountingStep`, with
the cardinality theorems of the library). For the reverse index, `IndexOwned` says that
every channel in it is one the task still remembers (the connection's own set, or what is
left of the list `on_close` goes through) or is leaving at the moment, so that nothing is
left at removal; `NoGhostSubscriber` is inductive with it.

On these two rest three more. `MemberInv`: `NoGhostMember` is inductive once a task at its
end remembers nothing and a joining one does not have the channel yet. `EntryInv`: every step
that empties an entry is the one that sends its task on to remove it; a refused presence
subscription creates an entry too, which is not empty as long as the limit is positive – a
limit of 0 is the one case in which an empty entry would stay, and the theorem says so.
`EventInv` counts: removals sent, plus tasks that have still to send one (`Removing`), plus
one for a user whose present sockets have no announcement outstanding (`Announced`), are at
most the additions sent. The last term is what the leaver of the last socket turns into its
own; an unguarded removal of the entry only lets it go.

**SocketTasksProofs: rosters.** Every step of `PresenceRoster` is a step of `SocketTasks` or
leaves its variables alone (`RosterImplementsTasks`), so the invariants above hold there too.
`RosterAccurate` speaks of moments with no change of the user in flight; `RosterInv` follows one
user through a change. `Told` is what the client takes the members to be, the list on its way
included, and `Follows` says who keeps up with the channel. Unless the user is in `contended`,
one task at most has a change of it to announce; the registry already shows the change; if it
is an addition, the announcing client's own list shows it too, since that client gets no event
of its own. Then the event brings everybody else in line at once: who has sent off its list is
listed in the channel and receives it, and who has not either has a list that agrees with the
event or is noted in `missed`. `ListInv` ties the list that is owed to the place of the task
and says that member events are announced only by handlers that changed the members. Seven
lemmas, one per kind of step; `UserKept` is the part they share.

**ConnectionLoopProofs.** `NoGap` needs to know that the queue, until the connection is
flagged, holds all messages from the last one taken to the last one offered (`Contiguous`),
and that afterwards the one in front is still the next (`NextIsFirst`): a message is only
dropped when there is one in front of it. `Timers`: what the timer has run and has still to
run make up the interval it was set to, so it cannot expire before the client was silent for
as long. `Overrun`: a flagged loop that handles a frame does not come back to `select!`.

**PubSubProofs: readiness.** `MatchMeansConnected` speaks of the tasks that match now;
the invariant must exclude that an old task matches later. `Generations` gives the
generation as a function of attempt and place (two bumps per attempt), bounds every captured
generation by it, and makes it strictly smaller for every task but the running
connection's.

**PubSubProofs: discovery.** Every step of `DiscoverySpec` is a step of `Readiness` or leaves its
variables alone, so its theorems carry over. `NobodyMissed` is inductive together with types
and `Fresh`: a request is published only by a task of the running attempt or before, and a
task exists only once the attempt has announced itself. Each peer is followed on its own
(`Told`, `ToldPeer`): whoever asks second asks a node that is subscribed; a message that is
read leaves its sender known, and a request an answer or a mark in `lostTo`/`lostFrom`;
a node is only forgotten when nothing of it arrives.

**PubSubProofs: occupancy.** A query does not take a snapshot, so what it has learned must be
said of the nodes it has asked so far. `Thorough`: a subscriber that has stayed since a check
began is on a node that has still to answer, or its answer was counted (`found`); it rests on
`AllMeet` – without faults every live node knows all others, so no answer is missing from the
expected number – and on `StayedListed`, which ties the history to the registries. A peer that
answers while the subscriber is listed counts it; one that leaves is taken out of `stayed`.
`KeyOwned` is the other direction: while the key exists, somebody is listed, about to be, or on
its way to ask or to delete it (`Responsible`); who turns back from a query because somebody
was found leaves that one responsible. A subscriber dropped with its entry is listed nowhere
and starts no query, which is why `tookAlong` appears in `FlagDeleted`.

**DeliveryProofs.** An event is followed from its task to the frames. `Published` and
`FannedOut` read a task's progress off its place and index; both only grow (`Progress`).
`Flow`: nothing is on its way or shown before it was published, and nothing comes back to the
node of its task, which shows it when the task fans it out. `Queued` and `Single`: what is on
its way to a node is in the order of each task, comes after what the node's sockets have seen
of it, and is there a second time only if its first publish returned an error. `SenderOrder`
and `TwiceOnlyAfterError` are inductive with these. There are three kinds of steps, one lemma
each: those that send nothing (`QuietStep`), a publish (`BroadcastStep`: its event is the
newest of its task) and a fan-out (`ShowStep`: its event comes after what was shown), for the
task's own node as for a node that receives. `Followed` is `NoGapAtJoin` from the moment a
socket has read the cache: what a request caches no node can have fanned out (`Flow`), what a
node fans out its listed sockets are shown, and what the cache holds at the read the socket has
seen.

**WebhookProofs.** `NoSilentLoss` is inductive with the types and the fact that a batch being
posted is not empty. The refinement must know what was posted before: `PostsOK` says that no post goes
beyond the batch being posted, that those of this batch are all the same and the last ones in
the sequence, and that there is no more than one per attempt. With it a further attempt is a post
the contract allows (`PostRefines`), and a batch that is settled leaves none of its events to
the next.

**RedisPresenceProofs.** The mutex: `LockedByOperation` says that it is held exactly while an
operation of the node is in the middle of its commands, and by it; three ways in which a step
takes, keeps and gives it back, one lemma each. The counts: `CountIsNoOverestimate` follows a
count and the set of sockets it stands for through each command, a failed one paid for by
`errors`. As long as there was no fault, `CountOK` bounds the
count of a user by the sockets counted for it, and by the *settled* sockets while nobody deletes
the user: of the sockets counted since the last deletion only the first has still to write
the hash, and there was a settled socket before it. The second half is what excludes that
HINCRBY reads a value above 0 after the last socket has gone. `ExactInTurns` speaks of the
moments between operations; `InTurns` says what Redis holds after every command of an operation
that runs alone (the users and numbers of the sockets that have counted and not yet
discounted themselves) and what the operation may rely on (`Alone`: the answer of HLEN is
still true, a user about to be written is missing, a user about to be deleted has no socket, and
both keys are deleted only when they stand for nobody).

**ServerProofs.** The counters are cardinalities of sets of places of the tasks; each of the
four counting steps moves one task into or out of one of them (`CountUp`, `CountDown`), the
exit drops all at once and ends the claim.

**NodeQueriesProofs.** `Renewed` compares ages with timers: an entry is never older than the
timer of the loop that renews it, or than timer plus interval after one failed write. With
`TtlAssumption` neither runs out. `CompletionCoversKnown` is a cardinality argument: the
answers are a subset of the known peers, of the same size.

**Only model-checked.** Liveness under fairness and ENABLED are out of the prover's reach:
`CloseCompletes`, `FlaggedCloses`, `EventuallySettled`, `ConnectionReleased`, `ReadinessRecovers`, `PeersMeet`,
`CountConverges`, `RequestReturns`, `MemoryRefuses`, `ServerStops`. So is induction over
data; no definition here is recursive. All invariants and action properties that the runs
check are proved.

## 8. Not modelled

* *Rate limiter*: a map of limiters of a library; its calls change no state of the program.
  They only refuse requests, which the models leave out.
* *Ping; webhook and rate limit of client events*: no state of their own.
* *Wire protocol, channel kinds, authentication*: pure formatting, parsing, HMAC, prefixes of
  names. The kind of a channel is membership in `PresenceChannels`; refused requests change
  no state.
* *HTTP API*: routing, limits on bodies and read-only routes. What the others do is in
  `Delivery`, `ConnectionLoop` (terminate), `NodeQueries`, `Readiness` and `Server`.
* *Server*: binding, TLS, systemd, the numbers of a snapshot. *Metrics*: totals and bytes only
  grow. *Configuration*: read once; its values are CONSTANTS.
* *A failing MGET* (`adapter/redis/mod.rs:126`): the one answer that is summed up from it
  counts no other node. `NodeQueries!Counted` is what a read that succeeds counts.
* *The error frame of the terminate API* on a full queue: it is dropped without a number, so
  `NoGap` does not speak of it; the connection is flagged in the next step.
* *Sums*: how node values are added up (`NodeQueries` says only who is counted), and the
  `subscription_count` webhook, which carries a number read earlier.
* *The pending table of a request whose publish failed* keeps an entry (`pubsub.rs:204`) that
  nothing reads again.
* *Contents*: message payloads, `user_info`, signatures, error frames' text.

## 9. Plan

Done, in this order: inventory; `Namespace` and `SocketTasks` with the admission proof (the
core); `ConnectionLoop`; `WebhookWorker` with its contract; `Readiness` with its proof;
`RedisPresence`; `RedisOccupancy`; `Delivery`; then `PresenceRoster`, `Server`, `Discovery`
and `NodeQueries` for what a client of a presence channel sees, the process as a whole, and
the requests between nodes; the proofs of section 7.

Next:

1. `RedisOccupancy` and `NodeQueries` share the request of `pubsub.rs`: an abstract request
   (all answers or none, then gone) that both implement.
