---------------------------- MODULE SocketTasks ----------------------------
(***************************************************************************)
(* The tasks of the sockets of one app on one node, over the registry of   *)
(* module Namespace: run_connection (src/websocket/mod.rs) from admission  *)
(* to on_close (src/websocket/lifecycle.rs), with the subscribe,           *)
(* unsubscribe and signin handlers (src/websocket/events).                 *)
(*                                                                         *)
(* A task runs its handlers one after the other; tasks interleave between  *)
(* any two operations on a shared map.  pc[s] is the operation that the    *)
(* task of s performs next.  State that only the task itself reads and     *)
(* writes (the connection's own maps, its reverse index) changes together  *)
(* with the neighbouring shared operation.                                 *)
(*                                                                         *)
(* Requests refused before any state changes (bad data, failed auth, size  *)
(* limits) and frames for the client are left out.  The connection loop    *)
(* may end between any two requests: why it ends is module ConnectionLoop. *)
(***************************************************************************)
EXTENDS Namespace

CONSTANTS SigninUsers,  \* bound: the user ids clients sign in as
          MaxRequests   \* bound: requests of a client that change state
ASSUME RequestsAssumption == SigninUsers \subseteq Users /\ MaxRequests \in Nat

VARIABLES pc,
          seen,        \* current, as loaded by the CAS loop
          cur,         \* channel of the request, or of on_close's iteration
          arg,         \* user id taken from channel_data or conn.presence
          flag,        \* is_new_member, then user_gone
          todo,        \* channels on_close has still to leave
          closing,     \* sockets whose connection loop has ended
          subscribed,  \* conn.subscribed_channels
          member,      \* conn.presence: channel -> user id
          user,        \* conn.user
          requests,
          lastEvent,   \* last channel_occupied / channel_vacated sent
          added,       \* member_added events sent, per channel and user
          removed      \* member_removed events sent

localVars == <<seen, cur, arg, flag, todo, closing>>
connVars  == <<subscribed, member, user>>
eventVars == <<lastEvent, added, removed>>
vars == <<nsVars, pc, localVars, connVars, requests, eventVars>>

Pcs == {"new", "cas", "insert", "count", "greet", "open", "join", "occupied",
        "memberAdded", "leavePresence", "dropPresence", "memberRemoved",
        "leave", "dropChannel", "vacated", "closing", "dropUser", "removing",
        "uncount", "unindex", "closed", "rejected"}

\* Type correctness of the registry and of the tasks' own state; that
\* connectionCount is in Nat says that fetch_sub never wraps around.
TypeOK ==
  /\ NsTypeOK
  /\ pc \in [Sockets -> Pcs]
  /\ seen \in [Sockets -> Nat]
  /\ cur \in [Sockets -> Channels \cup {NoChannel}]
  /\ arg \in [Sockets -> Users \cup {NoUser}]
  /\ flag \in [Sockets -> BOOLEAN]
  /\ todo \in [Sockets -> SUBSET Channels]
  /\ closing \subseteq Sockets
  /\ subscribed \in [Sockets -> SUBSET Channels]
  /\ member \in [Sockets -> [Channels -> Users \cup {NoUser}]]
  /\ user \in [Sockets -> Users \cup {NoUser}]
  /\ requests \in [Sockets -> 0..MaxRequests]
  /\ lastEvent \in [Channels -> {"none", "occupied", "vacated"}]
  /\ added \in [Channels -> [Users -> Nat]]
  /\ removed \in [Channels -> [Users -> Nat]]

Init ==
  /\ NsInit
  /\ pc = [s \in Sockets |-> "new"]
  /\ seen = [s \in Sockets |-> 0]
  /\ cur = [s \in Sockets |-> NoChannel]
  /\ arg = [s \in Sockets |-> NoUser]
  /\ flag = [s \in Sockets |-> FALSE]
  /\ todo = [s \in Sockets |-> {}]
  /\ closing = {}
  /\ subscribed = [s \in Sockets |-> {}]
  /\ member = [s \in Sockets |-> [c \in Channels |-> NoUser]]
  /\ user = [s \in Sockets |-> NoUser]
  /\ requests = [s \in Sockets |-> 0]
  /\ lastEvent = [c \in Channels |-> "none"]
  /\ added = [c \in Channels |-> [u \in Users |-> 0]]
  /\ removed = [c \in Channels |-> [u \in Users |-> 0]]

Goto(s, from, to) ==
  /\ pc[s] = from
  /\ pc' = [pc EXCEPT ![s] = to]

\* A step inside a handler; its own variables are gone once it returns.
HandlerStep(s, from, to, c, u, b) ==
  LET returns == to \in {"open", "closing"} IN
  /\ Goto(s, from, to)
  /\ cur'  = [cur  EXCEPT ![s] = IF returns THEN NoChannel ELSE c]
  /\ arg'  = [arg  EXCEPT ![s] = IF returns THEN NoUser ELSE u]
  /\ flag' = [flag EXCEPT ![s] = IF returns THEN FALSE ELSE b]
  /\ UNCHANGED seen

----------------------------------------------------------------------------
(* run_connection: try_add_socket and the greeting *)

\* Mutant: > in place of >= in the limit test.
LoadOverLimit(s) ==
  /\ ~ Unlimited
  /\ Goto(s, "new", IF connectionCount > MaxConnections THEN "rejected" ELSE "cas")
  /\ seen' = [seen EXCEPT ![s] = IF connectionCount > MaxConnections THEN 0 ELSE connectionCount]
  /\ UNCHANGED <<nsVars, cur, arg, flag, todo, closing, connVars, requests, eventVars>>

\* current = load(); current >= max ends the attempt with an error frame.
LoadCount(s) ==
  /\ ~ Unlimited
  /\ Goto(s, "new", IF connectionCount >= MaxConnections THEN "rejected" ELSE "cas")
  /\ seen' = [seen EXCEPT ![s] = IF connectionCount >= MaxConnections THEN 0 ELSE connectionCount]
  /\ UNCHANGED <<nsVars, cur, arg, flag, todo, closing, connVars, requests, eventVars>>

CasSucceeds(s) ==
  /\ Goto(s, "cas", "insert")
  /\ ReserveSlot(seen[s])
  /\ seen' = [seen EXCEPT ![s] = 0]
  /\ UNCHANGED <<channelVars, presenceVars, userVars, cur, arg, flag, todo,
                 closing, connVars, requests, eventVars>>

\* The exchange is weak: it may fail although the value is the expected one.
CasFails(s) ==
  /\ Goto(s, "cas", "new")
  /\ seen' = [seen EXCEPT ![s] = 0]
  /\ UNCHANGED <<nsVars, cur, arg, flag, todo, closing, connVars, requests, eventVars>>

\* sockets.insert: after the reservation, or first of all without a limit.
Register(s) ==
  /\ IF Unlimited THEN Goto(s, "new", "count") ELSE Goto(s, "insert", "greet")
  /\ InsertSocket(s)
  /\ UNCHANGED <<channelVars, presenceVars, userVars, localVars, connVars, requests, eventVars>>

Count(s) ==
  /\ Goto(s, "count", "greet")
  /\ CountSocket
  /\ UNCHANGED <<channelVars, presenceVars, userVars, localVars, connVars, requests, eventVars>>

\* connection_established is written to the socket, or that fails.
Greet(s) ==
  /\ \E to \in {"open", "removing"} : Goto(s, "greet", to)
  /\ UNCHANGED <<nsVars, localVars, connVars, requests, eventVars>>

----------------------------------------------------------------------------
(* events/subscribe.rs *)

Request(s) ==
  /\ requests[s] < MaxRequests
  /\ requests' = [requests EXCEPT ![s] = @ + 1]

\* After the occupied webhook: member_added is next for a new member.
AfterJoin(isNew) == IF isNew THEN "memberAdded" ELSE "open"

\* Kinds without presence: joined in one step, conn.add_channel included.
SubscribePublic(s, c) ==
  /\ Request(s)
  /\ c \notin PresenceChannels /\ c \notin subscribed[s]
  /\ HandlerStep(s, "open", IF WasEmpty(c) THEN "occupied" ELSE "open", c, NoUser, FALSE)
  /\ AddToChannel(s, c)
  /\ subscribed' = [subscribed EXCEPT ![s] = @ \cup {c}]
  /\ UNCHANGED <<socketVars, presenceVars, userVars, todo, closing, member, user, eventVars>>

\* Presence: the member is added first; over the limit the handler returns.
SubscribePresence(s, c, u) ==
  /\ Request(s)
  /\ c \in PresenceChannels /\ c \notin subscribed[s]
  /\ HandlerStep(s, "open", IF Admits(c, u) THEN "join" ELSE "open", c, u, u \notin Members(c))
  /\ TryAddPresenceMember(s, c, u)
  /\ UNCHANGED <<socketVars, channelVars, userVars, todo, closing, connVars, eventVars>>

\* Mutant: conn.set_presence forgotten.
JoinUnrecorded(s) ==
  /\ HandlerStep(s, "join", IF WasEmpty(cur[s]) THEN "occupied" ELSE AfterJoin(flag[s]),
                 cur[s], arg[s], flag[s])
  /\ AddToChannel(s, cur[s])
  /\ subscribed' = [subscribed EXCEPT ![s] = @ \cup {cur[s]}]
  /\ UNCHANGED <<socketVars, presenceVars, userVars, todo, closing, member, user, requests, eventVars>>

\* add_to_channel, conn.add_channel, conn.set_presence
Join(s) ==
  /\ HandlerStep(s, "join", IF WasEmpty(cur[s]) THEN "occupied" ELSE AfterJoin(flag[s]),
                 cur[s], arg[s], flag[s])
  /\ AddToChannel(s, cur[s])
  /\ subscribed' = [subscribed EXCEPT ![s] = @ \cup {cur[s]}]
  /\ member' = [member EXCEPT ![s][cur[s]] = arg[s]]
  /\ UNCHANGED <<socketVars, presenceVars, userVars, todo, closing, user, requests, eventVars>>

SendOccupied(s) ==
  /\ HandlerStep(s, "occupied", AfterJoin(flag[s]), cur[s], arg[s], flag[s])
  /\ lastEvent' = [lastEvent EXCEPT ![cur[s]] = "occupied"]
  /\ UNCHANGED <<nsVars, todo, closing, connVars, requests, added, removed>>

SendMemberAdded(s) ==
  /\ HandlerStep(s, "memberAdded", "open", cur[s], arg[s], FALSE)
  /\ added' = [added EXCEPT ![cur[s]][arg[s]] = @ + 1]
  /\ UNCHANGED <<nsVars, todo, closing, connVars, requests, lastEvent, removed>>

----------------------------------------------------------------------------
(* Leaving channel c: shared by events/unsubscribe.rs and on_close *)

\* kind.is_presence(): the member is removed before the subscription
LeaveStart(s, c) ==
  IF c \in PresenceChannels /\ member[s][c] # NoUser THEN "leavePresence" ELSE "leave"

Unsubscribe(s, c) ==
  /\ Request(s)
  /\ c \in subscribed[s]
  /\ HandlerStep(s, "open", LeaveStart(s, c), c, member[s][c], FALSE)
  /\ subscribed' = [subscribed EXCEPT ![s] = @ \ {c}]
  /\ member' = [member EXCEPT ![s][c] = NoUser]
  /\ UNCHANGED <<nsVars, todo, closing, user, eventVars>>

AfterRemovePresence(gone) == IF gone THEN "memberRemoved" ELSE "leave"

LeavePresence(s) ==
  LET c == cur[s]  u == arg[s]  gone == UserGone(s, c, u) IN
  /\ HandlerStep(s, "leavePresence",
                 IF EmptiesPresence(s, c, u) THEN "dropPresence" ELSE AfterRemovePresence(gone),
                 c, u, gone)
  /\ RemovePresenceMember(s, c, u)
  /\ UNCHANGED <<socketVars, channelVars, userVars, todo, closing, connVars, requests, eventVars>>

RemoveEmptyPresence(s) ==
  /\ HandlerStep(s, "dropPresence", AfterRemovePresence(flag[s]), cur[s], arg[s], flag[s])
  /\ DropPresence(cur[s])
  /\ UNCHANGED <<socketVars, channelVars, userVars, todo, closing, connVars, requests, eventVars>>

SendMemberRemoved(s) ==
  /\ HandlerStep(s, "memberRemoved", "leave", cur[s], arg[s], FALSE)
  /\ removed' = [removed EXCEPT ![cur[s]][arg[s]] = @ + 1]
  /\ UNCHANGED <<nsVars, todo, closing, connVars, requests, lastEvent, added>>

AfterLeave(s) == IF s \in closing THEN "closing" ELSE "open"

Leave(s) ==
  /\ HandlerStep(s, "leave", IF StaysOccupied(s, cur[s]) THEN AfterLeave(s) ELSE "dropChannel",
                 cur[s], arg[s], FALSE)
  /\ RemoveFromChannel(s, cur[s])
  /\ UNCHANGED <<socketVars, presenceVars, userVars, todo, closing, connVars, requests, eventVars>>

RemoveEmptyChannel(s) ==
  /\ HandlerStep(s, "dropChannel", "vacated", cur[s], arg[s], FALSE)
  /\ DropChannel(s, cur[s])
  /\ UNCHANGED <<socketVars, presenceVars, userVars, todo, closing, connVars, requests, eventVars>>

SendVacated(s) ==
  /\ HandlerStep(s, "vacated", AfterLeave(s), cur[s], arg[s], FALSE)
  /\ lastEvent' = [lastEvent EXCEPT ![cur[s]] = "vacated"]
  /\ UNCHANGED <<nsVars, todo, closing, connVars, requests, added, removed>>

----------------------------------------------------------------------------
(* events/signin.rs *)

Signin(s, u) ==
  /\ Request(s)
  /\ Goto(s, "open", "open")
  /\ user' = [user EXCEPT ![s] = u]
  /\ AddUser(s, u)
  /\ UNCHANGED <<socketVars, channelVars, presenceVars, localVars, subscribed, member, eventVars>>

----------------------------------------------------------------------------
(* The end of run_connection: on_close, remove_socket *)

\* Mutant: on_close without the channels of the connection.
CloseUnsubscribed(s) ==
  /\ Goto(s, "open", "closing")
  /\ closing' = closing \cup {s}
  /\ UNCHANGED <<nsVars, todo, seen, cur, arg, flag, connVars, requests, eventVars>>

\* conn.get_channels(): the snapshot on_close iterates over
Close(s) ==
  /\ Goto(s, "open", "closing")
  /\ todo' = [todo EXCEPT ![s] = subscribed[s]]
  /\ closing' = closing \cup {s}
  /\ UNCHANGED <<nsVars, seen, cur, arg, flag, connVars, requests, eventVars>>

CloseChannel(s, c) ==
  /\ c \in todo[s]
  /\ HandlerStep(s, "closing", LeaveStart(s, c), c, member[s][c], FALSE)
  /\ todo' = [todo EXCEPT ![s] = @ \ {c}]
  /\ UNCHANGED <<nsVars, closing, connVars, requests, eventVars>>

\* remove_user for a socket that signed in
CloseUser(s) ==
  /\ todo[s] = {}
  /\ user[s] # NoUser
  /\ Goto(s, "closing", IF EmptiesUser(s, user[s]) THEN "dropUser" ELSE "removing")
  /\ RemoveUser(s, user[s])
  /\ UNCHANGED <<socketVars, channelVars, presenceVars, localVars, connVars, requests, eventVars>>

\* Mutant: on_close waits for conn's own channels, which it does not clear.
CloseWhenEmpty(s) ==
  /\ subscribed[s] = {}
  /\ user[s] = NoUser
  /\ Goto(s, "closing", "removing")
  /\ UNCHANGED <<nsVars, localVars, connVars, requests, eventVars>>

CloseNoUser(s) ==
  /\ todo[s] = {}
  /\ user[s] = NoUser
  /\ Goto(s, "closing", "removing")
  /\ UNCHANGED <<nsVars, localVars, connVars, requests, eventVars>>

RemoveEmptyUser(s) ==
  /\ Goto(s, "dropUser", "removing")
  /\ DropUser(user[s])
  /\ UNCHANGED <<socketVars, channelVars, presenceVars, localVars, connVars, requests, eventVars>>

Unregister(s) ==
  /\ Goto(s, "removing", IF s \in sockets THEN "uncount" ELSE "unindex")
  /\ RemoveSocket(s)
  /\ UNCHANGED <<channelVars, presenceVars, userVars, localVars, connVars, requests, eventVars>>

Uncount(s) ==
  /\ Goto(s, "uncount", "unindex")
  /\ UncountSocket
  /\ UNCHANGED <<channelVars, presenceVars, userVars, localVars, connVars, requests, eventVars>>

Unindex(s) ==
  /\ Goto(s, "unindex", "closed")
  /\ UnindexSocket(s)
  /\ UNCHANGED <<socketVars, presenceVars, userVars, localVars, connVars, requests, eventVars>>

----------------------------------------------------------------------------

\* A step of the task of s that no new request of the client is needed for.
Step(s) ==
  \/ LoadCount(s) \/ CasSucceeds(s) \/ CasFails(s) \/ Register(s) \/ Count(s) \/ Greet(s)
  \/ Join(s) \/ SendOccupied(s) \/ SendMemberAdded(s)
  \/ LeavePresence(s) \/ RemoveEmptyPresence(s) \/ SendMemberRemoved(s)
  \/ Leave(s) \/ RemoveEmptyChannel(s) \/ SendVacated(s)
  \/ \E c \in Channels : CloseChannel(s, c)
  \/ CloseUser(s) \/ CloseNoUser(s) \/ RemoveEmptyUser(s)
  \/ Unregister(s) \/ Uncount(s) \/ Unindex(s)

\* What the client, or the end of its connection, sets off.
Client(s) ==
  \/ \E c \in Channels : SubscribePublic(s, c) \/ Unsubscribe(s, c)
  \/ \E c \in Channels, u \in Users : SubscribePresence(s, c, u)
  \/ \E u \in SigninUsers : Signin(s, u)
  \/ Close(s)

Next == \E s \in Sockets : Step(s) \/ Client(s)

\* The runtime keeps polling a task that can run.
Fairness == \A s \in Sockets : WF_vars(Step(s))

Spec == Init /\ [][Next]_vars
FairSpec == Spec /\ Fairness

----------------------------------------------------------------------------
(* Safety *)

\* Pcs at which the task's slot is counted in connection_count, and at which
\* its socket is in the sockets map.
Held(s)       == pc[s] \notin {"new", "cas", "insert", "rejected", "unindex", "closed", "uncount"}
Registered    == {s \in Sockets : Held(s)}
Counted       == {s \in Sockets : (Held(s) /\ pc[s] # "count") \/ pc[s] \in {"insert", "uncount"}}

\* try_add_socket, add_socket and remove_socket keep the counter equal to
\* the number of slots in use, whatever tasks are between their two updates.
ConnectionAccounting ==
  /\ sockets = Registered
  /\ connectionCount = Cardinality(Counted)

\* try_add_socket: the registered sockets never exceed app.max_connections.
AdmissionLimit == ~ Unlimited => Cardinality(sockets) <= MaxConnections

\* add_to_channel, remove_from_channel: a socket listed in a channel has the
\* channel in its reverse index and is registered, so a fan-out never names a
\* connection that is gone and remove_socket finds all there is to clean.
NoGhostSubscriber ==
  \A c \in Channels : \A s \in channels[c] : c \in socketChannels[s] /\ s \in sockets

\* remove_socket ignores the channels it vacates (on_close drops the result):
\* no channel_vacated is lost, because the reverse index is empty by then.
IndexEmptyAtRemoval ==
  \A s \in Sockets : pc[s] \in {"removing", "uncount", "unindex", "closed"} => socketChannels[s] = {}

\* Presence: a socket listed for a member belongs to a live task that will
\* remove it again: its connection records the membership, or its handler is
\* between the two updates.
MemberIsOwned(s, c, u) ==
  \/ c \in subscribed[s] /\ member[s][c] = u /\ (s \in closing => c \in todo[s])
  \/ pc[s] \in {"join", "leavePresence"} /\ cur[s] = c /\ arg[s] = u

NoGhostMember ==
  \A c \in Channels, u \in Users : \A s \in presence[c][u] :
    s \in sockets /\ MemberIsOwned(s, c, u)

\* The two-step removals leave no empty entry behind: an entry without
\* content has a task that is about to remove it.
EmptyEntryIsTransient ==
  /\ \A c \in channelKeys : channels[c] = {} =>
       \E s \in Sockets : pc[s] = "dropChannel" /\ cur[s] = c
  /\ \A c \in presenceKeys : Members(c) = {} =>
       \E s \in Sockets : pc[s] = "dropPresence" /\ cur[s] = c
  /\ \A u \in userKeys : users[u] = {} =>
       \E s \in Sockets : pc[s] = "dropUser" /\ user[s] = u

\* member_removed of a user is sent only after as many member_added: the
\* socket that made the user a member has left its handler before it can be
\* removed, whatever the order in which the user's sockets join and leave.
MemberRemovedAfterAdded ==
  \A c \in Channels, u \in Users : removed[c][u] <= added[c][u]

----------------------------------------------------------------------------
(* Liveness *)

\* run_connection: once on_close is called (after sink.close, which may wait for
\* the peer), a task leaves all its channels and unregisters, whatever the other
\* tasks do to the shared maps.
CloseCompletes == \A s \in Sockets : s \in closing ~> pc[s] = "closed"

----------------------------------------------------------------------------
(* What the documentation says and the code does not do *)

\* "Send a pre-serialized message to all sockets in a channel": a connection
\* that has subscribed is in the channel's set.
EverySubscriberReached ==
  \A s \in Sockets : pc[s] = "open" => \A c \in subscribed[s] : s \in channels[c]

\* "preventing over-admission races": the users whose subscription to a
\* presence channel succeeded are at most the limit.
PresentUsers(c) == {u \in Users : \E s \in Sockets : pc[s] = "open" /\ member[s][c] = u}
NoOverAdmission == \A c \in PresenceChannels : Cardinality(PresentUsers(c)) <= MaxMembers

\* "Remove user->socket mapping if user was authenticated": a closed socket
\* is listed for no user.
UserMappingRemoved == \A s \in Sockets : pc[s] = "closed" => \A u \in Users : s \notin users[u]

\* "Terminate all connections for a user in an app": a signed-in connection
\* is found by its user id.
SignedInIsFound ==
  \A s \in Sockets : pc[s] = "open" /\ user[s] # NoUser => s \in users[user[s]]

\* "channel_vacated: last subscriber leaves a channel": when no handler is
\* running, the last event sent for a channel with subscribers is not vacated.
VacatedIsTrue ==
  (\A s \in Sockets : pc[s] \in {"new", "open", "closed"}) =>
    \A c \in Channels : lastEvent[c] = "vacated" => channels[c] = {}

=============================================================================
