----------------------------- MODULE Namespace -----------------------------
(***************************************************************************)
(* The per-app registry of src/adapter/namespace.rs: five concurrent maps  *)
(* (DashMap) and one atomic counter, shared by the tasks of all sockets.   *)
(*                                                                         *)
(* One operation on one map runs under that map's shard guard and is one   *)
(* atomic step here; an operation of the registry that makes several such  *)
(* steps is split into them, and a caller interleaves them with the steps  *)
(* of other tasks (module SocketTasks).                                    *)
(*                                                                         *)
(* A map is a total function together with the set of its keys: a key with *)
(* an empty value and a missing key behave differently in the code.        *)
(* The value stored for a member (user_info) is left out.                  *)
(***************************************************************************)
EXTENDS Integers, FiniteSets

CONSTANTS Sockets,           \* socket ids (socket_id::generate: never reused)
          Channels,          \* channel names
          PresenceChannels,  \* those of kind Presence or CachePresence
          Users,             \* user ids
          NoUser, NoChannel, \* None
          MaxConnections,    \* app.max_connections: i64, negative = unlimited
          MaxMembers         \* app.max_presence_members_per_channel: usize

ASSUME PresenceAssumption == PresenceChannels \subseteq Channels
ASSUME NoneAssumption == NoUser \notin Users /\ NoChannel \notin Channels
ASSUME LimitAssumption == MaxConnections \in Int /\ MaxMembers \in Nat
ASSUME FiniteAssumption == IsFiniteSet(Sockets) /\ IsFiniteSet(Users)

VARIABLES sockets,          \* keys of sockets: the registered connections
          connectionCount,  \* AtomicUsize
          channels,         \* channel -> set of socket ids
          channelKeys,
          socketChannels,   \* socket id -> set of channels (reverse index)
          presence,         \* channel -> user id -> set of socket ids
          presenceKeys,
          users,            \* user id -> set of socket ids
          userKeys

socketVars   == <<sockets, connectionCount>>
channelVars  == <<channels, channelKeys, socketChannels>>
presenceVars == <<presence, presenceKeys>>
userVars     == <<users, userKeys>>
nsVars == <<socketVars, channelVars, presenceVars, userVars>>

NsTypeOK ==
  /\ sockets \subseteq Sockets
  /\ connectionCount \in Nat
  /\ channels \in [Channels -> SUBSET Sockets]
  /\ channelKeys \subseteq Channels
  /\ socketChannels \in [Sockets -> SUBSET Channels]
  /\ presence \in [Channels -> [Users -> SUBSET Sockets]]
  /\ presenceKeys \subseteq Channels
  /\ users \in [Users -> SUBSET Sockets]
  /\ userKeys \subseteq Users

\* Namespace::new
NsInit ==
  /\ sockets = {} /\ connectionCount = 0
  /\ channels = [c \in Channels |-> {}] /\ channelKeys = {}
  /\ socketChannels = [s \in Sockets |-> {}]
  /\ presence = [c \in Channels |-> [u \in Users |-> {}]] /\ presenceKeys = {}
  /\ users = [u \in Users |-> {}] /\ userKeys = {}

----------------------------------------------------------------------------
(* sockets and connection_count *)

Unlimited == MaxConnections < 0

\* self.sockets.insert(sid, conn)
InsertSocket(s) ==
  /\ sockets' = sockets \cup {s}
  /\ UNCHANGED connectionCount

\* Mutant: add_socket without its fetch_add.
CountForgotten == UNCHANGED <<sockets, connectionCount>>

\* fetch_add(1) of add_socket
CountSocket ==
  /\ connectionCount' = connectionCount + 1
  /\ UNCHANGED sockets

\* Mutant: a store in place of the compare-and-exchange.
ReserveAnyway(seen) ==
  /\ connectionCount' = seen + 1
  /\ UNCHANGED sockets

\* The compare_exchange_weak of try_add_socket, when it succeeds.
ReserveSlot(seen) ==
  /\ connectionCount = seen
  /\ connectionCount' = seen + 1
  /\ UNCHANGED sockets

\* sockets.remove(socket_id); the result says whether the key was there.
RemoveSocket(s) ==
  /\ sockets' = sockets \ {s}
  /\ UNCHANGED connectionCount

\* fetch_sub(1)
UncountSocket ==
  /\ connectionCount' = connectionCount - 1
  /\ UNCHANGED sockets

----------------------------------------------------------------------------
(* channels and the reverse index *)

\* was_empty, the result of add_to_channel
WasEmpty(c) == channels[c] = {}

\* Mutant: the reverse index is not maintained.
AddUnindexed(s, c) ==
  /\ channels' = [channels EXCEPT ![c] = @ \cup {s}]
  /\ channelKeys' = channelKeys \cup {c}
  /\ UNCHANGED socketChannels

\* add_to_channel: the entry guard is held until the index is updated.
AddToChannel(s, c) ==
  /\ channels' = [channels EXCEPT ![c] = @ \cup {s}]
  /\ channelKeys' = channelKeys \cup {c}
  /\ socketChannels' = [socketChannels EXCEPT ![s] = @ \cup {c}]

\* The guarded first half of remove_from_channel, when the channel keeps a
\* subscriber or has no entry: the index is updated and false returned.
StaysOccupied(s, c) == c \notin channelKeys \/ channels[c] \ {s} # {}

RemoveFromChannel(s, c) ==
  /\ channels' = [channels EXCEPT ![c] = @ \ {s}]
  /\ socketChannels' = IF StaysOccupied(s, c)
                       THEN [socketChannels EXCEPT ![s] = @ \ {c}]
                       ELSE socketChannels
  /\ UNCHANGED channelKeys

\* The second half, after the guard was released: the entry is removed,
\* whatever it holds by now; then the index is updated.
DropChannel(s, c) ==
  /\ channels' = [channels EXCEPT ![c] = {}]
  /\ channelKeys' = channelKeys \ {c}
  /\ socketChannels' = [socketChannels EXCEPT ![s] = @ \ {c}]

\* The cleanup loop of remove_socket over the channels of the reverse index.
\* IndexEmptyAtRemoval (SocketTasks) shows that it never finds one, so the
\* loop is one step.
UnindexSocket(s) ==
  /\ channels' = [c \in Channels |-> IF c \in socketChannels[s]
                                     THEN channels[c] \ {s} ELSE channels[c]]
  /\ channelKeys' = channelKeys \ {c \in socketChannels[s] : channels[c] \subseteq {s}}
  /\ socketChannels' = [socketChannels EXCEPT ![s] = {}]

----------------------------------------------------------------------------
(* presence *)

Members(c) == {u \in Users : presence[c][u] # {}}

\* try_add_presence_member: Ok unless a new user would exceed the limit.
Admits(c, u) == u \in Members(c) \/ Cardinality(Members(c)) < MaxMembers

\* entry(channel).or_default() creates the entry, also when Err is returned.
TryAddPresenceMember(s, c, u) ==
  /\ presenceKeys' = presenceKeys \cup {c}
  /\ presence' = IF Admits(c, u)
                 THEN [presence EXCEPT ![c][u] = @ \cup {s}]
                 ELSE presence

\* Mutant: the user's other sockets are not looked at.
GoneWithOneSocket(s, c, u) == s \in presence[c][u]

\* user_gone of remove_presence_member
UserGone(s, c, u) == presence[c][u] # {} /\ presence[c][u] \ {s} = {}

\* Mutant: the emptiness test made before the removal.
WasEmptyPresence(s, c, u) == c \in presenceKeys /\ \A v \in Users : presence[c][v] = {}

\* channel_presence.is_empty() after the removal, with the entry there
EmptiesPresence(s, c, u) ==
  c \in presenceKeys /\ \A v \in Users : presence[c][v] \subseteq (IF v = u THEN {s} ELSE {})

\* remove_presence_member up to the release of the guard
RemovePresenceMember(s, c, u) ==
  /\ presence' = [presence EXCEPT ![c][u] = @ \ {s}]
  /\ UNCHANGED presenceKeys

\* self.presence.remove(channel), after the guard was released
DropPresence(c) ==
  /\ presence' = [presence EXCEPT ![c] = [u \in Users |-> {}]]
  /\ presenceKeys' = presenceKeys \ {c}

----------------------------------------------------------------------------
(* users *)

AddUser(s, u) ==
  /\ users' = [users EXCEPT ![u] = @ \cup {s}]
  /\ userKeys' = userKeys \cup {u}

EmptiesUser(s, u) == u \in userKeys /\ users[u] \ {s} = {}

\* remove_user up to the release of the guard
RemoveUser(s, u) ==
  /\ users' = [users EXCEPT ![u] = @ \ {s}]
  /\ UNCHANGED userKeys

\* self.users.remove(user_id), after the guard was released
DropUser(u) ==
  /\ users' = [users EXCEPT ![u] = {}]
  /\ userKeys' = userKeys \ {u}

=============================================================================
