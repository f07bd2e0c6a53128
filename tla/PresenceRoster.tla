--------------------------- MODULE PresenceRoster ---------------------------
(***************************************************************************)
(* What the clients of a presence channel see: the member list of          *)
(* presence_subscription_succeeded and the member_added and member_removed *)
(* frames that follow it, over the tasks of module SocketTasks.            *)
(*                                                                         *)
(* The list is taken by try_add_presence_member, before the socket joins   *)
(* the channel, and queued after it has joined (subscribe.rs); member      *)
(* events are sent to whoever is listed in the channel at that moment.  A  *)
(* client replaces its roster by the list and then follows the events.     *)
(***************************************************************************)
EXTENDS SocketTasks

VARIABLES
  snapshot,    \* members, as returned to the handler of s
  owes,        \* channel whose subscription s has still to confirm
  view,        \* the roster a client has made of its frames, per channel
  missed,      \* history: users with an event that came before the list and
               \* is not in it
  contended    \* history: users with two changes in flight at a time, or
               \* dropped by the removal of an entry found empty earlier

rosterVars == <<snapshot, owes, view, missed, contended>>
allVars == <<vars, rosterVars>>

RosterTypeOK ==
  /\ snapshot \in [Sockets -> SUBSET Users]
  /\ owes \in [Sockets -> PresenceChannels \cup {NoChannel}]
  /\ view \in [Sockets -> [PresenceChannels -> SUBSET Users]]
  /\ missed \in [Sockets -> [PresenceChannels -> SUBSET Users]]
  /\ contended \subseteq PresenceChannels \X Users

RosterInit ==
  /\ Init
  /\ snapshot = [s \in Sockets |-> {}]
  /\ owes = [s \in Sockets |-> NoChannel]
  /\ view = [s \in Sockets |-> [c \in PresenceChannels |-> {}]]
  /\ missed = [s \in Sockets |-> [c \in PresenceChannels |-> {}]]
  /\ contended = {}

\* The handler of t has changed who is a member and not yet said so.
Pending(t, c, u) ==
  /\ cur[t] = c /\ arg[t] = u /\ flag[t]
  /\ pc[t] \in {"join", "occupied", "memberAdded", "dropPresence", "memberRemoved"}

Contend(c, u) ==
  contended' = IF \E t \in Sockets : Pending(t, c, u) THEN contended \cup {<<c, u>>}
                                                       ELSE contended

\* s has the list of c and has not yet queued it.
Unlisted(s, c) == owes[s] = c \/ (pc[s] \in {"join", "occupied"} /\ cur[s] = c)

\* A member frame reaches the queue of every socket listed in c but s.
FanOut(s, c, Apply(_)) ==
  view' = [t \in Sockets |-> IF t \in channels[c] \ {s}
                             THEN [view[t] EXCEPT ![c] = Apply(@)] ELSE view[t]]

\* The sockets whose list is on its way and holds the contrary are noted.
Overtakes(c, u, Contradicts(_)) ==
  missed' = [t \in Sockets |-> IF Unlisted(t, c) /\ Contradicts(snapshot[t])
                               THEN [missed[t] EXCEPT ![c] = @ \cup {u}] ELSE missed[t]]

----------------------------------------------------------------------------

\* Mutant: the members are read before the insertion.
MembersBefore(c, u) == Members(c)

\* The members returned with the insertion of u, under the same guard.
MembersWith(c, u) == Members(c) \cup {u}

SubscribeMember(s, c, u) ==
  /\ SubscribePresence(s, c, u)
  /\ IF Admits(c, u)
     THEN /\ snapshot' = [snapshot EXCEPT ![s] = MembersWith(c, u)]
          /\ missed' = [missed EXCEPT ![s][c] = {}]
     ELSE UNCHANGED <<snapshot, missed>>
  /\ IF Admits(c, u) /\ u \notin Members(c) THEN Contend(c, u) ELSE UNCHANGED contended
  /\ UNCHANGED <<owes, view>>

JoinMember(s) ==
  /\ Join(s)
  /\ owes' = [owes EXCEPT ![s] = cur[s]]
  /\ UNCHANGED <<snapshot, view, missed, contended>>

\* presence_subscription_succeeded, after the occupied webhook
SendList(s) ==
  /\ owes[s] # NoChannel /\ pc[s] # "occupied"
  /\ view' = [view EXCEPT ![s][owes[s]] = snapshot[s]]
  /\ owes' = [owes EXCEPT ![s] = NoChannel]
  /\ snapshot' = [snapshot EXCEPT ![s] = {}]
  /\ UNCHANGED <<vars, missed, contended>>

AnnounceMember(s) ==
  LET c == cur[s]  u == arg[s] IN
  /\ owes[s] = NoChannel
  /\ SendMemberAdded(s)
  /\ FanOut(s, c, LAMBDA v : v \cup {u})
  /\ Overtakes(c, u, LAMBDA list : u \notin list)
  /\ UNCHANGED <<snapshot, owes, contended>>

LeaveMember(s) ==
  /\ LeavePresence(s)
  /\ IF UserGone(s, cur[s], arg[s]) THEN Contend(cur[s], arg[s]) ELSE UNCHANGED contended
  /\ UNCHANGED <<snapshot, owes, view, missed>>

\* The entry found empty may have members again, which it takes along.
DropMembers(s) ==
  /\ RemoveEmptyPresence(s)
  /\ contended' = contended \cup ({cur[s]} \X Members(cur[s]))
  /\ UNCHANGED <<snapshot, owes, view, missed>>

RetractMember(s) ==
  LET c == cur[s]  u == arg[s] IN
  /\ SendMemberRemoved(s)
  /\ FanOut(s, c, LAMBDA v : v \ {u})
  /\ Overtakes(c, u, LAMBDA list : u \in list)
  /\ UNCHANGED <<snapshot, owes, contended>>

\* Steps that change neither the members nor what a client is told of them.
OtherStep(s) ==
  \/ LoadCount(s) \/ CasSucceeds(s) \/ CasFails(s) \/ Register(s) \/ Count(s) \/ Greet(s)
  \/ SendOccupied(s) \/ Leave(s) \/ RemoveEmptyChannel(s) \/ SendVacated(s)
  \/ \E c \in Channels : CloseChannel(s, c)
  \/ CloseUser(s) \/ CloseNoUser(s) \/ RemoveEmptyUser(s)
  \/ Unregister(s) \/ Uncount(s) \/ Unindex(s)

OtherRequest(s) ==
  /\ owes[s] = NoChannel
  /\ \/ \E c \in Channels : SubscribePublic(s, c) \/ Unsubscribe(s, c)
     \/ \E u \in SigninUsers : Signin(s, u)
     \/ Close(s)

RosterStep(s) ==
  \/ JoinMember(s) \/ SendList(s) \/ AnnounceMember(s)
  \/ LeaveMember(s) \/ DropMembers(s) \/ RetractMember(s)
  \/ (OtherStep(s) /\ UNCHANGED rosterVars)

RosterClient(s) ==
  \/ \E c \in Channels, u \in Users : owes[s] = NoChannel /\ SubscribeMember(s, c, u)
  \/ (OtherRequest(s) /\ UNCHANGED rosterVars)

RosterNext == \E s \in Sockets : RosterStep(s) \/ RosterClient(s)

RosterSpec == RosterInit /\ [][RosterNext]_allVars

----------------------------------------------------------------------------

\* Once no change of a user is in flight, every subscribed client agrees with
\* the registry about the user: the list and the later events leave no gap and
\* no stale member, for users whose own changes did not overlap and who did
\* not change between the client's list being taken and queued.
RosterAccurate ==
  \A c \in PresenceChannels, u \in Users :
    <<c, u>> \notin contended /\ (\A t \in Sockets : ~ Pending(t, c, u)) =>
      \A s \in channels[c] :
        pc[s] = "open" /\ c \in subscribed[s] /\ ~ Unlisted(s, c) /\ u \notin missed[s][c]
          => (u \in view[s][c] <=> u \in Members(c))

\* "member_added ... when a new member joins", "member_removed ... when a
\* member leaves": a client that has subscribed and sees no change in flight
\* has the members of the channel.
RosterComplete ==
  \A c \in PresenceChannels : (\A t \in Sockets, u \in Users : ~ Pending(t, c, u)) =>
    \A s \in channels[c] :
      pc[s] = "open" /\ c \in subscribed[s] /\ ~ Unlisted(s, c)
        => view[s][c] = Members(c)

=============================================================================
