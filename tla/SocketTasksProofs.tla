------------------------- MODULE SocketTasksProofs -------------------------
(***************************************************************************)
(* Invariants of SocketTasks and, over them, of PresenceRoster, proved for *)
(* every number of sockets, channels and users and for every limit.        *)
(***************************************************************************)
EXTENDS PresenceRoster, FiniteSetTheorems, TLAPS

----------------------------------------------------------------------------
(* Type correctness of a step, given that of the counter *)

\* The handlers that work on a channel, and those that work on a member.
ChannelPcs == {"join", "occupied", "memberAdded", "leavePresence", "dropPresence",
               "memberRemoved", "leave", "dropChannel", "vacated"}
MemberPcs  == {"join", "memberAdded", "leavePresence", "dropPresence", "memberRemoved"}

\* A handler's variables hold what its next operation needs.
CallOK ==
  \A s \in Sockets :
    /\ pc[s] \in ChannelPcs => cur[s] \in Channels
    /\ pc[s] \in MemberPcs \/ (pc[s] = "occupied" /\ flag[s]) => arg[s] \in Users

\* A handler step with well-typed values keeps pc and the locals well-typed.
LEMMA HandlerStepType ==
  ASSUME TypeOK, NEW s \in Sockets, NEW from, NEW to \in Pcs,
         NEW c \in Channels \cup {NoChannel}, NEW u \in Users \cup {NoUser},
         NEW b \in BOOLEAN, HandlerStep(s, from, to, c, u, b)
  PROVE  /\ pc' \in [Sockets -> Pcs]
         /\ cur' \in [Sockets -> Channels \cup {NoChannel}]
         /\ arg' \in [Sockets -> Users \cup {NoUser}]
         /\ flag' \in [Sockets -> BOOLEAN]
         /\ seen' \in [Sockets -> Nat]
BY DEF TypeOK, HandlerStep, Goto

\* The request counter stays within its bound.
LEMMA RequestType ==
  ASSUME TypeOK, NEW s \in Sockets, Request(s)
  PROVE  requests' \in [Sockets -> 0..MaxRequests]
BY RequestsAssumption DEF TypeOK, Request

\* Every action leaves a well-typed state well-typed, except that the
\* counter needs ConnectionAccounting.
LEMMA TypeStep ==
  ASSUME TypeOK, CallOK, NEW s \in Sockets, Step(s) \/ Client(s), connectionCount' \in Nat
  PROVE  TypeOK'
<1> USE DEF vars, nsVars, socketVars, channelVars, presenceVars, userVars, localVars, connVars, eventVars
<1> DEFINE LocalsOK == /\ pc \in [Sockets -> Pcs]
                       /\ cur \in [Sockets -> Channels \cup {NoChannel}]
                       /\ arg \in [Sockets -> Users \cup {NoUser}]
                       /\ flag \in [Sockets -> BOOLEAN]
                       /\ seen \in [Sockets -> Nat]
<1>0. /\ cur[s] \in Channels \cup {NoChannel}
      /\ arg[s] \in Users \cup {NoUser}
      /\ flag[s] \in BOOLEAN
      /\ \A c \in Channels : member[s][c] \in Users \cup {NoUser}
  BY DEF TypeOK
<1>1. CASE LoadCount(s)
  BY <1>1 DEF TypeOK, NsTypeOK, Pcs, Goto, LoadCount
<1>2. CASE CasSucceeds(s)
  BY <1>2 DEF TypeOK, NsTypeOK, Pcs, Goto, CasSucceeds, ReserveSlot
<1>3. CASE CasFails(s)
  BY <1>3 DEF TypeOK, NsTypeOK, Pcs, Goto, CasFails
<1>4. CASE Register(s)
  BY <1>4 DEF TypeOK, NsTypeOK, Pcs, Goto, Register, InsertSocket
<1>5. CASE Count(s)
  BY <1>5 DEF TypeOK, NsTypeOK, Pcs, Goto, Count, CountSocket
<1>6. CASE Greet(s)
  BY <1>6 DEF TypeOK, NsTypeOK, Pcs, Goto, Greet
<1>7. CASE Join(s)
  <2>0. cur[s] \in Channels /\ arg[s] \in Users
    BY <1>7 DEF CallOK, ChannelPcs, MemberPcs, Join, HandlerStep, Goto
  <2>1. (IF WasEmpty(cur[s]) THEN "occupied" ELSE AfterJoin(flag[s])) \in Pcs
    BY <1>0 DEF Pcs, AfterJoin
  <2>2. LocalsOK'
    BY <1>7, <1>0, <2>1, HandlerStepType DEF Join
  <2>3. member' \in [Sockets -> [Channels -> Users \cup {NoUser}]]
    BY <1>7, <2>0, <1>0 DEF TypeOK, Join
  <2>4. subscribed' \in [Sockets -> SUBSET Channels]
    BY <1>7, <2>0, <1>0 DEF TypeOK, Join
  <2>5. channels' \in [Channels -> SUBSET Sockets] /\ channelKeys' \subseteq Channels /\ socketChannels' \in [Sockets -> SUBSET Channels]
    BY <1>7, <2>0 DEF TypeOK, NsTypeOK, Join, AddToChannel
  <2> QED BY <1>7, <2>2, <2>3, <2>4, <2>5 DEF TypeOK, NsTypeOK, Join
<1>8. CASE SendOccupied(s)
  <2>1. (AfterJoin(flag[s])) \in Pcs
    BY <1>0 DEF Pcs, AfterJoin
  <2>2. LocalsOK'
    BY <1>8, <1>0, <2>1, HandlerStepType DEF SendOccupied
  <2> QED BY <1>8, <1>0, <2>2 DEF TypeOK, NsTypeOK, SendOccupied
<1>9. CASE SendMemberAdded(s)
  <2>0. cur[s] \in Channels /\ arg[s] \in Users
    BY <1>9 DEF CallOK, ChannelPcs, MemberPcs, SendMemberAdded, HandlerStep, Goto
  <2>1. ("open") \in Pcs
    BY <1>0 DEF Pcs
  <2>2. LocalsOK'
    BY <1>9, <1>0, <2>1, HandlerStepType DEF SendMemberAdded
  <2>3. added' \in [Channels -> [Users -> Nat]]
    BY <1>9, <2>0, <1>0 DEF TypeOK, SendMemberAdded
  <2> QED BY <1>9, <2>2, <2>3 DEF TypeOK, NsTypeOK, SendMemberAdded
<1>10. CASE LeavePresence(s)
  <2>0. cur[s] \in Channels /\ arg[s] \in Users
    BY <1>10 DEF CallOK, ChannelPcs, MemberPcs, LeavePresence, HandlerStep, Goto
  <2>1. (IF EmptiesPresence(s, cur[s], arg[s]) THEN "dropPresence" ELSE AfterRemovePresence(UserGone(s, cur[s], arg[s]))) \in Pcs /\ UserGone(s, cur[s], arg[s]) \in BOOLEAN
    BY <1>0 DEF Pcs, AfterRemovePresence, UserGone
  <2>2. LocalsOK'
    BY <1>10, <1>0, <2>1, HandlerStepType DEF LeavePresence
  <2>3. presence' \in [Channels -> [Users -> SUBSET Sockets]] /\ presenceKeys' \subseteq Channels
    BY <1>10, <2>0 DEF TypeOK, NsTypeOK, LeavePresence, RemovePresenceMember
  <2> QED BY <1>10, <2>2, <2>3 DEF TypeOK, NsTypeOK, LeavePresence
<1>11. CASE RemoveEmptyPresence(s)
  <2>1. (AfterRemovePresence(flag[s])) \in Pcs
    BY <1>0 DEF Pcs, AfterRemovePresence
  <2>2. LocalsOK'
    BY <1>11, <1>0, <2>1, HandlerStepType DEF RemoveEmptyPresence
  <2> QED BY <1>11, <1>0, <2>2 DEF TypeOK, NsTypeOK, RemoveEmptyPresence, DropPresence
<1>12. CASE SendMemberRemoved(s)
  <2>0. cur[s] \in Channels /\ arg[s] \in Users
    BY <1>12 DEF CallOK, ChannelPcs, MemberPcs, SendMemberRemoved, HandlerStep, Goto
  <2>1. ("leave") \in Pcs
    BY <1>0 DEF Pcs
  <2>2. LocalsOK'
    BY <1>12, <1>0, <2>1, HandlerStepType DEF SendMemberRemoved
  <2>3. removed' \in [Channels -> [Users -> Nat]]
    BY <1>12, <2>0 DEF TypeOK, SendMemberRemoved
  <2> QED BY <1>12, <2>2, <2>3 DEF TypeOK, NsTypeOK, SendMemberRemoved
<1>13. CASE Leave(s)
  <2>1. (IF StaysOccupied(s, cur[s]) THEN AfterLeave(s) ELSE "dropChannel") \in Pcs
    BY <1>0 DEF Pcs, AfterLeave
  <2>2. LocalsOK'
    BY <1>13, <1>0, <2>1, HandlerStepType DEF Leave
  <2> QED BY <1>13, <1>0, <2>2 DEF TypeOK, NsTypeOK, Leave, RemoveFromChannel
<1>14. CASE RemoveEmptyChannel(s)
  <2>1. ("vacated") \in Pcs
    BY <1>0 DEF Pcs
  <2>2. LocalsOK'
    BY <1>14, <1>0, <2>1, HandlerStepType DEF RemoveEmptyChannel
  <2> QED BY <1>14, <1>0, <2>2 DEF TypeOK, NsTypeOK, RemoveEmptyChannel, DropChannel
<1>15. CASE SendVacated(s)
  <2>1. (AfterLeave(s)) \in Pcs
    BY <1>0 DEF Pcs, AfterLeave
  <2>2. LocalsOK'
    BY <1>15, <1>0, <2>1, HandlerStepType DEF SendVacated
  <2> QED BY <1>15, <1>0, <2>2 DEF TypeOK, NsTypeOK, SendVacated
<1>16. CASE CloseUser(s)
  BY <1>16 DEF TypeOK, NsTypeOK, Pcs, Goto, CloseUser, RemoveUser
<1>17. CASE CloseNoUser(s)
  BY <1>17 DEF TypeOK, NsTypeOK, Pcs, Goto, CloseNoUser
<1>18. CASE RemoveEmptyUser(s)
  BY <1>18 DEF TypeOK, NsTypeOK, Pcs, Goto, RemoveEmptyUser, DropUser
<1>19. CASE Unregister(s)
  BY <1>19 DEF TypeOK, NsTypeOK, Pcs, Goto, Unregister, RemoveSocket
<1>20. CASE Uncount(s)
  BY <1>20 DEF TypeOK, NsTypeOK, Pcs, Goto, Uncount, UncountSocket
<1>21. CASE Unindex(s)
  BY <1>21 DEF TypeOK, NsTypeOK, Pcs, Goto, Unindex, UnindexSocket
<1>22. CASE Close(s)
  BY <1>22 DEF TypeOK, NsTypeOK, Pcs, Goto, Close
<1>23. ASSUME NEW c \in Channels, CloseChannel(s, c) PROVE TypeOK'
  <2>1. (LeaveStart(s, c)) \in Pcs
    BY DEF Pcs, LeaveStart
  <2>2. LocalsOK'
    BY <1>23, <1>0, <2>1, HandlerStepType DEF CloseChannel
  <2> QED BY <1>23, <1>0, <2>2, RequestsAssumption DEF TypeOK, NsTypeOK, CloseChannel
<1>24. ASSUME NEW c \in Channels, SubscribePublic(s, c) PROVE TypeOK'
  <2>1. (IF WasEmpty(c) THEN "occupied" ELSE "open") \in Pcs
    BY DEF Pcs
  <2>2. LocalsOK'
    BY <1>24, <1>0, <2>1, HandlerStepType DEF SubscribePublic
  <2>3. requests' \in [Sockets -> 0..MaxRequests]
    BY <1>24, RequestType DEF SubscribePublic
  <2>4. subscribed' \in [Sockets -> SUBSET Channels]
    BY <1>24 DEF TypeOK, SubscribePublic
  <2>5. channels' \in [Channels -> SUBSET Sockets] /\ channelKeys' \subseteq Channels /\ socketChannels' \in [Sockets -> SUBSET Channels]
    BY <1>24 DEF TypeOK, NsTypeOK, SubscribePublic, AddToChannel
  <2> QED BY <1>24, <2>2, <2>3, <2>4, <2>5 DEF TypeOK, NsTypeOK, SubscribePublic
<1>25. ASSUME NEW c \in Channels, Unsubscribe(s, c) PROVE TypeOK'
  <2>1. (LeaveStart(s, c)) \in Pcs
    BY DEF Pcs, LeaveStart
  <2>2. LocalsOK'
    BY <1>25, <1>0, <2>1, HandlerStepType DEF Unsubscribe
  <2>3. requests' \in [Sockets -> 0..MaxRequests]
    BY <1>25, RequestType DEF Unsubscribe
  <2>4. member' \in [Sockets -> [Channels -> Users \cup {NoUser}]]
    BY <1>25 DEF TypeOK, Unsubscribe
  <2>5. subscribed' \in [Sockets -> SUBSET Channels]
    BY <1>25 DEF TypeOK, Unsubscribe
  <2> QED BY <1>25, <2>2, <2>3, <2>4, <2>5 DEF TypeOK, NsTypeOK, Unsubscribe
<1>26. ASSUME NEW c \in Channels, NEW u \in Users, SubscribePresence(s, c, u) PROVE TypeOK'
  <2>1. (IF Admits(c, u) THEN "join" ELSE "open") \in Pcs /\ (u \notin Members(c)) \in BOOLEAN
    BY DEF Pcs
  <2>2. LocalsOK'
    BY <1>26, <1>0, <2>1, HandlerStepType DEF SubscribePresence
  <2>3. requests' \in [Sockets -> 0..MaxRequests]
    BY <1>26, RequestType DEF SubscribePresence
  <2>4. presence' \in [Channels -> [Users -> SUBSET Sockets]] /\ presenceKeys' \subseteq Channels
    BY <1>26 DEF TypeOK, NsTypeOK, SubscribePresence, TryAddPresenceMember
  <2> QED BY <1>26, <2>2, <2>3, <2>4 DEF TypeOK, NsTypeOK, SubscribePresence
<1>27. ASSUME NEW u \in Users, Signin(s, u) PROVE TypeOK'
  BY <1>27, RequestsAssumption DEF TypeOK, NsTypeOK, Pcs, Goto, Signin, Request, AddUser
<1> QED
  BY <1>1, <1>2, <1>3, <1>4, <1>5, <1>6, <1>7, <1>8, <1>9, <1>10, <1>11, <1>12, <1>13, <1>14, <1>15, <1>16, <1>17, <1>18, <1>19, <1>20, <1>21, <1>22, <1>23, <1>24, <1>25, <1>26, <1>27, RequestsAssumption DEF Step, Client

\* CallOK is inductive.
LEMMA CallStep ==
  ASSUME TypeOK, CallOK, NEW s \in Sockets, Step(s) \/ Client(s)
  PROVE  CallOK'
<1> USE DEF TypeOK, CallOK, ChannelPcs, MemberPcs, Goto
<1>1. CASE LoadCount(s) \/ CasSucceeds(s) \/ CasFails(s)
  BY <1>1 DEF LoadCount, CasSucceeds, CasFails
<1>2. CASE Register(s)
  BY <1>2 DEF Register, localVars
<1>11. CASE Count(s) \/ Greet(s)
  BY <1>11 DEF Count, Greet, localVars
<1>3. CASE Join(s)
  BY <1>3 DEF Join, HandlerStep, AfterJoin
<1>12. CASE SendOccupied(s)
  BY <1>12 DEF SendOccupied, HandlerStep, AfterJoin
<1>13. CASE SendMemberAdded(s)
  BY <1>13 DEF SendMemberAdded, HandlerStep
<1>4. CASE LeavePresence(s)
  BY <1>4 DEF LeavePresence, HandlerStep, AfterRemovePresence
<1>14. CASE RemoveEmptyPresence(s)
  BY <1>14 DEF RemoveEmptyPresence, HandlerStep, AfterRemovePresence
<1>15. CASE SendMemberRemoved(s)
  BY <1>15 DEF SendMemberRemoved, HandlerStep
<1>5. CASE Leave(s)
  BY <1>5 DEF Leave, HandlerStep, AfterLeave
<1>16. CASE RemoveEmptyChannel(s)
  BY <1>16 DEF RemoveEmptyChannel, HandlerStep
<1>17. CASE SendVacated(s)
  BY <1>17 DEF SendVacated, HandlerStep, AfterLeave
<1>6. ASSUME NEW c \in Channels, CloseChannel(s, c) \/ Unsubscribe(s, c) \/ SubscribePublic(s, c)
      PROVE  CallOK'
  BY <1>6 DEF CloseChannel, Unsubscribe, SubscribePublic, HandlerStep, LeaveStart
<1>7. ASSUME NEW c \in Channels, NEW u \in Users, SubscribePresence(s, c, u)
      PROVE  CallOK'
  BY <1>7 DEF SubscribePresence, HandlerStep
<1>8. CASE CloseUser(s) \/ CloseNoUser(s) \/ RemoveEmptyUser(s)
  BY <1>8 DEF CloseUser, CloseNoUser, RemoveEmptyUser, localVars
<1>9. CASE Unregister(s) \/ Uncount(s) \/ Unindex(s) \/ Close(s)
  BY <1>9 DEF Unregister, Uncount, Unindex, Close, localVars
<1>10. ASSUME NEW u \in Users, Signin(s, u) PROVE CallOK'
  BY <1>10 DEF Signin, localVars
<1> QED
  BY <1>1, <1>2, <1>3, <1>4, <1>5, <1>6, <1>7, <1>8, <1>9, <1>10, <1>11, <1>12, <1>13,
     <1>14, <1>15, <1>16, <1>17, RequestsAssumption DEF Step, Client

----------------------------------------------------------------------------
(* Admission *)

\* What the tasks of the CAS loop know: a value that passed the limit test,
\* and which of the two ways of registering a socket is in use.
ReservationOK ==
  /\ ~ Unlimited => connectionCount <= MaxConnections
  /\ \A s \in Sockets : /\ pc[s] = "cas" => seen[s] < MaxConnections
                        /\ pc[s] \in {"cas", "insert"} => ~ Unlimited
                        /\ pc[s] = "count" => Unlimited

\* The sockets registered and counted at a pc
HeldPcs == Pcs \ {"new", "cas", "insert", "rejected", "unindex", "closed", "uncount"}
CountedPcs == (HeldPcs \ {"count"}) \cup {"insert", "uncount"}

\* The sets that are counted, as places of the tasks; they are finite.
LEMMA CountedIs ==
  ASSUME TypeOK
  PROVE  /\ Registered = {s \in Sockets : pc[s] \in HeldPcs}
         /\ Counted = {s \in Sockets : pc[s] \in CountedPcs}
         /\ IsFiniteSet(Counted) /\ Cardinality(Counted) \in Nat
<1>1. /\ Registered = {s \in Sockets : pc[s] \in HeldPcs}
      /\ Counted = {s \in Sockets : pc[s] \in CountedPcs}
  BY DEF TypeOK, Registered, Counted, Held, HeldPcs, CountedPcs, Pcs
<1>2. Counted \in SUBSET Sockets
  BY DEF Counted
<1> QED BY <1>1, <1>2, FiniteAssumption, FS_Subset, FS_CardinalityType

\* The handlers and the closing of a socket, as opposed to the actions that
\* register, count, unregister or uncount it.
Handling(s) ==
  \/ Greet(s) \/ Join(s) \/ SendOccupied(s) \/ SendMemberAdded(s)
  \/ LeavePresence(s) \/ RemoveEmptyPresence(s) \/ SendMemberRemoved(s)
  \/ Leave(s) \/ RemoveEmptyChannel(s) \/ SendVacated(s)
  \/ (\E c \in Channels : CloseChannel(s, c))
  \/ CloseUser(s) \/ CloseNoUser(s) \/ RemoveEmptyUser(s)
  \/ Client(s)

\* They touch neither the sockets nor the counter, and no other task's pc.
LEMMA HandlingIsNeutral ==
  ASSUME TypeOK, NEW s \in Sockets, Handling(s)
  PROVE  /\ UNCHANGED <<sockets, connectionCount, seen>>
         /\ \A t \in Sockets \ {s} : pc'[t] = pc[t]
         /\ pc[s] \in HeldPcs \ {"count"} /\ pc'[s] \in HeldPcs \ {"count"}
<1> USE DEF TypeOK, HeldPcs, Pcs, Goto, HandlerStep, nsVars, socketVars, localVars
<1>1. CASE Greet(s) \/ CloseUser(s) \/ CloseNoUser(s) \/ RemoveEmptyUser(s) \/ Close(s)
  BY <1>1 DEF Greet, CloseUser, CloseNoUser, RemoveEmptyUser, Close
<1>2. CASE Join(s)
  BY <1>2 DEF Join, AfterJoin
<1>9. CASE SendOccupied(s)
  BY <1>9 DEF SendOccupied, AfterJoin
<1>10. CASE SendMemberAdded(s)
  BY <1>10 DEF SendMemberAdded
<1>3. CASE LeavePresence(s)
  <2>1. HandlerStep(s, "leavePresence",
            IF EmptiesPresence(s, cur[s], arg[s]) THEN "dropPresence"
            ELSE AfterRemovePresence(UserGone(s, cur[s], arg[s])), cur[s], arg[s], UserGone(s, cur[s], arg[s]))
        /\ UNCHANGED <<sockets, connectionCount>>
    BY <1>3 DEF LeavePresence
  <2> QED BY <2>1 DEF AfterRemovePresence
<1>4. CASE RemoveEmptyPresence(s) \/ SendMemberRemoved(s)
  BY <1>4 DEF RemoveEmptyPresence, SendMemberRemoved, AfterRemovePresence
<1>5. CASE Leave(s) \/ RemoveEmptyChannel(s) \/ SendVacated(s)
  BY <1>5 DEF Leave, RemoveEmptyChannel, SendVacated, AfterLeave
<1>6. ASSUME NEW c \in Channels, CloseChannel(s, c) \/ Unsubscribe(s, c) \/ SubscribePublic(s, c)
      PROVE  /\ UNCHANGED <<sockets, connectionCount, seen>>
             /\ \A t \in Sockets \ {s} : pc'[t] = pc[t]
             /\ pc[s] \in HeldPcs \ {"count"} /\ pc'[s] \in HeldPcs \ {"count"}
  BY <1>6 DEF CloseChannel, Unsubscribe, SubscribePublic, LeaveStart
<1>7. ASSUME NEW c \in Channels, NEW u \in Users, SubscribePresence(s, c, u)
      PROVE  /\ UNCHANGED <<sockets, connectionCount, seen>>
             /\ \A t \in Sockets \ {s} : pc'[t] = pc[t]
             /\ pc[s] \in HeldPcs \ {"count"} /\ pc'[s] \in HeldPcs \ {"count"}
  BY <1>7 DEF SubscribePresence
<1>8. ASSUME NEW u \in Users, Signin(s, u)
      PROVE  /\ UNCHANGED <<sockets, connectionCount, seen>>
             /\ \A t \in Sockets \ {s} : pc'[t] = pc[t]
             /\ pc[s] \in HeldPcs \ {"count"} /\ pc'[s] \in HeldPcs \ {"count"}
  BY <1>8 DEF Signin
<1> QED
  BY <1>1, <1>2, <1>3, <1>4, <1>5, <1>6, <1>7, <1>8, <1>9, <1>10, RequestsAssumption DEF Handling, Client

\* A step is one of admission, of handling or of removal.
LEMMA StepCases ==
  ASSUME NEW s \in Sockets, Step(s) \/ Client(s)
  PROVE  \/ Handling(s)
         \/ LoadCount(s) \/ CasSucceeds(s) \/ CasFails(s) \/ Register(s) \/ Count(s)
         \/ Unregister(s) \/ Uncount(s) \/ Unindex(s)
BY DEF Step, Handling

AdmissionInv == TypeOK /\ CallOK /\ ConnectionAccounting /\ ReservationOK

\* The effect of a step of s on the two sets
LEMMA SetsStep ==
  ASSUME TypeOK, TypeOK', NEW s \in Sockets, \A t \in Sockets \ {s} : pc'[t] = pc[t]
  PROVE  /\ Registered' = IF pc'[s] \in HeldPcs THEN Registered \cup {s} ELSE Registered \ {s}
         /\ Counted' = IF pc'[s] \in CountedPcs THEN Counted \cup {s} ELSE Counted \ {s}
<1>1. /\ Registered = {t \in Sockets : pc[t] \in HeldPcs}
      /\ Counted = {t \in Sockets : pc[t] \in CountedPcs}
  BY CountedIs
<1>2. /\ Registered' = {t \in Sockets : pc'[t] \in HeldPcs}
      /\ Counted' = {t \in Sockets : pc'[t] \in CountedPcs}
  BY DEF TypeOK, Registered, Counted, Held, HeldPcs, CountedPcs, Pcs
<1> QED BY <1>1, <1>2

\* fetch_sub finds a positive counter: its caller's own slot is counted.
LEMMA CountNeverNegative ==
  ASSUME AdmissionInv, NEW s \in Sockets, Step(s) \/ Client(s)
  PROVE  connectionCount' \in Nat
<1> USE DEF AdmissionInv
<1>1. CASE Uncount(s)
  <2>1. s \in Counted
    BY <1>1 DEF Counted, Uncount, Goto
  <2>2. IsFiniteSet(Counted) /\ Cardinality(Counted) \in Nat /\ Cardinality(Counted) # 0
    BY <2>1, CountedIs, FS_EmptySet
  <2> QED BY <1>1, <2>2 DEF Uncount, UncountSocket, ConnectionAccounting
<1>2. CASE CasSucceeds(s) \/ Count(s)
  BY <1>2 DEF CasSucceeds, ReserveSlot, Count, CountSocket, TypeOK, NsTypeOK
<1>3. CASE Handling(s)
  BY <1>3, HandlingIsNeutral DEF TypeOK, NsTypeOK
<1>4. CASE LoadCount(s) \/ CasFails(s) \/ Register(s) \/ Unregister(s) \/ Unindex(s)
  BY <1>4 DEF LoadCount, CasFails, Register, InsertSocket, Unregister, RemoveSocket, Unindex,
              nsVars, socketVars, TypeOK, NsTypeOK
<1> QED BY <1>1, <1>2, <1>3, <1>4, StepCases

\* The counter follows the slots through every step.
LEMMA AccountingStep ==
  ASSUME AdmissionInv, TypeOK', NEW s \in Sockets, Step(s) \/ Client(s)
  PROVE  ConnectionAccounting' /\ ReservationOK'
<1> USE DEF AdmissionInv
<1>0. /\ IsFiniteSet(Counted) /\ Cardinality(Counted) \in Nat
      /\ Registered = {t \in Sockets : pc[t] \in HeldPcs}
      /\ Counted = {t \in Sockets : pc[t] \in CountedPcs}
      /\ MaxConnections \in Int
      /\ connectionCount \in Nat /\ connectionCount = Cardinality(Counted) /\ sockets = Registered
  BY CountedIs, LimitAssumption DEF ConnectionAccounting, TypeOK, NsTypeOK
<1>1. CASE Handling(s)
  <2>1. /\ UNCHANGED <<sockets, connectionCount, seen>>
        /\ \A t \in Sockets \ {s} : pc'[t] = pc[t]
        /\ pc[s] \in HeldPcs \ {"count"} /\ pc'[s] \in HeldPcs \ {"count"}
    BY <1>1, HandlingIsNeutral
  <2>2. Registered' = Registered /\ Counted' = Counted
    BY <1>0, <2>1, SetsStep DEF CountedPcs
  <2>3. ConnectionAccounting'
    BY <1>0, <2>1, <2>2 DEF ConnectionAccounting
  <2>4. ReservationOK'
    BY <2>1 DEF ReservationOK, HeldPcs, Unlimited
  <2> QED BY <2>3, <2>4
<1>2. CASE LoadCount(s) \/ CasFails(s) \/ Unindex(s)
  <2>1. /\ UNCHANGED <<sockets, connectionCount>>
        /\ \A t \in Sockets \ {s} : pc'[t] = pc[t]
        /\ pc[s] \notin HeldPcs \cup CountedPcs /\ pc'[s] \notin HeldPcs \cup CountedPcs
    BY <1>2 DEF LoadCount, CasFails, Unindex, Goto, HeldPcs, CountedPcs, Pcs, nsVars, socketVars, TypeOK
  <2>2. Registered' = Registered /\ Counted' = Counted
    BY <1>0, <2>1, SetsStep
  <2>3. ConnectionAccounting'
    BY <1>0, <2>1, <2>2 DEF ConnectionAccounting
  <2>4. ReservationOK'
    BY <1>0, <1>2 DEF ReservationOK, Unlimited, LoadCount, CasFails, Unindex, Goto, nsVars,
                      socketVars, localVars, TypeOK
  <2> QED BY <2>3, <2>4
<1>3. CASE CasSucceeds(s)
  <2>1. /\ sockets' = sockets /\ connectionCount' = connectionCount + 1
        /\ \A t \in Sockets \ {s} : pc'[t] = pc[t]
        /\ pc[s] = "cas" /\ pc'[s] = "insert"
    BY <1>3 DEF CasSucceeds, ReserveSlot, Goto, TypeOK
  <2>2. Registered' = Registered /\ Counted' = Counted \cup {s} /\ s \notin Counted
    BY <1>0, <2>1, SetsStep DEF HeldPcs, CountedPcs, Pcs
  <2>3. ConnectionAccounting'
    <3>1. Cardinality(Counted \cup {s}) = Cardinality(Counted) + 1
      BY <1>0, <2>2, FS_AddElement
    <3> QED BY <1>0, <2>1, <2>2, <3>1 DEF ConnectionAccounting
  <2>4. ReservationOK'
    BY <1>0, <1>3, <2>1 DEF ReservationOK, Unlimited, CasSucceeds, ReserveSlot, Goto, TypeOK
  <2> QED BY <2>3, <2>4
<1>4. CASE Register(s)
  <2>1. /\ sockets' = sockets \cup {s} /\ UNCHANGED <<connectionCount, seen>>
        /\ \A t \in Sockets \ {s} : pc'[t] = pc[t]
        /\ \/ Unlimited /\ pc[s] = "new" /\ pc'[s] = "count"
           \/ ~ Unlimited /\ pc[s] = "insert" /\ pc'[s] = "greet"
    BY <1>4 DEF Register, InsertSocket, Goto, TypeOK, localVars
  <2>2. Registered' = Registered \cup {s} /\ Counted' = Counted
    BY <1>0, <2>1, SetsStep DEF HeldPcs, CountedPcs, Pcs
  <2>3. ConnectionAccounting'
    BY <1>0, <2>1, <2>2 DEF ConnectionAccounting
  <2>4. ReservationOK'
    BY <1>0, <2>1 DEF ReservationOK, Unlimited
  <2> QED BY <2>3, <2>4
<1>5. CASE Count(s)
  <2>1. /\ sockets' = sockets /\ connectionCount' = connectionCount + 1 /\ seen' = seen
        /\ \A t \in Sockets \ {s} : pc'[t] = pc[t]
        /\ pc[s] = "count" /\ pc'[s] = "greet"
    BY <1>5 DEF Count, CountSocket, Goto, TypeOK, localVars
  <2>2. Registered' = Registered /\ Counted' = Counted \cup {s} /\ s \notin Counted
    BY <1>0, <2>1, SetsStep DEF HeldPcs, CountedPcs, Pcs
  <2>3. ConnectionAccounting'
    <3>1. Cardinality(Counted \cup {s}) = Cardinality(Counted) + 1
      BY <1>0, <2>2, FS_AddElement
    <3> QED BY <1>0, <2>1, <2>2, <3>1 DEF ConnectionAccounting
  <2>4. ReservationOK'
    BY <1>0, <2>1 DEF ReservationOK, Unlimited
  <2> QED BY <2>3, <2>4
<1>6. CASE Unregister(s)
  <2>1. /\ sockets' = sockets \ {s} /\ UNCHANGED <<connectionCount, seen>>
        /\ \A t \in Sockets \ {s} : pc'[t] = pc[t]
        /\ pc[s] = "removing" /\ pc'[s] = "uncount"
    BY <1>0, <1>6 DEF Unregister, RemoveSocket, Goto, TypeOK, localVars, HeldPcs, Pcs
  <2>2. Registered' = Registered \ {s} /\ Counted' = Counted
    BY <1>0, <2>1, SetsStep DEF HeldPcs, CountedPcs, Pcs
  <2>3. ConnectionAccounting'
    BY <1>0, <2>1, <2>2 DEF ConnectionAccounting
  <2>4. ReservationOK'
    BY <1>0, <2>1 DEF ReservationOK, Unlimited
  <2> QED BY <2>3, <2>4
<1>7. CASE Uncount(s)
  <2>1. /\ sockets' = sockets /\ connectionCount' = connectionCount - 1 /\ seen' = seen
        /\ \A t \in Sockets \ {s} : pc'[t] = pc[t]
        /\ pc[s] = "uncount" /\ pc'[s] = "unindex"
    BY <1>7 DEF Uncount, UncountSocket, Goto, TypeOK, localVars
  <2>2. Registered' = Registered /\ Counted' = Counted \ {s} /\ s \in Counted
    BY <1>0, <2>1, SetsStep DEF HeldPcs, CountedPcs, Pcs
  <2>3. ConnectionAccounting'
    <3>1. Cardinality(Counted \ {s}) = Cardinality(Counted) - 1
      BY <1>0, <2>2, FS_RemoveElement
    <3> QED BY <1>0, <2>1, <2>2, <3>1 DEF ConnectionAccounting
  <2>4. ReservationOK'
    BY <1>0, <2>1 DEF ReservationOK, Unlimited
  <2> QED BY <2>3, <2>4
<1> QED BY <1>1, <1>2, <1>3, <1>4, <1>5, <1>6, <1>7, StepCases

\* AdmissionInv holds in every reachable state.
THEOREM AdmissionInvariant == Spec => []AdmissionInv
<1>1. Init => AdmissionInv
  <2> SUFFICES ASSUME Init PROVE AdmissionInv
    OBVIOUS
  <2>1. TypeOK
    BY RequestsAssumption DEF Init, NsInit, TypeOK, NsTypeOK, Pcs
  <2>2. CallOK
    BY DEF Init, CallOK, ChannelPcs, MemberPcs
  <2>3. Registered = {} /\ Counted = {}
    BY DEF Init, Registered, Counted, Held
  <2>4. ConnectionAccounting
    BY <2>3, FS_EmptySet DEF Init, NsInit, ConnectionAccounting
  <2>5. ReservationOK
    BY LimitAssumption DEF Init, NsInit, ReservationOK, Unlimited
  <2> QED BY <2>1, <2>2, <2>4, <2>5 DEF AdmissionInv
<1>2. AdmissionInv /\ [Next]_vars => AdmissionInv'
  <2> SUFFICES ASSUME AdmissionInv, [Next]_vars PROVE AdmissionInv'
    OBVIOUS
  <2>1. ASSUME NEW s \in Sockets, Step(s) \/ Client(s) PROVE AdmissionInv'
    <3>1. connectionCount' \in Nat
      BY <2>1, CountNeverNegative
    <3>2. TypeOK' /\ CallOK'
      BY <2>1, <3>1, TypeStep, CallStep DEF AdmissionInv
    <3> QED BY <2>1, <3>2, AccountingStep DEF AdmissionInv
  <2>2. CASE UNCHANGED vars
    BY <2>2 DEF vars, nsVars, socketVars, channelVars, presenceVars, userVars, localVars,
                connVars, eventVars, AdmissionInv, TypeOK, NsTypeOK, CallOK, ConnectionAccounting,
                ReservationOK, Registered, Counted, Held, Members
  <2> QED BY <2>1, <2>2 DEF Next
<1> QED BY <1>1, <1>2, PTL DEF Spec

\* Type correctness; in particular connection_count never wraps below zero.
THEOREM TypeCorrect == Spec => []TypeOK
BY AdmissionInvariant, PTL DEF AdmissionInv

\* connection_count is the number of slots in use.
THEOREM AccountingCorrect == Spec => []ConnectionAccounting
BY AdmissionInvariant, PTL DEF AdmissionInv

\* At most max_connections sockets are registered, for any number of
\* connection attempts that race for the last slot.
THEOREM LimitRespected == Spec => []AdmissionLimit
<1>1. AdmissionInv => AdmissionLimit
  <2> SUFFICES ASSUME AdmissionInv, ~ Unlimited PROVE Cardinality(sockets) <= MaxConnections
    BY DEF AdmissionLimit
  <2>1. /\ IsFiniteSet(Counted) /\ Cardinality(Counted) \in Nat
        /\ connectionCount = Cardinality(Counted) /\ sockets = Registered
    BY CountedIs DEF AdmissionInv, ConnectionAccounting
  <2>2. Registered \in SUBSET Counted
    BY DEF AdmissionInv, ReservationOK, Registered, Counted
  <2>3. IsFiniteSet(Registered) /\ Cardinality(Registered) \in Nat
        /\ Cardinality(Registered) <= Cardinality(Counted)
    BY <2>1, <2>2, FS_Subset, FS_CardinalityType
  <2> QED BY <2>1, <2>3, LimitAssumption DEF AdmissionInv, ReservationOK
<1> QED BY <1>1, AdmissionInvariant, PTL

----------------------------------------------------------------------------
(* The reverse index *)

BeforePcs == {"new", "cas", "insert", "count", "greet", "rejected"}
LeavePcs  == {"leavePresence", "dropPresence", "memberRemoved", "leave", "dropChannel"}
EndPcs    == {"dropUser", "removing", "uncount", "unindex", "closed"}

\* The channels that the task of s still remembers to leave, and the one it is
\* leaving.
Remembered(s) == IF s \in closing THEN todo[s] ELSE subscribed[s]
Leaving(s)    == IF pc[s] \in LeavePcs THEN {cur[s]} ELSE {}

\* A task finds every channel of its reverse index again: through the
\* connection's own set, or the snapshot on_close iterates over.
IndexOwned ==
  \A s \in Sockets :
    /\ socketChannels[s] \subseteq Remembered(s) \cup Leaving(s)
    /\ pc[s] \in BeforePcs => subscribed[s] = {}
    /\ s \in closing => pc[s] \in LeavePcs \cup EndPcs \cup {"vacated", "closing"}
    /\ pc[s] = "closing" => s \in closing
    /\ pc[s] \in EndPcs => socketChannels[s] = {}

IndexInv == IndexOwned /\ NoGhostSubscriber

\* The steps that leave the channels alone.
LEMMA IndexUntouched ==
  ASSUME AdmissionInv, IndexInv, NEW s \in Sockets,
         \/ LoadCount(s) \/ CasSucceeds(s) \/ CasFails(s) \/ Register(s) \/ Count(s) \/ Greet(s)
         \/ SendOccupied(s) \/ SendMemberAdded(s)
         \/ LeavePresence(s) \/ RemoveEmptyPresence(s) \/ SendMemberRemoved(s) \/ SendVacated(s)
         \/ \E c \in Channels : CloseChannel(s, c) \/ Unsubscribe(s, c)
         \/ CloseUser(s) \/ CloseNoUser(s) \/ RemoveEmptyUser(s)
         \/ Unregister(s) \/ Uncount(s) \/ Close(s)
         \/ \E c \in Channels, u \in Users : SubscribePresence(s, c, u)
         \/ \E u \in SigninUsers : Signin(s, u)
  PROVE  IndexInv'
<1> USE DEF IndexInv, IndexOwned, Remembered, Leaving, BeforePcs, LeavePcs, EndPcs
<1>t. /\ pc \in [Sockets -> Pcs] /\ cur \in [Sockets -> Channels \cup {NoChannel}]
      /\ todo \in [Sockets -> SUBSET Channels] /\ subscribed \in [Sockets -> SUBSET Channels]
      /\ closing \subseteq Sockets
      /\ socketChannels \in [Sockets -> SUBSET Channels]
  BY DEF AdmissionInv, TypeOK, NsTypeOK
<1>c. UNCHANGED <<channels, socketChannels>>
  BY DEF LoadCount, CasSucceeds, CasFails, Register, Count, Greet, SendOccupied, SendMemberAdded,
         LeavePresence, RemoveEmptyPresence, SendMemberRemoved, SendVacated, CloseChannel, Unsubscribe,
         CloseUser, CloseNoUser, RemoveEmptyUser, Unregister, Uncount, Close, SubscribePresence, Signin,
         nsVars, channelVars
<1>1. CASE LoadCount(s) \/ CasSucceeds(s) \/ CasFails(s) \/ Register(s) \/ Count(s) \/ Greet(s)
  <2>1. IndexOwned'
    BY <1>t, <1>c, <1>1 DEF LoadCount, CasSucceeds, CasFails, Register, Count, Greet, Goto, localVars,
                            connVars
  <2>2. sockets \subseteq sockets'
    BY <1>1 DEF LoadCount, CasSucceeds, CasFails, Register, Count, Greet, nsVars, socketVars,
                ReserveSlot, InsertSocket, CountSocket
  <2> QED BY <1>c, <2>1, <2>2 DEF NoGhostSubscriber
<1>2. CASE SendOccupied(s) \/ SendMemberAdded(s) \/ SendVacated(s)
  <2>1. IndexOwned'
    <3>1. CASE SendOccupied(s)
      BY <1>t, <1>c, <3>1 DEF SendOccupied, HandlerStep, Goto, AfterJoin, connVars
    <3>2. CASE SendMemberAdded(s)
      BY <1>t, <1>c, <3>2 DEF SendMemberAdded, HandlerStep, Goto, connVars
    <3>3. CASE SendVacated(s)
      BY <1>t, <1>c, <3>3 DEF SendVacated, HandlerStep, Goto, AfterLeave, connVars
    <3> QED BY <1>2, <3>1, <3>2, <3>3
  <2> QED BY <1>2, <1>c, <2>1 DEF NoGhostSubscriber, SendOccupied, SendMemberAdded, SendVacated, nsVars,
                                  socketVars
<1>3. CASE LeavePresence(s) \/ RemoveEmptyPresence(s) \/ SendMemberRemoved(s)
  <2>1. /\ pc[s] \in LeavePcs
        /\ \E to \in LeavePcs : pc' = [pc EXCEPT ![s] = to]
        /\ cur' = [cur EXCEPT ![s] = cur[s]]
        /\ UNCHANGED <<sockets, todo, closing, subscribed>>
    BY <1>3 DEF LeavePresence, RemoveEmptyPresence, SendMemberRemoved, HandlerStep, Goto,
                AfterRemovePresence, connVars, nsVars, socketVars
  <2>2. cur' = cur
    BY <1>t, <2>1
  <2>3. IndexOwned'
    BY <1>t, <1>c, <2>1, <2>2
  <2> QED BY <1>c, <2>1, <2>3 DEF NoGhostSubscriber
<1>4. ASSUME NEW c \in Channels, CloseChannel(s, c) \/ Unsubscribe(s, c) PROVE IndexInv'
  <2>1. IndexOwned'
    BY <1>t, <1>c, <1>4 DEF CloseChannel, Unsubscribe, HandlerStep, Goto, LeaveStart, connVars
  <2> QED BY <1>4, <1>c, <2>1 DEF NoGhostSubscriber, CloseChannel, Unsubscribe, nsVars, socketVars
<1>5. CASE CloseUser(s) \/ CloseNoUser(s) \/ RemoveEmptyUser(s) \/ Uncount(s) \/ Close(s)
  <2>1. IndexOwned'
    BY <1>t, <1>c, <1>5 DEF CloseUser, CloseNoUser, RemoveEmptyUser, Uncount, Close, Goto, localVars,
                            connVars
  <2> QED BY <1>5, <1>c, <2>1 DEF NoGhostSubscriber, CloseUser, CloseNoUser, RemoveEmptyUser, Uncount,
                                  UncountSocket, Close, nsVars, socketVars
<1>6. CASE Unregister(s)
  <2>1. IndexOwned'
    BY <1>t, <1>c, <1>6 DEF Unregister, Goto, localVars, connVars
  <2>2. socketChannels[s] = {}
    BY <1>6 DEF Unregister, Goto
  <2>3. \A c \in Channels : s \notin channels[c]
    BY <2>2 DEF NoGhostSubscriber
  <2> QED BY <1>6, <1>c, <2>1, <2>3 DEF NoGhostSubscriber, Unregister, RemoveSocket
<1>7. ASSUME NEW c \in Channels, NEW u \in Users, SubscribePresence(s, c, u) PROVE IndexInv'
  <2>1. IndexOwned'
    BY <1>t, <1>c, <1>7 DEF SubscribePresence, HandlerStep, Goto, connVars
  <2> QED BY <1>7, <1>c, <2>1 DEF NoGhostSubscriber, SubscribePresence, socketVars
<1>8. ASSUME NEW u \in SigninUsers, Signin(s, u) PROVE IndexInv'
  <2>1. IndexOwned'
    BY <1>t, <1>c, <1>8 DEF Signin, Goto, localVars
  <2> QED BY <1>8, <1>c, <2>1 DEF NoGhostSubscriber, Signin, socketVars
<1> QED BY <1>1, <1>2, <1>3, <1>4, <1>5, <1>6, <1>7, <1>8

\* Joining, leaving and the cleanup of remove_socket.
LEMMA IndexTouched ==
  ASSUME AdmissionInv, IndexInv, NEW s \in Sockets,
         \/ Join(s) \/ (\E c \in Channels : SubscribePublic(s, c))
         \/ Leave(s) \/ RemoveEmptyChannel(s) \/ Unindex(s)
  PROVE  IndexInv'
<1> USE DEF IndexInv, IndexOwned, Remembered, Leaving, BeforePcs, LeavePcs, EndPcs
<1>t. /\ pc \in [Sockets -> Pcs] /\ cur \in [Sockets -> Channels \cup {NoChannel}]
      /\ todo \in [Sockets -> SUBSET Channels] /\ subscribed \in [Sockets -> SUBSET Channels]
      /\ closing \subseteq Sockets
      /\ channels \in [Channels -> SUBSET Sockets]
      /\ socketChannels \in [Sockets -> SUBSET Channels]
  BY DEF AdmissionInv, TypeOK, NsTypeOK
<1>u. UNCHANGED sockets
  BY DEF Join, SubscribePublic, Leave, RemoveEmptyChannel, Unindex, socketVars
<1>1. ASSUME NEW c \in Channels, AddToChannel(s, c), pc[s] \in {"open", "join"},
             \E to \in {"open", "occupied", "memberAdded"} : pc' = [pc EXCEPT ![s] = to],
             subscribed' = [subscribed EXCEPT ![s] = @ \cup {c}],
             \A t \in Sockets \ {s} : cur'[t] = cur[t],
             UNCHANGED <<todo, closing>>
      PROVE  IndexInv'
  <2>1. s \in sockets
    BY <1>1 DEF AdmissionInv, ConnectionAccounting, Registered, Held
  <2>2. s \notin closing
    BY <1>1
  <2>3. IndexOwned'
    BY <1>t, <1>1, <2>2 DEF AddToChannel
  <2> QED BY <1>t, <1>u, <1>1, <2>1, <2>3 DEF NoGhostSubscriber, AddToChannel
<1>2. CASE Join(s)
  <2>1. cur[s] \in Channels
    BY <1>2 DEF AdmissionInv, CallOK, ChannelPcs, Join, HandlerStep, Goto
  <2> QED BY <1>t, <1>1, <1>2, <2>1 DEF Join, HandlerStep, Goto, AfterJoin
<1>3. ASSUME NEW c \in Channels, SubscribePublic(s, c) PROVE IndexInv'
  BY <1>t, <1>1, <1>3 DEF SubscribePublic, HandlerStep, Goto
<1>4. CASE Leave(s)
  <2>1. cur[s] \in Channels
    BY <1>4 DEF AdmissionInv, CallOK, ChannelPcs, Leave, HandlerStep, Goto
  <2>2. IndexOwned'
    BY <1>t, <1>4, <2>1 DEF Leave, HandlerStep, Goto, RemoveFromChannel, AfterLeave, connVars
  <2> QED BY <1>t, <1>u, <1>4, <2>1, <2>2 DEF NoGhostSubscriber, Leave, RemoveFromChannel
<1>5. CASE RemoveEmptyChannel(s)
  <2>1. cur[s] \in Channels
    BY <1>5 DEF AdmissionInv, CallOK, ChannelPcs, RemoveEmptyChannel, HandlerStep, Goto
  <2>2. IndexOwned'
    BY <1>t, <1>5, <2>1 DEF RemoveEmptyChannel, HandlerStep, Goto, DropChannel, connVars
  <2> QED BY <1>t, <1>u, <1>5, <2>1, <2>2 DEF NoGhostSubscriber, RemoveEmptyChannel, DropChannel
<1>6. CASE Unindex(s)
  <2>1. IndexOwned'
    BY <1>t, <1>6 DEF Unindex, Goto, UnindexSocket, localVars, connVars
  <2> QED BY <1>t, <1>u, <1>6, <2>1 DEF NoGhostSubscriber, Unindex, UnindexSocket
<1> QED BY <1>2, <1>3, <1>4, <1>5, <1>6

\* Every channel of a reverse index is remembered by its task, in every
\* reachable state.
THEOREM IndexInvariant == Spec => []IndexInv
<1>1. Init => IndexInv
  BY DEF Init, NsInit, IndexInv, IndexOwned, Remembered, Leaving, BeforePcs, LeavePcs, EndPcs,
         NoGhostSubscriber
<1>2. AdmissionInv /\ IndexInv /\ [Next]_vars => IndexInv'
  <2> SUFFICES ASSUME AdmissionInv, IndexInv, [Next]_vars PROVE IndexInv'
    OBVIOUS
  <2>1. ASSUME NEW s \in Sockets, Step(s) \/ Client(s) PROVE IndexInv'
    BY <2>1, IndexUntouched, IndexTouched DEF Step, Client
  <2>2. CASE UNCHANGED vars
    BY <2>2 DEF vars, nsVars, socketVars, channelVars, localVars, connVars, IndexInv, IndexOwned,
                Remembered, Leaving, NoGhostSubscriber
  <2> QED BY <2>1, <2>2 DEF Next
<1> QED BY <1>1, <1>2, AdmissionInvariant, PTL DEF Spec

\* A fan-out never names a connection that is gone, and every subscriber is in
\* its own reverse index, however joins, leaves and closes interleave.
THEOREM NoGhosts == Spec => []NoGhostSubscriber
BY IndexInvariant, PTL DEF IndexInv

\* remove_socket never finds a channel to clean up: on_close has left them all.
THEOREM IndexEmpty == Spec => []IndexEmptyAtRemoval
<1>1. IndexInv => IndexEmptyAtRemoval
  BY DEF IndexInv, IndexOwned, IndexEmptyAtRemoval, EndPcs
<1> QED BY <1>1, IndexInvariant, PTL

----------------------------------------------------------------------------
(* Members *)

\* A task that is at its end remembers nothing; one that joins does so once;
\* only presence channels have members.
MemberInv ==
  /\ NoGhostMember
  /\ \A s \in Sockets : /\ pc[s] \in EndPcs => Remembered(s) = {}
                        /\ pc[s] = "join" => cur[s] \notin subscribed[s]
  /\ \A c \in Channels \ PresenceChannels, u \in Users : presence[c][u] = {}

\* The steps that leave the members and what a task remembers of them alone.
LEMMA MembersUntouched ==
  ASSUME AdmissionInv, IndexInv, MemberInv, NEW s \in Sockets,
         \/ LoadCount(s) \/ CasSucceeds(s) \/ CasFails(s) \/ Register(s) \/ Count(s) \/ Greet(s)
         \/ SendOccupied(s) \/ SendMemberAdded(s) \/ SendMemberRemoved(s)
         \/ Leave(s) \/ RemoveEmptyChannel(s) \/ SendVacated(s)
         \/ CloseUser(s) \/ CloseNoUser(s) \/ RemoveEmptyUser(s) \/ Uncount(s) \/ Unindex(s)
         \/ \E u \in SigninUsers : Signin(s, u)
  PROVE  MemberInv'
<1>t. /\ pc \in [Sockets -> Pcs] /\ cur \in [Sockets -> Channels \cup {NoChannel}]
      /\ arg \in [Sockets -> Users \cup {NoUser}]
  BY DEF AdmissionInv, TypeOK
<1>1. /\ UNCHANGED <<presence, subscribed, member, closing, todo>>
      /\ sockets \subseteq sockets'
      /\ pc[s] \notin {"join", "leavePresence"}
      /\ \E to \in Pcs \ {"join"} : pc' = [pc EXCEPT ![s] = to]
      /\ \A t \in Sockets \ {s} : cur'[t] = cur[t] /\ arg'[t] = arg[t]
  <2> USE DEF Pcs, Goto, HandlerStep, localVars, connVars, nsVars, socketVars, presenceVars
  <2>1. CASE LoadCount(s) \/ CasSucceeds(s) \/ CasFails(s) \/ Register(s) \/ Count(s) \/ Greet(s)
    BY <1>t, <2>1 DEF LoadCount, CasSucceeds, CasFails, Register, Count, Greet, ReserveSlot,
                      InsertSocket, CountSocket
  <2>2. CASE SendOccupied(s) \/ SendMemberAdded(s) \/ SendMemberRemoved(s)
    BY <1>t, <2>2 DEF SendOccupied, SendMemberAdded, SendMemberRemoved, AfterJoin
  <2>3. CASE Leave(s) \/ RemoveEmptyChannel(s) \/ SendVacated(s)
    BY <1>t, <2>3 DEF Leave, RemoveEmptyChannel, SendVacated, AfterLeave
  <2>4. CASE CloseUser(s) \/ CloseNoUser(s) \/ RemoveEmptyUser(s) \/ Uncount(s) \/ Unindex(s)
    BY <1>t, <2>4 DEF CloseUser, CloseNoUser, RemoveEmptyUser, Uncount, UncountSocket, Unindex
  <2>5. CASE \E u \in SigninUsers : Signin(s, u)
    BY <1>t, <2>5 DEF Signin
  <2> QED BY <2>1, <2>2, <2>3, <2>4, <2>5
<1>2. NoGhostMember'
  <2> SUFFICES ASSUME NEW c \in Channels, NEW u \in Users, NEW t \in presence[c][u]
               PROVE  t \in sockets' /\ MemberIsOwned(t, c, u)'
    BY <1>1 DEF NoGhostMember
  <2>1. t \in sockets /\ MemberIsOwned(t, c, u) /\ t \in Sockets
    BY DEF MemberInv, NoGhostMember, AdmissionInv, TypeOK, NsTypeOK
  <2> QED BY <1>t, <1>1, <2>1 DEF MemberIsOwned
<1>3. pc'[s] \in EndPcs => Remembered(s)' = {}
  <2>1. Remembered(s)' = Remembered(s)
    BY <1>1 DEF Remembered
  <2>2. CASE Greet(s)
    BY <2>1, <2>2 DEF Greet, Goto, IndexInv, IndexOwned, BeforePcs, LeavePcs, EndPcs, Remembered
  <2>3. CASE CloseUser(s) \/ CloseNoUser(s)
    BY <2>1, <2>3 DEF CloseUser, CloseNoUser, Goto, IndexInv, IndexOwned, Remembered
  <2>4. CASE RemoveEmptyUser(s) \/ Uncount(s) \/ Unindex(s)
    BY <2>1, <2>4 DEF RemoveEmptyUser, Uncount, Unindex, Goto, MemberInv, EndPcs
  <2>5. CASE \/ LoadCount(s) \/ CasSucceeds(s) \/ CasFails(s) \/ Register(s) \/ Count(s)
             \/ SendOccupied(s) \/ SendMemberAdded(s) \/ SendMemberRemoved(s)
             \/ Leave(s) \/ RemoveEmptyChannel(s) \/ SendVacated(s)
             \/ \E u \in SigninUsers : Signin(s, u)
    BY <1>t, <2>5 DEF LoadCount, CasSucceeds, CasFails, Register, Count, SendOccupied, SendMemberAdded,
                 SendMemberRemoved, Leave, RemoveEmptyChannel, SendVacated, Signin, HandlerStep,
                 Goto, AfterJoin, AfterLeave, EndPcs
  <2> QED BY <2>2, <2>3, <2>4, <2>5
<1>4. \A t \in Sockets : /\ pc'[t] \in EndPcs => Remembered(t)' = {}
                         /\ pc'[t] = "join" => cur'[t] \notin subscribed'[t]
  BY <1>t, <1>1, <1>3 DEF MemberInv, Remembered
<1> QED BY <1>1, <1>2, <1>4 DEF MemberInv

\* A member is added before the socket subscribes, and removed after the
\* socket has forgotten the subscription.
LEMMA MembersTouched ==
  ASSUME AdmissionInv, IndexInv, MemberInv, NEW s \in Sockets,
         \/ Join(s) \/ LeavePresence(s) \/ RemoveEmptyPresence(s) \/ Unregister(s) \/ Close(s)
         \/ \E c \in Channels : CloseChannel(s, c) \/ SubscribePublic(s, c) \/ Unsubscribe(s, c)
         \/ \E c \in Channels, u \in Users : SubscribePresence(s, c, u)
  PROVE  MemberInv'
<1> USE DEF MemberInv, NoGhostMember, MemberIsOwned, Remembered, EndPcs
<1>t. /\ pc \in [Sockets -> Pcs] /\ cur \in [Sockets -> Channels \cup {NoChannel}]
      /\ arg \in [Sockets -> Users \cup {NoUser}]
      /\ todo \in [Sockets -> SUBSET Channels] /\ subscribed \in [Sockets -> SUBSET Channels]
      /\ member \in [Sockets -> [Channels -> Users \cup {NoUser}]]
      /\ presence \in [Channels -> [Users -> SUBSET Sockets]]
      /\ closing \subseteq Sockets
  BY DEF AdmissionInv, TypeOK, NsTypeOK
<1>r. pc[s] \in {"open", "join"} => s \in sockets /\ s \notin closing
  BY DEF AdmissionInv, ConnectionAccounting, Registered, Held, IndexInv, IndexOwned, LeavePcs
<1>1. CASE Join(s)
  <2>1. cur[s] \in Channels /\ arg[s] \in Users /\ s \notin closing /\ pc[s] = "join"
    BY <1>1, <1>r DEF AdmissionInv, CallOK, ChannelPcs, MemberPcs, Join, HandlerStep, Goto
  <2> QED BY <1>t, <1>1, <2>1 DEF Join, HandlerStep, Goto, AfterJoin, presenceVars, socketVars
<1>2. CASE LeavePresence(s)
  <2>1. cur[s] \in Channels /\ arg[s] \in Users /\ pc[s] = "leavePresence"
    BY <1>2 DEF AdmissionInv, CallOK, ChannelPcs, MemberPcs, LeavePresence, HandlerStep, Goto
  <2> QED BY <1>t, <1>2, <2>1 DEF LeavePresence, HandlerStep, Goto, AfterRemovePresence,
                                  RemovePresenceMember, connVars, socketVars
<1>3. CASE RemoveEmptyPresence(s)
  <2>1. cur[s] \in Channels /\ pc[s] = "dropPresence"
    BY <1>3 DEF AdmissionInv, CallOK, ChannelPcs, RemoveEmptyPresence, HandlerStep, Goto
  <2> QED BY <1>t, <1>3, <2>1 DEF RemoveEmptyPresence, HandlerStep, Goto, AfterRemovePresence,
                                  DropPresence, connVars, socketVars
<1>4. CASE Unregister(s)
  BY <1>t, <1>4 DEF Unregister, Goto, RemoveSocket, presenceVars, localVars, connVars
<1>5. CASE Close(s)
  BY <1>t, <1>5 DEF Close, Goto, nsVars, presenceVars, socketVars, connVars
<1>6. ASSUME NEW c \in Channels, CloseChannel(s, c) PROVE MemberInv'
  <2>1. s \in closing /\ pc[s] = "closing"
    BY <1>6 DEF CloseChannel, HandlerStep, Goto, IndexInv, IndexOwned
  <2> QED BY <1>t, <1>6, <2>1, NoneAssumption
          DEF CloseChannel, HandlerStep, Goto, LeaveStart, nsVars, presenceVars, socketVars, connVars
<1>7. ASSUME NEW c \in Channels, SubscribePublic(s, c) PROVE MemberInv'
  BY <1>t, <1>r, <1>7 DEF SubscribePublic, HandlerStep, Goto, presenceVars, socketVars
<1>8. ASSUME NEW c \in Channels, Unsubscribe(s, c) PROVE MemberInv'
  BY <1>t, <1>r, <1>8, NoneAssumption
  DEF Unsubscribe, HandlerStep, Goto, LeaveStart, nsVars, presenceVars, socketVars
<1>9. ASSUME NEW c \in Channels, NEW u \in Users, SubscribePresence(s, c, u) PROVE MemberInv'
  <2>1. /\ pc[s] = "open" /\ c \in PresenceChannels /\ c \notin subscribed[s]
        /\ UNCHANGED <<sockets, subscribed, member, todo, closing>>
        /\ \A t \in Sockets \ {s} : pc'[t] = pc[t] /\ cur'[t] = cur[t] /\ arg'[t] = arg[t]
    BY <1>t, <1>9 DEF SubscribePresence, HandlerStep, Goto, connVars, socketVars
  <2>2. \/ /\ pc'[s] = "join" /\ cur'[s] = c /\ arg'[s] = u
           /\ presence' = [presence EXCEPT ![c][u] = @ \cup {s}]
        \/ pc'[s] = "open" /\ presence' = presence
    BY <1>t, <1>9 DEF SubscribePresence, HandlerStep, Goto, TryAddPresenceMember
  <2>3. s \in sockets /\ s \notin closing
    BY <1>r, <2>1
  <2>4. ASSUME NEW d \in Channels, NEW v \in Users, NEW t \in presence'[d][v]
        PROVE  t \in sockets' /\ MemberIsOwned(t, d, v)'
    <3>1. CASE t \in presence[d][v]
      <4>1. t \in Sockets /\ t \in sockets /\ MemberIsOwned(t, d, v)
        BY <1>t, <3>1
      <4> QED BY <4>1, <2>1
    <3>2. CASE t \notin presence[d][v]
      <4>1. t = s /\ d = c /\ v = u /\ pc'[s] = "join" /\ cur'[s] = c /\ arg'[s] = u
        BY <1>t, <2>2, <3>2
      <4> QED BY <4>1, <2>1, <2>3
    <3> QED BY <3>1, <3>2
  <2>5. ASSUME NEW t \in Sockets
        PROVE  /\ pc'[t] \in EndPcs => Remembered(t)' = {}
               /\ pc'[t] = "join" => cur'[t] \notin subscribed'[t]
    BY <2>1, <2>2
  <2>6. ASSUME NEW d \in Channels \ PresenceChannels, NEW v \in Users PROVE presence'[d][v] = {}
    <3>1. d \in Channels /\ d # c /\ presence[d][v] = {}
      BY <2>1
    <3>2. presence'[d] = presence[d]
      BY <1>t, <2>2, <3>1
    <3> QED BY <3>1, <3>2
  <2> QED BY <2>4, <2>5, <2>6
<1> QED BY <1>1, <1>2, <1>3, <1>4, <1>5, <1>6, <1>7, <1>8, <1>9

\* Every member is owned by a live task, in every reachable state.
THEOREM MemberInvariant == Spec => []MemberInv
<1>1. Init => MemberInv
  BY DEF Init, NsInit, MemberInv, NoGhostMember, Remembered, EndPcs
<1>2. AdmissionInv /\ IndexInv /\ MemberInv /\ [Next]_vars => MemberInv'
  <2> SUFFICES ASSUME AdmissionInv, IndexInv, MemberInv, [Next]_vars PROVE MemberInv'
    OBVIOUS
  <2>1. ASSUME NEW s \in Sockets, Step(s) \/ Client(s) PROVE MemberInv'
    BY <2>1, MembersUntouched, MembersTouched DEF Step, Client
  <2>2. CASE UNCHANGED vars
    BY <2>2 DEF vars, nsVars, socketVars, presenceVars, localVars, connVars, MemberInv,
                NoGhostMember, MemberIsOwned, Remembered
  <2> QED BY <2>1, <2>2 DEF Next
<1> QED BY <1>1, <1>2, AdmissionInvariant, IndexInvariant, PTL DEF Spec

\* A socket listed for a member belongs to a live task that will remove it,
\* however subscriptions, removals of entries and closes interleave.
THEOREM MembersAreOwned == Spec => []NoGhostMember
BY MemberInvariant, PTL DEF MemberInv

----------------------------------------------------------------------------
(* Empty entries *)

DroppingChannel(s, c)  == pc[s] = "dropChannel" /\ cur[s] = c
DroppingPresence(s, c) == pc[s] = "dropPresence" /\ cur[s] = c
DroppingUser(s, u)     == pc[s] = "dropUser" /\ user[s] = u

ChannelEntries ==
  \A c \in channelKeys : channels[c] = {} => \E s \in Sockets : DroppingChannel(s, c)
PresenceEntries ==
  \A c \in presenceKeys : Members(c) = {} => \E s \in Sockets : DroppingPresence(s, c)
UserEntries ==
  \A u \in userKeys : users[u] = {} => \E s \in Sockets : DroppingUser(s, u)

\* With a limit of no member at all, a refused subscription would leave its
\* empty entry behind.
EntryInv == ChannelEntries /\ (MaxMembers > 0 => PresenceEntries) /\ UserEntries

\* A step of s is no step of another task.
Waits(t) == /\ pc'[t] = pc[t] /\ cur'[t] = cur[t] /\ arg'[t] = arg[t]
            /\ flag'[t] = flag[t] /\ user'[t] = user[t]

\* A step of s leaves place and locals of another task alone.
LEMMA OthersWait ==
  ASSUME TypeOK, NEW s \in Sockets, Step(s) \/ Client(s), NEW t \in Sockets \ {s}
  PROVE  Waits(t)
<1> USE DEF Waits, TypeOK, Goto, HandlerStep, localVars, connVars
<1>1. CASE LoadCount(s) \/ CasSucceeds(s) \/ CasFails(s) \/ Register(s) \/ Count(s) \/ Greet(s)
  BY <1>1 DEF LoadCount, CasSucceeds, CasFails, Register, Count, Greet
<1>2. CASE Join(s) \/ SendOccupied(s) \/ SendMemberAdded(s) \/ SendMemberRemoved(s) \/ SendVacated(s)
  BY <1>2 DEF Join, SendOccupied, SendMemberAdded, SendMemberRemoved, SendVacated
<1>3. CASE LeavePresence(s) \/ RemoveEmptyPresence(s) \/ Leave(s) \/ RemoveEmptyChannel(s)
  BY <1>3 DEF LeavePresence, RemoveEmptyPresence, Leave, RemoveEmptyChannel
<1>4. ASSUME NEW c \in Channels, CloseChannel(s, c) \/ SubscribePublic(s, c) \/ Unsubscribe(s, c)
      PROVE  Waits(t)
  BY <1>4 DEF CloseChannel, SubscribePublic, Unsubscribe
<1>5. CASE CloseUser(s) \/ CloseNoUser(s) \/ RemoveEmptyUser(s) \/ Unregister(s) \/ Uncount(s)
           \/ Unindex(s) \/ Close(s)
  BY <1>5 DEF CloseUser, CloseNoUser, RemoveEmptyUser, Unregister, Uncount, Unindex, Close
<1>6. ASSUME NEW c \in Channels, NEW u \in Users, SubscribePresence(s, c, u)
      PROVE  Waits(t)
  BY <1>6 DEF SubscribePresence
<1>7. ASSUME NEW u \in SigninUsers, Signin(s, u)
      PROVE  Waits(t)
  BY <1>7 DEF Signin
<1> QED BY <1>1, <1>2, <1>3, <1>4, <1>5, <1>6, <1>7 DEF Step, Client

\* An entry of a channel is emptied by the task that goes on to remove it.
LEMMA ChannelEntriesStep ==
  ASSUME AdmissionInv, IndexInv, EntryInv, NEW s \in Sockets, Step(s) \/ Client(s)
  PROVE  ChannelEntries'
<1>t. /\ TypeOK /\ pc \in [Sockets -> Pcs] /\ cur \in [Sockets -> Channels \cup {NoChannel}]
      /\ channels \in [Channels -> SUBSET Sockets] /\ channelKeys \subseteq Channels
  BY DEF AdmissionInv, TypeOK, NsTypeOK
<1>o. \A t \in Sockets \ {s}, c \in Channels : DroppingChannel(t, c) => DroppingChannel(t, c)'
  BY <1>t, OthersWait DEF Waits, DroppingChannel
<1>e. ChannelEntries
  BY DEF EntryInv
<1>1. CASE UNCHANGED <<channels, channelKeys>> /\ pc[s] # "dropChannel"
  BY <1>t, <1>o, <1>e, <1>1 DEF ChannelEntries, DroppingChannel
<1>2. ASSUME NEW c \in Channels, AddToChannel(s, c), pc[s] # "dropChannel" PROVE ChannelEntries'
  BY <1>t, <1>o, <1>e, <1>2 DEF ChannelEntries, DroppingChannel, AddToChannel
<1>3. CASE Leave(s)
  <2>1. cur[s] \in Channels /\ pc[s] = "leave"
    BY <1>3 DEF AdmissionInv, CallOK, ChannelPcs, Leave, HandlerStep, Goto
  <2>2. ~ StaysOccupied(s, cur[s]) => pc'[s] = "dropChannel" /\ cur'[s] = cur[s]
    BY <1>t, <1>3 DEF Leave, HandlerStep, Goto
  <2>3. channels' = [channels EXCEPT ![cur[s]] = @ \ {s}] /\ channelKeys' = channelKeys
    BY <1>3 DEF Leave, RemoveFromChannel
  <2>4. ASSUME NEW c \in channelKeys', channels'[c] = {}
        PROVE  \E t \in Sockets : DroppingChannel(t, c)'
    <3>1. CASE c = cur[s]
      BY <1>t, <2>1, <2>2, <2>3, <2>4, <3>1 DEF StaysOccupied, DroppingChannel
    <3>2. CASE c # cur[s]
      <4>1. c \in channelKeys /\ c \in Channels /\ channels[c] = {}
        BY <1>t, <2>1, <2>3, <2>4, <3>2
      <4>2. PICK t \in Sockets : DroppingChannel(t, c)
        BY <1>e, <4>1 DEF ChannelEntries
      <4> QED BY <1>o, <2>1, <4>1, <4>2 DEF DroppingChannel
    <3> QED BY <3>1, <3>2
  <2> QED BY <2>4 DEF ChannelEntries
<1>4. CASE RemoveEmptyChannel(s)
  <2>1. cur[s] \in Channels /\ pc[s] = "dropChannel"
    BY <1>4 DEF AdmissionInv, CallOK, ChannelPcs, RemoveEmptyChannel, HandlerStep, Goto
  <2>2. channels' = [channels EXCEPT ![cur[s]] = {}] /\ channelKeys' = channelKeys \ {cur[s]}
    BY <1>4 DEF RemoveEmptyChannel, DropChannel
  <2> QED BY <1>t, <1>o, <1>e, <2>1, <2>2 DEF ChannelEntries, DroppingChannel
<1>5. CASE Unindex(s)
  <2>1. socketChannels[s] = {} /\ pc[s] = "unindex"
    BY <1>5 DEF IndexInv, IndexOwned, EndPcs, Unindex, Goto
  <2>2. channels' = channels /\ channelKeys' = channelKeys
    BY <1>t, <1>5, <2>1 DEF Unindex, UnindexSocket
  <2> QED BY <1>1, <2>1, <2>2
<1>6. CASE Join(s)
  BY <1>2, <1>6 DEF AdmissionInv, CallOK, ChannelPcs, Join, HandlerStep, Goto
<1>7. ASSUME NEW c \in Channels, SubscribePublic(s, c) PROVE ChannelEntries'
  BY <1>2, <1>7 DEF SubscribePublic, HandlerStep, Goto
<1>8. CASE \/ LoadCount(s) \/ CasSucceeds(s) \/ CasFails(s) \/ Register(s) \/ Count(s) \/ Greet(s)
           \/ SendOccupied(s) \/ SendMemberAdded(s) \/ SendMemberRemoved(s) \/ SendVacated(s)
           \/ LeavePresence(s) \/ RemoveEmptyPresence(s)
           \/ CloseUser(s) \/ CloseNoUser(s) \/ RemoveEmptyUser(s) \/ Unregister(s) \/ Uncount(s)
           \/ Close(s)
  <2>1. UNCHANGED <<channels, channelKeys>> /\ pc[s] # "dropChannel"
    BY <1>8 DEF LoadCount, CasSucceeds, CasFails, Register, Count, Greet, SendOccupied, SendMemberAdded,
         LeavePresence, RemoveEmptyPresence, SendMemberRemoved, SendVacated,
         CloseUser, CloseNoUser, RemoveEmptyUser, Unregister, Uncount, Close,
         HandlerStep, Goto, nsVars, channelVars
  <2> QED BY <1>1, <2>1
<1>9. ASSUME NEW c \in Channels, CloseChannel(s, c) \/ Unsubscribe(s, c) PROVE ChannelEntries'
  <2>1. UNCHANGED <<channels, channelKeys>> /\ pc[s] # "dropChannel"
    BY <1>9 DEF CloseChannel, Unsubscribe, HandlerStep, Goto, nsVars, channelVars
  <2> QED BY <1>1, <2>1
<1>10. ASSUME NEW c \in Channels, NEW u \in Users, SubscribePresence(s, c, u) PROVE ChannelEntries'
  <2>1. UNCHANGED <<channels, channelKeys>> /\ pc[s] # "dropChannel"
    BY <1>10 DEF SubscribePresence, HandlerStep, Goto, channelVars
  <2> QED BY <1>1, <2>1
<1>11. ASSUME NEW u \in SigninUsers, Signin(s, u) PROVE ChannelEntries'
  <2>1. UNCHANGED <<channels, channelKeys>> /\ pc[s] # "dropChannel"
    BY <1>11 DEF Signin, Goto, channelVars
  <2> QED BY <1>1, <2>1
<1> QED BY <1>3, <1>4, <1>5, <1>6, <1>7, <1>8, <1>9, <1>10, <1>11 DEF Step, Client

\* An entry of the presence map is emptied by the task that goes on to remove it,
\* and a subscription is refused only where there are members already.
LEMMA PresenceEntriesStep ==
  ASSUME AdmissionInv, EntryInv, MaxMembers > 0, NEW s \in Sockets, Step(s) \/ Client(s)
  PROVE  PresenceEntries'
<1>t. /\ TypeOK /\ pc \in [Sockets -> Pcs] /\ cur \in [Sockets -> Channels \cup {NoChannel}]
      /\ presence \in [Channels -> [Users -> SUBSET Sockets]] /\ presenceKeys \subseteq Channels
  BY DEF AdmissionInv, TypeOK, NsTypeOK
<1>o. \A t \in Sockets \ {s}, c \in Channels : DroppingPresence(t, c) => DroppingPresence(t, c)'
  BY <1>t, OthersWait DEF Waits, DroppingPresence
<1>e. PresenceEntries
  BY DEF EntryInv
<1>k. ASSUME NEW c \in presenceKeys, Members(c) = {}, ~ DroppingPresence(s, c)
      PROVE  \E t \in Sockets : DroppingPresence(t, c)'
  BY <1>t, <1>o, <1>e, <1>k DEF PresenceEntries
<1>1. CASE UNCHANGED <<presence, presenceKeys>> /\ pc[s] # "dropPresence"
  BY <1>t, <1>k, <1>1 DEF PresenceEntries, DroppingPresence, Members
<1>2. ASSUME NEW c \in Channels, NEW u \in Users, SubscribePresence(s, c, u) PROVE PresenceEntries'
  <2>1. pc[s] = "open" /\ TryAddPresenceMember(s, c, u)
    BY <1>2 DEF SubscribePresence, HandlerStep, Goto
  <2>2. Members(c)' # {}
    <3>1. CASE Admits(c, u)
      BY <1>t, <2>1, <3>1 DEF TryAddPresenceMember, Members
    <3>2. CASE ~ Admits(c, u)
      BY <1>t, <2>1, <3>2, FS_EmptySet DEF TryAddPresenceMember, Members, Admits
    <3> QED BY <3>1, <3>2
  <2>3. \A d \in Channels \ {c} : Members(d)' = Members(d)
    BY <1>t, <2>1 DEF TryAddPresenceMember, Members
  <2>4. presenceKeys' = presenceKeys \cup {c}
    BY <2>1 DEF TryAddPresenceMember
  <2> QED BY <1>t, <1>k, <2>1, <2>2, <2>3, <2>4 DEF PresenceEntries, DroppingPresence
<1>3. CASE LeavePresence(s)
  <2>1. /\ cur[s] \in Channels /\ arg[s] \in Users /\ pc[s] = "leavePresence"
    BY <1>3 DEF AdmissionInv, CallOK, ChannelPcs, MemberPcs, LeavePresence, HandlerStep, Goto
  <2>2. EmptiesPresence(s, cur[s], arg[s]) => pc'[s] = "dropPresence" /\ cur'[s] = cur[s]
    BY <1>t, <1>3 DEF LeavePresence, HandlerStep, Goto
  <2>3. /\ presence' = [presence EXCEPT ![cur[s]][arg[s]] = @ \ {s}]
        /\ presenceKeys' = presenceKeys
    BY <1>3 DEF LeavePresence, RemovePresenceMember
  <2>4. ASSUME NEW c \in presenceKeys', Members(c)' = {}
        PROVE  \E t \in Sockets : DroppingPresence(t, c)'
    <3>1. CASE c = cur[s]
      BY <1>t, <2>1, <2>2, <2>3, <2>4, <3>1 DEF EmptiesPresence, Members, DroppingPresence
    <3>2. CASE c # cur[s]
      <4>1. c \in presenceKeys /\ c \in Channels /\ Members(c) = {}
        BY <1>t, <2>1, <2>3, <2>4, <3>2 DEF Members
      <4> QED BY <1>k, <2>1, <4>1 DEF DroppingPresence
    <3> QED BY <3>1, <3>2
  <2> QED BY <2>4 DEF PresenceEntries
<1>4. CASE RemoveEmptyPresence(s)
  <2>1. cur[s] \in Channels /\ pc[s] = "dropPresence"
    BY <1>4 DEF AdmissionInv, CallOK, ChannelPcs, RemoveEmptyPresence, HandlerStep, Goto
  <2>2. /\ presence' = [presence EXCEPT ![cur[s]] = [u \in Users |-> {}]]
        /\ presenceKeys' = presenceKeys \ {cur[s]}
    BY <1>4 DEF RemoveEmptyPresence, DropPresence
  <2>3. \A c \in Channels \ {cur[s]} : Members(c)' = Members(c)
    BY <1>t, <2>1, <2>2 DEF Members
  <2> QED BY <1>t, <1>k, <2>1, <2>2, <2>3 DEF PresenceEntries, DroppingPresence
<1>5. CASE \/ LoadCount(s) \/ CasSucceeds(s) \/ CasFails(s) \/ Register(s) \/ Count(s) \/ Greet(s)
           \/ SendOccupied(s) \/ SendMemberAdded(s) \/ SendMemberRemoved(s) \/ SendVacated(s)
           \/ Join(s) \/ Leave(s) \/ RemoveEmptyChannel(s)
           \/ CloseUser(s) \/ CloseNoUser(s) \/ RemoveEmptyUser(s) \/ Unregister(s) \/ Uncount(s)
           \/ Unindex(s) \/ Close(s)
  <2>1. UNCHANGED <<presence, presenceKeys>> /\ pc[s] # "dropPresence"
    BY <1>5 DEF LoadCount, CasSucceeds, CasFails, Register, Count, Greet, SendOccupied, SendMemberAdded,
         SendMemberRemoved, SendVacated, Join, Leave, RemoveEmptyChannel,
         CloseUser, CloseNoUser, RemoveEmptyUser, Unregister, Uncount, Unindex, Close,
         HandlerStep, Goto, nsVars, presenceVars
  <2> QED BY <1>1, <2>1
<1>6. ASSUME NEW c \in Channels, CloseChannel(s, c) \/ Unsubscribe(s, c) \/ SubscribePublic(s, c)
      PROVE PresenceEntries'
  <2>1. UNCHANGED <<presence, presenceKeys>> /\ pc[s] # "dropPresence"
    BY <1>6 DEF CloseChannel, Unsubscribe, SubscribePublic, HandlerStep, Goto, nsVars, presenceVars
  <2> QED BY <1>1, <2>1
<1>7. ASSUME NEW u \in SigninUsers, Signin(s, u) PROVE PresenceEntries'
  <2>1. UNCHANGED <<presence, presenceKeys>> /\ pc[s] # "dropPresence"
    BY <1>7 DEF Signin, Goto, presenceVars
  <2> QED BY <1>1, <2>1
<1> QED BY <1>2, <1>3, <1>4, <1>5, <1>6, <1>7 DEF Step, Client

\* A user's entry is emptied by the task that goes on to remove it.
LEMMA UserEntriesStep ==
  ASSUME AdmissionInv, EntryInv, NEW s \in Sockets, Step(s) \/ Client(s)
  PROVE  UserEntries'
<1>t. /\ TypeOK /\ pc \in [Sockets -> Pcs] /\ user \in [Sockets -> Users \cup {NoUser}]
      /\ users \in [Users -> SUBSET Sockets] /\ userKeys \subseteq Users
  BY DEF AdmissionInv, TypeOK, NsTypeOK
<1>o. \A t \in Sockets \ {s}, u \in Users : DroppingUser(t, u) => DroppingUser(t, u)'
  BY <1>t, OthersWait DEF Waits, DroppingUser
<1>e. UserEntries
  BY DEF EntryInv
<1>k. ASSUME NEW u \in userKeys, users[u] = {}, ~ DroppingUser(s, u)
      PROVE  \E t \in Sockets : DroppingUser(t, u)'
  BY <1>t, <1>o, <1>e, <1>k DEF UserEntries
<1>1. CASE UNCHANGED <<users, userKeys>> /\ pc[s] # "dropUser"
  BY <1>t, <1>k, <1>1 DEF UserEntries, DroppingUser
<1>2. ASSUME NEW u \in SigninUsers, Signin(s, u) PROVE UserEntries'
  <2>1. u \in Users /\ pc[s] = "open" /\ AddUser(s, u)
    BY <1>2, RequestsAssumption DEF Signin, Goto
  <2> QED BY <1>t, <1>k, <2>1 DEF UserEntries, DroppingUser, AddUser
<1>3. CASE CloseUser(s)
  <2>1. user[s] \in Users /\ pc[s] = "closing" /\ RemoveUser(s, user[s])
    BY <1>t, <1>3 DEF CloseUser, Goto
  <2>2. EmptiesUser(s, user[s]) => pc'[s] = "dropUser" /\ user'[s] = user[s]
    BY <1>t, <1>3 DEF CloseUser, Goto, connVars
  <2>3. ASSUME NEW u \in userKeys', users'[u] = {} PROVE \E t \in Sockets : DroppingUser(t, u)'
    <3>1. CASE u = user[s]
      BY <1>t, <2>1, <2>2, <2>3, <3>1 DEF EmptiesUser, RemoveUser, DroppingUser
    <3>2. CASE u # user[s]
      <4>1. u \in userKeys /\ users[u] = {}
        BY <1>t, <2>1, <2>3, <3>2 DEF RemoveUser
      <4> QED BY <1>k, <2>1, <4>1 DEF DroppingUser
    <3> QED BY <3>1, <3>2
  <2> QED BY <2>3 DEF UserEntries
<1>4. CASE RemoveEmptyUser(s)
  <2>1. pc[s] = "dropUser" /\ DropUser(user[s])
    BY <1>4 DEF RemoveEmptyUser, Goto
  <2>2. /\ userKeys' = userKeys \ {user[s]}
        /\ \A u \in Users : u # user[s] => users'[u] = users[u]
    BY <1>t, <2>1 DEF DropUser
  <2> QED BY <1>t, <1>k, <2>1, <2>2 DEF UserEntries, DroppingUser
<1>5. CASE \/ LoadCount(s) \/ CasSucceeds(s) \/ CasFails(s) \/ Register(s) \/ Count(s) \/ Greet(s)
           \/ SendOccupied(s) \/ SendMemberAdded(s) \/ SendMemberRemoved(s) \/ SendVacated(s)
           \/ Join(s) \/ LeavePresence(s) \/ RemoveEmptyPresence(s) \/ Leave(s) \/ RemoveEmptyChannel(s)
           \/ CloseNoUser(s) \/ Unregister(s) \/ Uncount(s) \/ Unindex(s) \/ Close(s)
  <2>1. UNCHANGED <<users, userKeys>> /\ pc[s] # "dropUser"
    BY <1>5 DEF LoadCount, CasSucceeds, CasFails, Register, Count, Greet, SendOccupied, SendMemberAdded,
         SendMemberRemoved, SendVacated, Join, LeavePresence, RemoveEmptyPresence, Leave,
         RemoveEmptyChannel, CloseNoUser, Unregister, Uncount, Unindex, Close,
         HandlerStep, Goto, nsVars, userVars
  <2> QED BY <1>1, <2>1
<1>6. ASSUME NEW c \in Channels, CloseChannel(s, c) \/ Unsubscribe(s, c) \/ SubscribePublic(s, c)
      PROVE UserEntries'
  <2>1. UNCHANGED <<users, userKeys>> /\ pc[s] # "dropUser"
    BY <1>6 DEF CloseChannel, Unsubscribe, SubscribePublic, HandlerStep, Goto, nsVars, userVars
  <2> QED BY <1>1, <2>1
<1>7. ASSUME NEW c \in Channels, NEW u \in Users, SubscribePresence(s, c, u) PROVE UserEntries'
  <2>1. UNCHANGED <<users, userKeys>> /\ pc[s] # "dropUser"
    BY <1>7 DEF SubscribePresence, HandlerStep, Goto, userVars
  <2> QED BY <1>1, <2>1
<1> QED BY <1>2, <1>3, <1>4, <1>5, <1>6, <1>7 DEF Step, Client

\* Every empty entry has a task about to remove it, in every reachable state.
THEOREM EntryInvariant == Spec => []EntryInv
<1>1. Init => EntryInv
  BY DEF Init, NsInit, EntryInv, ChannelEntries, PresenceEntries, UserEntries
<1>2. AdmissionInv /\ IndexInv /\ EntryInv /\ [Next]_vars => EntryInv'
  <2> SUFFICES ASSUME AdmissionInv, IndexInv, EntryInv, [Next]_vars PROVE EntryInv'
    OBVIOUS
  <2>1. ASSUME NEW s \in Sockets, Step(s) \/ Client(s) PROVE EntryInv'
    BY <2>1, ChannelEntriesStep, PresenceEntriesStep, UserEntriesStep DEF EntryInv
  <2>2. CASE UNCHANGED vars
    BY <2>2 DEF vars, nsVars, channelVars, presenceVars, userVars, localVars, connVars, EntryInv,
                ChannelEntries, PresenceEntries, UserEntries, Members,
                DroppingChannel, DroppingPresence, DroppingUser
  <2> QED BY <2>1, <2>2 DEF Next
<1> QED BY <1>1, <1>2, AdmissionInvariant, IndexInvariant, PTL DEF Spec

\* The two-step removals leave no empty entry behind, unless the limit allows
\* no member at all: whoever empties an entry goes on to remove it.
THEOREM NoEmptyEntryStays == Spec => [](MaxMembers > 0 => EmptyEntryIsTransient)
<1>1. EntryInv => (MaxMembers > 0 => EmptyEntryIsTransient)
  BY DEF EntryInv, ChannelEntries, PresenceEntries, UserEntries, DroppingChannel, DroppingPresence,
         DroppingUser, EmptyEntryIsTransient
<1> QED BY <1>1, EntryInvariant, PTL

----------------------------------------------------------------------------
(* Member events *)

\* Tasks that have made u a member of c, or removed u, and have still to say so.
IsAdding(s, c, u) ==
  cur[s] = c /\ arg[s] = u /\ (pc[s] = "memberAdded" \/ (pc[s] \in {"join", "occupied"} /\ flag[s]))
IsRemoving(s, c, u) ==
  cur[s] = c /\ arg[s] = u /\ (pc[s] = "memberRemoved" \/ (pc[s] = "dropPresence" /\ flag[s]))
Removing(c, u) == {s \in Sockets : IsRemoving(s, c, u)}

\* u is a member through sockets none of which has still to announce u: there
\* is a member_added for the member_removed they may yet lead to.
Announced(c, u) == presence[c][u] # {} /\ \A s \in presence[c][u] : ~ IsAdding(s, c, u)
Due(c, u)       == IF Announced(c, u) THEN 1 ELSE 0

EventInv ==
  \A c \in Channels, u \in Users :
    removed[c][u] + Cardinality(Removing(c, u)) + Due(c, u) <= added[c][u]

\* What EventInv adds up are natural numbers.
LEMMA EventTypes ==
  ASSUME TypeOK, NEW c \in Channels, NEW u \in Users
  PROVE  /\ added[c][u] \in Nat /\ removed[c][u] \in Nat /\ Due(c, u) \in {0, 1}
         /\ IsFiniteSet(Removing(c, u)) /\ Cardinality(Removing(c, u)) \in Nat
<1>1. Removing(c, u) \subseteq Sockets
  BY DEF Removing
<1>2. IsFiniteSet(Removing(c, u))
  BY <1>1, FiniteAssumption, FS_Subset
<1> QED BY <1>2, FS_CardinalityType DEF TypeOK, Due

EventOK(c, u) == removed[c][u] + Cardinality(Removing(c, u)) + Due(c, u) <= added[c][u]

\* A step of s that changes no promise of s about u in c, and adds no socket
\* to the member unless it has one already.
PromisesKept(s, c, u) ==
  /\ IsAdding(s, c, u)' <=> IsAdding(s, c, u)
  /\ IsRemoving(s, c, u)' <=> IsRemoving(s, c, u)
  /\ presence'[c][u] # {} => presence[c][u] # {}
  /\ \A t \in presence[c][u] :
       t \in presence'[c][u] \/ ~ IsAdding(t, c, u) \/ presence'[c][u] = {}

\* Such a step, which sends no event either, keeps the bound.
LEMMA EventsKept ==
  ASSUME TypeOK, TypeOK', EventInv, NEW s \in Sockets, NEW c \in Channels, NEW u \in Users,
         \A t \in Sockets \ {s} : Waits(t), PromisesKept(s, c, u),
         added'[c][u] = added[c][u], removed'[c][u] = removed[c][u]
  PROVE  EventOK(c, u)'
<1>0. presence[c][u] \subseteq Sockets
  BY DEF TypeOK, NsTypeOK
<1>1. \A t \in Sockets : /\ IsAdding(t, c, u)' <=> IsAdding(t, c, u)
                         /\ IsRemoving(t, c, u)' <=> IsRemoving(t, c, u)
  BY DEF Waits, IsAdding, IsRemoving, PromisesKept
<1>2. Removing(c, u)' = Removing(c, u)
  BY <1>1 DEF Removing
<1>3. Announced(c, u)' => Announced(c, u)
  BY <1>0, <1>1 DEF Announced, PromisesKept
<1>4. Due(c, u)' <= Due(c, u) /\ Due(c, u)' \in {0, 1}
  BY <1>3 DEF Due
<1>5. EventOK(c, u)
  BY DEF EventInv, EventOK
<1> QED BY <1>2, <1>4, <1>5, EventTypes DEF EventOK

\* Steps that make no promise and keep none.
LEMMA EventsUntouched ==
  ASSUME AdmissionInv, TypeOK', EventInv, NEW s \in Sockets,
         \/ LoadCount(s) \/ CasSucceeds(s) \/ CasFails(s) \/ Register(s) \/ Count(s) \/ Greet(s)
         \/ Join(s) \/ SendOccupied(s) \/ Leave(s) \/ RemoveEmptyChannel(s) \/ SendVacated(s)
         \/ RemoveEmptyPresence(s)
         \/ CloseUser(s) \/ CloseNoUser(s) \/ RemoveEmptyUser(s) \/ Unregister(s) \/ Uncount(s)
         \/ Unindex(s) \/ Close(s)
         \/ \E c \in Channels : CloseChannel(s, c) \/ SubscribePublic(s, c) \/ Unsubscribe(s, c)
         \/ \E u \in SigninUsers : Signin(s, u)
  PROVE  EventInv'
<1>0. TypeOK /\ \A t \in Sockets \ {s} : Waits(t)
  BY OthersWait DEF AdmissionInv, Step, Client
<1>t. /\ pc \in [Sockets -> Pcs] /\ cur \in [Sockets -> Channels \cup {NoChannel}]
      /\ arg \in [Sockets -> Users \cup {NoUser}] /\ flag \in [Sockets -> BOOLEAN]
      /\ presence \in [Channels -> [Users -> SUBSET Sockets]]
  BY <1>0 DEF TypeOK, NsTypeOK
<1> SUFFICES ASSUME NEW c \in Channels, NEW u \in Users
             PROVE  /\ PromisesKept(s, c, u)
                    /\ added'[c][u] = added[c][u] /\ removed'[c][u] = removed[c][u]
  BY <1>0, EventsKept DEF EventInv, EventOK
<1> USE DEF PromisesKept, IsAdding, IsRemoving
<1>1. CASE LoadCount(s) \/ CasSucceeds(s) \/ CasFails(s) \/ Register(s) \/ Count(s) \/ Greet(s)
  BY <1>t, <1>1 DEF LoadCount, CasSucceeds, CasFails, Register, Count, Greet, Goto, nsVars, presenceVars,
                    localVars, eventVars
<1>2. CASE Join(s)
  BY <1>t, <1>2 DEF Join, HandlerStep, Goto, AfterJoin, presenceVars, eventVars
<1>3. CASE SendOccupied(s)
  BY <1>t, <1>3 DEF SendOccupied, HandlerStep, Goto, AfterJoin, nsVars, presenceVars
<1>4. CASE Leave(s) \/ RemoveEmptyChannel(s) \/ SendVacated(s)
  BY <1>t, <1>4 DEF Leave, RemoveEmptyChannel, SendVacated, HandlerStep, Goto, AfterLeave, nsVars,
                    presenceVars, eventVars
<1>5. CASE RemoveEmptyPresence(s)
  <2>1. cur[s] \in Channels
    BY <1>0, <1>5 DEF AdmissionInv, CallOK, ChannelPcs, RemoveEmptyPresence, HandlerStep, Goto
  <2>2. /\ presence' = [presence EXCEPT ![cur[s]] = [v \in Users |-> {}]]
        /\ UNCHANGED <<added, removed>>
    BY <1>5 DEF RemoveEmptyPresence, DropPresence, eventVars
  <2>3. presence'[c][u] = {} \/ presence'[c][u] = presence[c][u]
    BY <1>t, <2>1, <2>2
  <2>4. /\ IsAdding(s, c, u)' <=> IsAdding(s, c, u)
        /\ IsRemoving(s, c, u)' <=> IsRemoving(s, c, u)
    BY <1>t, <1>5 DEF RemoveEmptyPresence, HandlerStep, Goto, AfterRemovePresence
  <2> QED BY <2>2, <2>3, <2>4
<1>6. CASE CloseUser(s) \/ CloseNoUser(s) \/ RemoveEmptyUser(s) \/ Unregister(s) \/ Uncount(s)
           \/ Unindex(s) \/ Close(s)
  BY <1>t, <1>6 DEF CloseUser, CloseNoUser, RemoveEmptyUser, Unregister, Uncount, Unindex, Close, Goto,
                    nsVars, presenceVars, localVars, eventVars
<1>7. ASSUME NEW d \in Channels, CloseChannel(s, d) \/ SubscribePublic(s, d) \/ Unsubscribe(s, d)
      PROVE  PromisesKept(s, c, u) /\ added'[c][u] = added[c][u] /\ removed'[c][u] = removed[c][u]
  BY <1>t, <1>7 DEF CloseChannel, SubscribePublic, Unsubscribe, HandlerStep, Goto, LeaveStart, nsVars,
                    presenceVars, eventVars
<1>8. ASSUME NEW v \in SigninUsers, Signin(s, v)
      PROVE  PromisesKept(s, c, u) /\ added'[c][u] = added[c][u] /\ removed'[c][u] = removed[c][u]
  BY <1>t, <1>8 DEF Signin, Goto, presenceVars, localVars, eventVars
<1> QED BY <1>1, <1>2, <1>3, <1>4, <1>5, <1>6, <1>7, <1>8

\* A new member is not announced while its socket has to say so.
LEMMA EventsSubscribe ==
  ASSUME AdmissionInv, TypeOK', EventInv, NEW s \in Sockets, NEW d \in Channels, NEW v \in Users,
         SubscribePresence(s, d, v)
  PROVE  EventInv'
<1>0. TypeOK /\ \A t \in Sockets \ {s} : Waits(t)
  BY OthersWait DEF AdmissionInv, Client
<1>t. /\ pc \in [Sockets -> Pcs] /\ cur \in [Sockets -> Channels \cup {NoChannel}]
      /\ arg \in [Sockets -> Users \cup {NoUser}] /\ flag \in [Sockets -> BOOLEAN]
      /\ presence \in [Channels -> [Users -> SUBSET Sockets]]
  BY <1>0 DEF TypeOK, NsTypeOK
<1>1. /\ pc[s] = "open" /\ UNCHANGED <<added, removed>>
      /\ \/ Admits(d, v) /\ presence' = [presence EXCEPT ![d][v] = @ \cup {s}]
            /\ pc'[s] = "join" /\ cur'[s] = d /\ arg'[s] = v /\ (flag'[s] <=> v \notin Members(d))
         \/ presence' = presence /\ pc'[s] = "open"
  BY <1>t DEF SubscribePresence, TryAddPresenceMember, HandlerStep, Goto, eventVars
<1>2. \A c \in Channels, u \in Users :
        c # d \/ u # v \/ presence[d][v] # {} \/ pc'[s] = "open" => PromisesKept(s, c, u)
  <2> SUFFICES ASSUME NEW c \in Channels, NEW u \in Users,
                      c # d \/ u # v \/ presence[d][v] # {} \/ pc'[s] = "open"
               PROVE PromisesKept(s, c, u)
    OBVIOUS
  <2>1. ~ IsAdding(s, c, u) /\ ~ IsRemoving(s, c, u) /\ ~ IsRemoving(s, c, u)'
    BY <1>1 DEF IsAdding, IsRemoving
  <2>2. ~ IsAdding(s, c, u)'
    BY <1>1 DEF IsAdding, Members
  <2>3. presence'[c][u] # {} => presence[c][u] # {}
    BY <1>t, <1>1
  <2>4. presence[c][u] \subseteq presence'[c][u]
    BY <1>t, <1>1
  <2> QED BY <2>1, <2>2, <2>3, <2>4 DEF PromisesKept
<1>3. CASE presence[d][v] = {} /\ pc'[s] = "join"
  <2>1. IsAdding(s, d, v)' /\ s \in presence'[d][v]
    BY <1>t, <1>1, <1>3 DEF IsAdding, Members
  <2>2. Due(d, v)' = 0
    BY <2>1 DEF Due, Announced
  <2>3. Removing(d, v)' = Removing(d, v)
    <3>1. ~ IsRemoving(s, d, v) /\ ~ IsRemoving(s, d, v)'
      BY <1>1, <1>3 DEF IsRemoving
    <3>2. \A t \in Sockets \ {s} : IsRemoving(t, d, v)' <=> IsRemoving(t, d, v)
      BY <1>0 DEF Waits, IsRemoving
    <3> QED BY <3>1, <3>2 DEF Removing
  <2>4. EventOK(d, v)
    BY DEF EventInv, EventOK
  <2>5. EventOK(d, v)'
    BY <1>0, <1>1, <2>2, <2>3, <2>4, EventTypes DEF EventOK
  <2>6. \A c \in Channels, u \in Users : c # d \/ u # v => EventOK(c, u)'
    BY <1>0, <1>1, <1>2, EventsKept
  <2> QED BY <2>5, <2>6 DEF EventInv, EventOK
<1>4. CASE presence[d][v] # {} \/ pc'[s] = "open"
  BY <1>0, <1>1, <1>2, <1>4, EventsKept DEF EventInv, EventOK
<1> QED BY <1>1, <1>3, <1>4

\* The two sends, and the removal that leads to the second.
LEMMA EventsSent ==
  ASSUME AdmissionInv, TypeOK', EventInv, NEW s \in Sockets,
         SendMemberAdded(s) \/ LeavePresence(s) \/ SendMemberRemoved(s)
  PROVE  EventInv'
<1>0. TypeOK /\ \A t \in Sockets \ {s} : Waits(t)
  BY OthersWait DEF AdmissionInv, Step
<1>t. /\ pc \in [Sockets -> Pcs] /\ cur \in [Sockets -> Channels \cup {NoChannel}]
      /\ arg \in [Sockets -> Users \cup {NoUser}] /\ flag \in [Sockets -> BOOLEAN]
      /\ presence \in [Channels -> [Users -> SUBSET Sockets]]
      /\ added \in [Channels -> [Users -> Nat]] /\ removed \in [Channels -> [Users -> Nat]]
  BY <1>0 DEF TypeOK, NsTypeOK
<1>c. PICK d \in Channels, v \in Users : cur[s] = d /\ arg[s] = v
  BY DEF AdmissionInv, CallOK, ChannelPcs, MemberPcs, SendMemberAdded, LeavePresence,
         SendMemberRemoved, HandlerStep, Goto
<1>i. EventOK(d, v) /\ IsFiniteSet(Removing(d, v)) /\ Cardinality(Removing(d, v)) \in Nat
  BY <1>0, EventTypes DEF EventInv, EventOK
<1>w. \A t \in Sockets \ {s} : IsRemoving(t, d, v)' <=> IsRemoving(t, d, v)
  BY <1>0 DEF Waits, IsRemoving
<1>e. ASSUME EventOK(d, v)',
             \A c \in Channels, u \in Users : c # d \/ u # v =>
               /\ PromisesKept(s, c, u)
               /\ added'[c][u] = added[c][u] /\ removed'[c][u] = removed[c][u]
      PROVE  EventInv'
  <2>1. \A c \in Channels, u \in Users : c # d \/ u # v => EventOK(c, u)'
    BY <1>0, <1>e, EventsKept
  <2> QED BY <1>e, <2>1 DEF EventInv, EventOK
<1>1. CASE SendMemberAdded(s)
  <2>1. /\ pc[s] = "memberAdded" /\ pc'[s] = "open" /\ presence' = presence /\ removed' = removed
        /\ added' = [added EXCEPT ![d][v] = @ + 1]
    BY <1>t, <1>c, <1>1 DEF SendMemberAdded, HandlerStep, Goto, nsVars, presenceVars
  <2>2. ~ IsRemoving(s, d, v) /\ ~ IsRemoving(s, d, v)'
    BY <2>1 DEF IsRemoving
  <2>3. Removing(d, v)' = Removing(d, v)
    BY <1>w, <2>2 DEF Removing
  <2>4. added'[d][v] = added[d][v] + 1
    BY <1>t, <2>1
  <2>5. EventOK(d, v)'
    <3>1. Due(d, v)' \in {0, 1} /\ Due(d, v) \in {0, 1}
      BY DEF Due
    <3> QED BY <1>0, <1>i, <2>1, <2>3, <2>4, <3>1, EventTypes DEF EventOK
  <2>6. \A c \in Channels, u \in Users : c # d \/ u # v =>
          PromisesKept(s, c, u) /\ added'[c][u] = added[c][u] /\ removed'[c][u] = removed[c][u]
    BY <1>t, <1>c, <2>1 DEF PromisesKept, IsAdding, IsRemoving
  <2> QED BY <1>e, <2>5, <2>6
<1>2. CASE LeavePresence(s)
  <2>1. /\ pc[s] = "leavePresence" /\ pc'[s] \in {"dropPresence", "memberRemoved", "leave"}
        /\ cur'[s] = d /\ arg'[s] = v /\ (flag'[s] <=> UserGone(s, d, v))
        /\ pc'[s] = "memberRemoved" => UserGone(s, d, v)
        /\ presence' = [presence EXCEPT ![d][v] = @ \ {s}] /\ UNCHANGED <<added, removed>>
    BY <1>t, <1>c, <1>2 DEF LeavePresence, RemovePresenceMember, AfterRemovePresence, HandlerStep,
                            Goto, eventVars
  <2>2. ~ IsRemoving(s, d, v) /\ ~ IsAdding(s, d, v)
    BY <2>1 DEF IsRemoving, IsAdding
  <2>3. /\ ~ IsAdding(s, d, v)' /\ (IsRemoving(s, d, v)' => UserGone(s, d, v))
        /\ \A t \in Sockets \ {s} : IsAdding(t, d, v)' <=> IsAdding(t, d, v)
    BY <1>0, <2>1 DEF IsRemoving, IsAdding, Waits
  <2>4. presence'[d][v] = presence[d][v] \ {s}
    BY <1>t, <2>1
  <2>5. ASSUME UserGone(s, d, v) PROVE EventOK(d, v)'
    <3>1. presence[d][v] = {s} /\ presence'[d][v] = {}
      BY <2>4, <2>5 DEF UserGone
    <3>2. Due(d, v) = 1 /\ Due(d, v)' = 0
      BY <2>2, <3>1 DEF Due, Announced
    <3>3. Removing(d, v)' \in {Removing(d, v), Removing(d, v) \cup {s}} /\ s \notin Removing(d, v)
      BY <1>w, <2>2 DEF Removing
    <3>4. Cardinality(Removing(d, v)') <= Cardinality(Removing(d, v)) + 1
          /\ Cardinality(Removing(d, v)') \in Nat
      BY <1>i, <3>3, FS_AddElement
    <3> QED BY <1>0, <1>i, <2>1, <3>2, <3>4, EventTypes DEF EventOK
  <2>6. ASSUME ~ UserGone(s, d, v) PROVE EventOK(d, v)'
    <3>1. Removing(d, v)' = Removing(d, v)
      BY <1>w, <2>2, <2>3, <2>6 DEF Removing
    <3>2. Announced(d, v)' => Announced(d, v)
      BY <1>t, <2>2, <2>3, <2>4, <2>6 DEF Announced, UserGone
    <3>3. Due(d, v)' <= Due(d, v) /\ Due(d, v)' \in {0, 1}
      BY <3>2 DEF Due
    <3> QED BY <1>0, <1>i, <2>1, <3>1, <3>3, EventTypes DEF EventOK
  <2>7. EventOK(d, v)'
    BY <2>5, <2>6
  <2>8. \A c \in Channels, u \in Users : c # d \/ u # v =>
          PromisesKept(s, c, u) /\ added'[c][u] = added[c][u] /\ removed'[c][u] = removed[c][u]
    BY <1>t, <1>c, <2>1 DEF PromisesKept, IsAdding, IsRemoving
  <2> QED BY <1>e, <2>7, <2>8
<1>3. CASE SendMemberRemoved(s)
  <2>1. /\ pc[s] = "memberRemoved" /\ pc'[s] = "leave" /\ presence' = presence /\ added' = added
        /\ removed' = [removed EXCEPT ![d][v] = @ + 1]
    BY <1>t, <1>c, <1>3 DEF SendMemberRemoved, HandlerStep, Goto, nsVars, presenceVars
  <2>2. IsRemoving(s, d, v) /\ ~ IsRemoving(s, d, v)' /\ ~ IsAdding(s, d, v) /\ ~ IsAdding(s, d, v)'
    BY <1>c, <2>1 DEF IsRemoving, IsAdding
  <2>3. Removing(d, v)' = Removing(d, v) \ {s} /\ s \in Removing(d, v)
    BY <1>w, <2>2 DEF Removing
  <2>4. Cardinality(Removing(d, v)') = Cardinality(Removing(d, v)) - 1
    BY <1>i, <2>3, FS_RemoveElement
  <2>5. removed'[d][v] = removed[d][v] + 1
    BY <1>t, <2>1
  <2>6. \A t \in Sockets : IsAdding(t, d, v)' <=> IsAdding(t, d, v)
    BY <1>0, <2>2 DEF Waits, IsAdding
  <2>7. Due(d, v)' = Due(d, v)
    BY <1>t, <2>1, <2>6 DEF Due, Announced
  <2>8. EventOK(d, v)'
    BY <1>0, <1>i, <2>1, <2>4, <2>5, <2>7, EventTypes DEF EventOK
  <2>9. \A c \in Channels, u \in Users : c # d \/ u # v =>
          PromisesKept(s, c, u) /\ added'[c][u] = added[c][u] /\ removed'[c][u] = removed[c][u]
    BY <1>t, <1>c, <2>1 DEF PromisesKept, IsAdding, IsRemoving
  <2> QED BY <1>e, <2>8, <2>9
<1> QED BY <1>1, <1>2, <1>3

\* Every removal sent or due is covered by an addition sent, in every
\* reachable state.
THEOREM EventInvariant == Spec => []EventInv
<1>1. Init => EventInv
  <2> SUFFICES ASSUME Init, NEW c \in Channels, NEW u \in Users PROVE EventOK(c, u)
    BY DEF EventInv, EventOK
  <2>1. Removing(c, u) = {} /\ Due(c, u) = 0 /\ added[c][u] = 0 /\ removed[c][u] = 0
    BY DEF Init, NsInit, Removing, IsRemoving, Due, Announced
  <2> QED BY <2>1, FS_EmptySet DEF EventOK
<1>2. AdmissionInv /\ AdmissionInv' /\ EventInv /\ [Next]_vars => EventInv'
  <2> SUFFICES ASSUME AdmissionInv, AdmissionInv', EventInv, [Next]_vars PROVE EventInv'
    OBVIOUS
  <2>1. ASSUME NEW s \in Sockets, Step(s) \/ Client(s) PROVE EventInv'
    BY <2>1, EventsUntouched, EventsSubscribe, EventsSent DEF Step, Client, AdmissionInv
  <2>2. CASE UNCHANGED vars
    BY <2>2 DEF vars, nsVars, presenceVars, localVars, eventVars, EventInv, Removing, IsRemoving,
                Due, Announced, IsAdding
  <2> QED BY <2>1, <2>2 DEF Next
<1> QED BY <1>1, <1>2, AdmissionInvariant, PTL DEF Spec

\* No member_removed without a member_added before it, however the sockets of
\* a user join and leave, and whatever the unguarded removals of entries drop.
THEOREM RemovedAfterAdded == Spec => []MemberRemovedAfterAdded
<1>1. AdmissionInv /\ EventInv => MemberRemovedAfterAdded
  <2> SUFFICES ASSUME AdmissionInv, EventInv, NEW c \in Channels, NEW u \in Users
               PROVE  removed[c][u] <= added[c][u]
    BY DEF MemberRemovedAfterAdded
  <2>1. TypeOK /\ EventOK(c, u)
    BY DEF AdmissionInv, EventInv, EventOK
  <2> QED BY <2>1, EventTypes DEF EventOK
<1> QED BY <1>1, AdmissionInvariant, EventInvariant, PTL

----------------------------------------------------------------------------
(* Rosters *)

\* PresenceRoster observes the tasks and adds no step of its own to them.
LEMMA RosterStepIsStep ==
  ASSUME NEW s \in Sockets, RosterStep(s) \/ RosterClient(s)
  PROVE  Step(s) \/ Client(s) \/ UNCHANGED vars
<1>1. ASSUME NEW c \in Channels, NEW u \in Users, SubscribeMember(s, c, u) PROVE Client(s)
  BY <1>1 DEF SubscribeMember, Client
<1>2. CASE OtherStep(s) \/ OtherRequest(s)
  BY <1>2 DEF OtherStep, OtherRequest, Step, Client
<1>3. CASE \/ JoinMember(s) \/ SendList(s) \/ AnnounceMember(s)
           \/ LeaveMember(s) \/ DropMembers(s) \/ RetractMember(s)
  BY <1>3 DEF JoinMember, SendList, AnnounceMember, LeaveMember, DropMembers, RetractMember, Step, vars
<1> QED BY <1>1, <1>2, <1>3 DEF RosterStep, RosterClient

\* A step of s leaves the connection of another task alone.
LEMMA OthersKeep ==
  ASSUME TypeOK, NEW s \in Sockets, Step(s) \/ Client(s), NEW t \in Sockets \ {s}
  PROVE  subscribed'[t] = subscribed[t] /\ (t \in closing' <=> t \in closing)
<1> USE DEF TypeOK, localVars, connVars
<1>1. CASE LoadCount(s) \/ CasSucceeds(s) \/ CasFails(s) \/ Register(s) \/ Count(s) \/ Greet(s)
  BY <1>1 DEF LoadCount, CasSucceeds, CasFails, Register, Count, Greet
<1>2. CASE Join(s) \/ SendOccupied(s) \/ SendMemberAdded(s) \/ SendMemberRemoved(s) \/ SendVacated(s)
  BY <1>2 DEF Join, SendOccupied, SendMemberAdded, SendMemberRemoved, SendVacated
<1>3. CASE LeavePresence(s) \/ RemoveEmptyPresence(s) \/ Leave(s) \/ RemoveEmptyChannel(s)
  BY <1>3 DEF LeavePresence, RemoveEmptyPresence, Leave, RemoveEmptyChannel
<1>4. ASSUME NEW c \in Channels, CloseChannel(s, c) \/ SubscribePublic(s, c) \/ Unsubscribe(s, c)
      PROVE  subscribed'[t] = subscribed[t] /\ (t \in closing' <=> t \in closing)
  BY <1>4 DEF CloseChannel, SubscribePublic, Unsubscribe
<1>5. CASE CloseUser(s) \/ CloseNoUser(s) \/ RemoveEmptyUser(s) \/ Unregister(s) \/ Uncount(s)
           \/ Unindex(s) \/ Close(s)
  BY <1>5 DEF CloseUser, CloseNoUser, RemoveEmptyUser, Unregister, Uncount, Unindex, Close
<1>6. ASSUME NEW c \in Channels, NEW u \in Users, SubscribePresence(s, c, u)
      PROVE  subscribed'[t] = subscribed[t] /\ (t \in closing' <=> t \in closing)
  BY <1>6 DEF SubscribePresence
<1>7. ASSUME NEW u \in SigninUsers, Signin(s, u)
      PROVE  subscribed'[t] = subscribed[t] /\ (t \in closing' <=> t \in closing)
  BY <1>7 DEF Signin
<1> QED BY <1>1, <1>2, <1>3, <1>4, <1>5, <1>6, <1>7 DEF Step, Client

\* Nor does a step of PresenceRoster, which leaves what the client of the other
\* task is still owed alone too.
LEMMA OthersWatch ==
  ASSUME TypeOK, RosterTypeOK, NEW s \in Sockets, RosterStep(s) \/ RosterClient(s),
         NEW t \in Sockets \ {s}
  PROVE  /\ Waits(t) /\ owes'[t] = owes[t]
         /\ subscribed'[t] = subscribed[t] /\ (t \in closing' <=> t \in closing)
<1>1. owes'[t] = owes[t]
  BY DEF RosterStep, RosterClient, JoinMember, SendList, AnnounceMember, LeaveMember, DropMembers,
         RetractMember, SubscribeMember, rosterVars, RosterTypeOK
<1>2. CASE Step(s) \/ Client(s)
  BY <1>1, <1>2, OthersWait, OthersKeep
<1>3. CASE UNCHANGED vars
  BY <1>1, <1>3 DEF vars, localVars, connVars, Waits
<1> QED BY <1>2, <1>3, RosterStepIsStep

\* While a list is owed, the task of s is still in the subscribe handler or
\* has just left it; only presence channels have lists and member events; the
\* member events are sent for a change of the member only; a channel being
\* left is no longer a subscription of its connection.
ListOK(s) ==
  /\ owes[s] # NoChannel => pc[s] \in {"occupied", "memberAdded", "open"}
  /\ pc[s] = "occupied" /\ owes[s] # NoChannel => cur[s] = owes[s]
  /\ pc[s] = "occupied" /\ cur[s] \in PresenceChannels => owes[s] = cur[s]
  /\ pc[s] \in {"join", "memberAdded", "leavePresence", "dropPresence", "memberRemoved"}
       \/ (pc[s] = "occupied" /\ flag[s]) => cur[s] \in PresenceChannels
  /\ pc[s] \in {"memberAdded", "memberRemoved"} => flag[s]
  /\ pc[s] \in {"leavePresence", "dropPresence", "memberRemoved"} =>
       cur[s] \notin subscribed[s] \/ s \in closing
ListInv == \A s \in Sockets : ListOK(s)

\* The invariants of SocketTasks that the proofs about rosters build on.
TasksInv == AdmissionInv /\ IndexInv /\ MemberInv

\* ListInv is inductive.
LEMMA ListStep ==
  ASSUME TasksInv, RosterTypeOK, ListInv, NEW s \in Sockets, RosterStep(s) \/ RosterClient(s)
  PROVE  ListInv'
<1>t. /\ pc \in [Sockets -> Pcs] /\ cur \in [Sockets -> Channels \cup {NoChannel}]
      /\ flag \in [Sockets -> BOOLEAN] /\ closing \subseteq Sockets
      /\ subscribed \in [Sockets -> SUBSET Channels]
      /\ owes \in [Sockets -> PresenceChannels \cup {NoChannel}]
      /\ pc[s] = "closing" => s \in closing
      /\ ListOK(s) /\ TypeOK
      /\ NoChannel \notin PresenceChannels
  BY NoneAssumption, PresenceAssumption
  DEF TasksInv, IndexInv, IndexOwned, AdmissionInv, TypeOK, RosterTypeOK, ListInv
<1>o. ASSUME NEW t \in Sockets \ {s} PROVE ListOK(t)'
  BY <1>t, OthersWatch DEF ListInv, ListOK, Waits
<1>s. ListOK(s)'
  <2> USE DEF Goto, HandlerStep, ListOK, localVars, connVars, rosterVars
  <2>1. CASE JoinMember(s)
    BY <1>t, <2>1 DEF JoinMember, Join, AfterJoin
  <2>2. CASE SendList(s)
    BY <1>t, <2>2 DEF SendList, vars
  <2>3. CASE AnnounceMember(s)
    BY <1>t, <2>3 DEF AnnounceMember, SendMemberAdded
  <2>4. CASE LeaveMember(s)
    <3>1. /\ pc[s] = "leavePresence" /\ flag'[s] = UserGone(s, cur[s], arg[s]) /\ cur'[s] = cur[s]
          /\ pc'[s] \in {"dropPresence"} \cup (IF UserGone(s, cur[s], arg[s]) THEN {"memberRemoved"} ELSE {"leave"})
          /\ UNCHANGED <<owes, subscribed, closing>>
      BY <1>t, <2>4 DEF LeaveMember, LeavePresence, AfterRemovePresence
    <3> QED BY <1>t, <3>1
  <2>5. CASE DropMembers(s)
    BY <1>t, <2>5 DEF DropMembers, RemoveEmptyPresence, AfterRemovePresence
  <2>6. CASE RetractMember(s)
    BY <1>t, <2>6 DEF RetractMember, SendMemberRemoved
  <2>7. ASSUME NEW c \in Channels, NEW u \in Users, owes[s] = NoChannel, SubscribeMember(s, c, u)
        PROVE  ListOK(s)'
    BY <1>t, <2>7 DEF SubscribeMember, SubscribePresence
  <2>8. CASE OtherStep(s) /\ UNCHANGED rosterVars
    <3>1. CASE LoadCount(s) \/ CasSucceeds(s) \/ CasFails(s) \/ Register(s) \/ Count(s) \/ Greet(s)
      BY <1>t, <2>8, <3>1 DEF LoadCount, CasSucceeds, CasFails, Register, Count, Greet
    <3>2. CASE SendOccupied(s)
      BY <1>t, <2>8, <3>2 DEF SendOccupied, AfterJoin
    <3>3. CASE Leave(s)
      BY <1>t, <2>8, <3>3 DEF Leave, AfterLeave
    <3>4. CASE RemoveEmptyChannel(s) \/ SendVacated(s)
      BY <1>t, <2>8, <3>4 DEF RemoveEmptyChannel, SendVacated, AfterLeave
    <3>5. ASSUME NEW c \in Channels, CloseChannel(s, c) PROVE ListOK(s)'
      BY <1>t, <2>8, <3>5 DEF CloseChannel, LeaveStart
    <3>6. CASE CloseUser(s) \/ CloseNoUser(s) \/ RemoveEmptyUser(s) \/ Unregister(s) \/ Uncount(s)
               \/ Unindex(s)
      BY <1>t, <2>8, <3>6 DEF CloseUser, CloseNoUser, RemoveEmptyUser, Unregister, Uncount, Unindex
    <3> QED BY <2>8, <3>1, <3>2, <3>3, <3>4, <3>5, <3>6 DEF OtherStep
  <2>9. CASE OtherRequest(s) /\ UNCHANGED rosterVars
    <3>1. ASSUME NEW c \in Channels, SubscribePublic(s, c) PROVE ListOK(s)'
      BY <1>t, <2>9, <3>1 DEF OtherRequest, SubscribePublic
    <3>2. ASSUME NEW c \in Channels, Unsubscribe(s, c) PROVE ListOK(s)'
      BY <1>t, <2>9, <3>2 DEF OtherRequest, Unsubscribe, LeaveStart
    <3>3. ASSUME NEW u \in SigninUsers, Signin(s, u) PROVE ListOK(s)'
      BY <1>t, <2>9, <3>3 DEF OtherRequest, Signin
    <3>4. CASE Close(s)
      BY <1>t, <2>9, <3>4 DEF OtherRequest, Close
    <3> QED BY <2>9, <3>1, <3>2, <3>3, <3>4 DEF OtherRequest
  <2> QED BY <2>1, <2>2, <2>3, <2>4, <2>5, <2>6, <2>7, <2>8, <2>9 DEF RosterStep, RosterClient
<1> QED BY <1>o, <1>s DEF ListInv

\* What the task of s is about to do to a member, and to whom.
LEMMA MemberAtWork ==
  ASSUME TasksInv, ListInv, NEW s \in Sockets, pc[s] \in MemberPcs
  PROVE  cur[s] \in PresenceChannels /\ arg[s] \in Users
BY DEF TasksInv, AdmissionInv, CallOK, ListInv, ListOK, MemberPcs


\* A member event reaches the sockets listed in the channel, all but its
\* sender; if it contradicts a list on its way, the list's socket is noted.
LEMMA MemberAnnounced ==
  ASSUME TasksInv, RosterTypeOK, ListInv, NEW s \in Sockets, AnnounceMember(s)
  PROVE  \E c \in PresenceChannels, u \in Users :
    /\ pc[s] = "memberAdded" /\ cur[s] = c /\ arg[s] = u
    /\ view' = [t \in Sockets |-> [d \in PresenceChannels |->
                  IF d = c /\ t \in channels[c] /\ t # s THEN view[t][d] \cup {u} ELSE view[t][d]]]
    /\ missed' = [t \in Sockets |-> [d \in PresenceChannels |->
                    IF d = c /\ Unlisted(t, c) /\ u \notin snapshot[t]
                    THEN missed[t][d] \cup {u} ELSE missed[t][d]]]
<1>1. pc[s] = "memberAdded"
  BY DEF AnnounceMember, SendMemberAdded, HandlerStep, Goto
<1>2. PICK c \in PresenceChannels, u \in Users : cur[s] = c /\ arg[s] = u
  BY <1>1, MemberAtWork DEF MemberPcs
<1>3. view' = [t \in Sockets |-> [d \in PresenceChannels |->
                 IF d = c /\ t \in channels[c] /\ t # s THEN view[t][d] \cup {u} ELSE view[t][d]]]
  BY <1>2 DEF AnnounceMember, FanOut, RosterTypeOK
<1>4. missed' = [t \in Sockets |-> [d \in PresenceChannels |->
                   IF d = c /\ Unlisted(t, c) /\ u \notin snapshot[t]
                   THEN missed[t][d] \cup {u} ELSE missed[t][d]]]
  BY <1>2 DEF AnnounceMember, Overtakes, RosterTypeOK
<1> QED BY <1>1, <1>2, <1>3, <1>4

\* The same for a removal.
LEMMA MemberRetracted ==
  ASSUME TasksInv, RosterTypeOK, ListInv, NEW s \in Sockets, RetractMember(s)
  PROVE  \E c \in PresenceChannels, u \in Users :
    /\ pc[s] = "memberRemoved" /\ cur[s] = c /\ arg[s] = u
    /\ view' = [t \in Sockets |-> [d \in PresenceChannels |->
                  IF d = c /\ t \in channels[c] /\ t # s THEN view[t][d] \ {u} ELSE view[t][d]]]
    /\ missed' = [t \in Sockets |-> [d \in PresenceChannels |->
                    IF d = c /\ Unlisted(t, c) /\ u \in snapshot[t]
                    THEN missed[t][d] \cup {u} ELSE missed[t][d]]]
<1>1. pc[s] = "memberRemoved"
  BY DEF RetractMember, SendMemberRemoved, HandlerStep, Goto
<1>2. PICK c \in PresenceChannels, u \in Users : cur[s] = c /\ arg[s] = u
  BY <1>1, MemberAtWork DEF MemberPcs
<1>3. view' = [t \in Sockets |-> [d \in PresenceChannels |->
                 IF d = c /\ t \in channels[c] /\ t # s THEN view[t][d] \ {u} ELSE view[t][d]]]
  BY <1>2 DEF RetractMember, FanOut, RosterTypeOK
<1>4. missed' = [t \in Sockets |-> [d \in PresenceChannels |->
                   IF d = c /\ Unlisted(t, c) /\ u \in snapshot[t]
                   THEN missed[t][d] \cup {u} ELSE missed[t][d]]]
  BY <1>2 DEF RetractMember, Overtakes, RosterTypeOK
<1> QED BY <1>1, <1>2, <1>3, <1>4

\* Every step keeps the types of what clients are told.
LEMMA RosterTypes ==
  ASSUME TasksInv, RosterTypeOK, ListInv, NEW s \in Sockets, RosterStep(s) \/ RosterClient(s)
  PROVE  RosterTypeOK'
<1> USE DEF RosterTypeOK
<1>1. CASE JoinMember(s)
  <2>1. cur[s] \in PresenceChannels
    BY <1>1, MemberAtWork DEF JoinMember, Join, HandlerStep, Goto, MemberPcs
  <2> QED BY <1>1, <2>1 DEF JoinMember
<1>2. CASE SendList(s)
  BY <1>2 DEF SendList
<1>3. CASE AnnounceMember(s)
  <2>1. PICK c \in PresenceChannels, u \in Users :
          /\ view' = [t \in Sockets |-> [d \in PresenceChannels |->
                       IF d = c /\ t \in channels[c] /\ t # s THEN view[t][d] \cup {u} ELSE view[t][d]]]
          /\ missed' = [t \in Sockets |-> [d \in PresenceChannels |->
                          IF d = c /\ Unlisted(t, c) /\ u \notin snapshot[t]
                          THEN missed[t][d] \cup {u} ELSE missed[t][d]]]
    BY <1>3, MemberAnnounced
  <2> QED BY <1>3, <2>1 DEF AnnounceMember
<1>4. CASE LeaveMember(s)
  <2>1. cur[s] \in PresenceChannels /\ arg[s] \in Users
    BY <1>4, MemberAtWork DEF LeaveMember, LeavePresence, HandlerStep, Goto, MemberPcs
  <2>2. contended' \subseteq PresenceChannels \X Users
    BY <1>4, <2>1 DEF LeaveMember, Contend
  <2> QED BY <1>4, <2>2 DEF LeaveMember
<1>5. CASE DropMembers(s)
  <2>1. cur[s] \in PresenceChannels
    BY <1>5, MemberAtWork DEF DropMembers, RemoveEmptyPresence, HandlerStep, Goto, MemberPcs
  <2>2. contended' \subseteq PresenceChannels \X Users
    BY <1>5, <2>1 DEF DropMembers, Members
  <2> QED BY <1>5, <2>2 DEF DropMembers
<1>6. CASE RetractMember(s)
  <2>1. PICK c \in PresenceChannels, u \in Users :
          /\ view' = [t \in Sockets |-> [d \in PresenceChannels |->
                       IF d = c /\ t \in channels[c] /\ t # s THEN view[t][d] \ {u} ELSE view[t][d]]]
          /\ missed' = [t \in Sockets |-> [d \in PresenceChannels |->
                          IF d = c /\ Unlisted(t, c) /\ u \in snapshot[t]
                          THEN missed[t][d] \cup {u} ELSE missed[t][d]]]
    BY <1>6, MemberRetracted
  <2> QED BY <1>6, <2>1 DEF RetractMember
<1>7. ASSUME NEW c \in Channels, NEW u \in Users, SubscribeMember(s, c, u) PROVE RosterTypeOK'
  <2>1. c \in PresenceChannels
    BY <1>7 DEF SubscribeMember, SubscribePresence
  <2>2. contended' \subseteq PresenceChannels \X Users
    BY <1>7, <2>1 DEF SubscribeMember, Contend
  <2>3. MembersWith(c, u) \subseteq Users
    BY DEF MembersWith, Members
  <2>4. snapshot' \in [Sockets -> SUBSET Users]
    BY <1>7, <2>3 DEF SubscribeMember
  <2>5. missed' \in [Sockets -> [PresenceChannels -> SUBSET Users]]
    <3>1. missed' = missed \/ missed' = [missed EXCEPT ![s][c] = {}]
      BY <1>7 DEF SubscribeMember
    <3>2. [missed[s] EXCEPT ![c] = {}] \in [PresenceChannels -> SUBSET Users]
      BY <2>1
    <3> QED BY <3>1, <3>2
  <2> QED BY <1>7, <2>2, <2>4, <2>5 DEF SubscribeMember
<1>8. CASE UNCHANGED rosterVars
  BY <1>8 DEF rosterVars
<1> QED BY <1>1, <1>2, <1>3, <1>4, <1>5, <1>6, <1>7, <1>8 DEF RosterStep, RosterClient

\* The members as the client of s takes them to be, the list on its way
\* included; and the sockets that keep up with them.
Told(s, c)    == IF Unlisted(s, c) THEN snapshot[s] ELSE view[s][c]
Follows(s, c) == Unlisted(s, c) \/ (s \in channels[c] /\ c \in subscribed[s] /\ s \notin closing)

Agrees(s, c, u) == u \in missed[s][c] \/ (u \in Told(s, c) <=> u \in Members(c))

Adds(t, c, u)    == Pending(t, c, u) /\ pc[t] \in {"join", "occupied", "memberAdded"}
Removes(t, c, u) == Pending(t, c, u) /\ pc[t] \in {"dropPresence", "memberRemoved"}
Quiet(c, u)      == \A t \in Sockets : ~ Pending(t, c, u)

\* Unless two changes of u were in flight together, one task at most has a
\* change to announce, the members already show it and its own client knows;
\* with no change in flight, everybody who follows c agrees about u.
UserOK(c, u) ==
  <<c, u>> \notin contended =>
    /\ \A t1, t2 \in Sockets : Pending(t1, c, u) /\ Pending(t2, c, u) => t1 = t2
    /\ \A t \in Sockets : Adds(t, c, u) => u \in Members(c) /\ u \in Told(t, c)
    /\ \A t \in Sockets : Removes(t, c, u) => u \notin Members(c)
    /\ Quiet(c, u) => \A t \in Sockets : Follows(t, c) => Agrees(t, c, u)

RosterInv == \A c \in PresenceChannels, u \in Users : UserOK(c, u)

\* A step of s that leaves alone whether u is a member, what is in flight
\* about u, and what those who follow c have been told.
LEMMA UserKept ==
  ASSUME NEW s \in Sockets, NEW c \in PresenceChannels, NEW u \in Users, UserOK(c, u),
         \A t \in Sockets \ {s} : Waits(t),
         contended \subseteq contended',
         Pending(s, c, u)' <=> Pending(s, c, u),
         Adds(s, c, u)' <=> Adds(s, c, u),
         (u \in Members(c))' <=> u \in Members(c),
         \A t \in Sockets : Adds(t, c, u) /\ u \in Told(t, c) => (u \in Told(t, c))',
         \A t \in Sockets : Follows(t, c)' =>
            Agrees(t, c, u)' \/ (Follows(t, c) /\ (Agrees(t, c, u) => Agrees(t, c, u)'))
  PROVE  UserOK(c, u)'
<1> SUFFICES ASSUME <<c, u>> \notin contended' PROVE UserOK(c, u)'
  BY DEF UserOK
<1>1. <<c, u>> \notin contended
  OBVIOUS
<1>2. \A t \in Sockets : /\ Pending(t, c, u)' <=> Pending(t, c, u)
                         /\ Adds(t, c, u)' <=> Adds(t, c, u)
                         /\ Removes(t, c, u)' <=> Removes(t, c, u)
  BY DEF Waits, Pending, Adds, Removes
<1>3. \A t1, t2 \in Sockets : Pending(t1, c, u)' /\ Pending(t2, c, u)' => t1 = t2
  BY <1>1, <1>2 DEF UserOK
<1>4. \A t \in Sockets : Adds(t, c, u)' => (u \in Members(c))' /\ (u \in Told(t, c))'
  BY <1>1, <1>2 DEF UserOK
<1>5. \A t \in Sockets : Removes(t, c, u)' => (u \notin Members(c))'
  BY <1>1, <1>2 DEF UserOK
<1>6. Quiet(c, u)' => \A t \in Sockets : Follows(t, c)' => Agrees(t, c, u)'
  BY <1>1, <1>2 DEF UserOK, Quiet
<1> QED BY <1>3, <1>4, <1>5, <1>6 DEF UserOK

\* The steps that no client is told of and that change no member: joining,
\* and all that is not about presence.
Unheard(s, c) ==
  /\ \A u \in Users : (Pending(s, c, u)' <=> Pending(s, c, u)) /\ (Adds(s, c, u)' <=> Adds(s, c, u))
  /\ Unlisted(s, c)' <=> Unlisted(s, c)
  /\ Follows(s, c)' => Follows(s, c)
  /\ channels'[c] \ {s} \subseteq channels[c]

\* The socket that joins was already owed its list.
LEMMA JoinIsUnheard ==
  ASSUME TasksInv, RosterTypeOK, ListInv, NEW s \in Sockets, NEW c \in PresenceChannels,
         JoinMember(s)
  PROVE  Unheard(s, c)
<1>t. /\ pc \in [Sockets -> Pcs] /\ cur \in [Sockets -> Channels \cup {NoChannel}]
      /\ arg \in [Sockets -> Users \cup {NoUser}] /\ flag \in [Sockets -> BOOLEAN]
      /\ subscribed \in [Sockets -> SUBSET Channels]
      /\ channels \in [Channels -> SUBSET Sockets]
      /\ owes \in [Sockets -> PresenceChannels \cup {NoChannel}]
      /\ ListOK(s) /\ c \in Channels /\ c # NoChannel
  BY NoneAssumption, PresenceAssumption DEF TasksInv, AdmissionInv, TypeOK, NsTypeOK, RosterTypeOK, ListInv
<1>1. /\ pc[s] = "join" /\ owes[s] = NoChannel /\ owes'[s] = cur[s]
      /\ \/ pc'[s] = "occupied" /\ cur'[s] = cur[s] /\ arg'[s] = arg[s] /\ flag'[s] = flag[s]
         \/ pc'[s] = "memberAdded" /\ flag[s] /\ cur'[s] = cur[s] /\ arg'[s] = arg[s] /\ flag'[s] = flag[s]
         \/ pc'[s] = "open" /\ ~ flag[s]
      /\ channels' = [channels EXCEPT ![cur[s]] = @ \cup {s}]
      /\ subscribed' = [subscribed EXCEPT ![s] = @ \cup {cur[s]}] /\ closing' = closing
  BY <1>t DEF JoinMember, Join, HandlerStep, Goto, AfterJoin, AddToChannel, ListOK
<1>2. \A u \in Users : (Pending(s, c, u)' <=> Pending(s, c, u)) /\ (Adds(s, c, u)' <=> Adds(s, c, u))
  BY <1>t, <1>1 DEF Pending, Adds
<1>3. Unlisted(s, c)' <=> Unlisted(s, c)
  BY <1>t, <1>1 DEF Unlisted
<1>4. c # cur[s] => channels'[c] = channels[c] /\ (c \in subscribed'[s] <=> c \in subscribed[s])
  BY <1>t, <1>1
<1>5. c = cur[s] => Unlisted(s, c)
  BY <1>1 DEF Unlisted
<1>6. channels'[c] \ {s} \subseteq channels[c]
  BY <1>t, <1>1
<1> QED BY <1>1, <1>2, <1>3, <1>4, <1>5, <1>6 DEF Unheard, Follows

\* The steps that have no effect on frames of members.
LEMMA OtherIsUnheard ==
  ASSUME TasksInv, RosterTypeOK, ListInv, NEW s \in Sockets, NEW c \in PresenceChannels,
         OtherStep(s) \/ OtherRequest(s), UNCHANGED rosterVars
  PROVE  Unheard(s, c) /\ presence' = presence
<1>t. /\ pc \in [Sockets -> Pcs] /\ cur \in [Sockets -> Channels \cup {NoChannel}]
      /\ arg \in [Sockets -> Users \cup {NoUser}] /\ flag \in [Sockets -> BOOLEAN]
      /\ subscribed \in [Sockets -> SUBSET Channels]
      /\ channels \in [Channels -> SUBSET Sockets]
      /\ ListOK(s) /\ c \in Channels /\ c # NoChannel /\ owes' = owes
  BY NoneAssumption, PresenceAssumption
  DEF TasksInv, AdmissionInv, TypeOK, NsTypeOK, ListInv, rosterVars
<1> USE DEF Goto, HandlerStep, nsVars, channelVars, presenceVars, localVars, connVars
<1>q. ASSUME pc[s] \notin {"join", "occupied", "memberAdded", "dropPresence", "memberRemoved"},
             pc'[s] \notin {"join", "occupied", "memberAdded", "dropPresence", "memberRemoved"},
             channels'[c] \subseteq channels[c],
             c \in subscribed'[s] => c \in subscribed[s], s \in closing => s \in closing'
      PROVE  Unheard(s, c)
  BY <1>t, <1>q DEF Unheard, Pending, Adds, Unlisted, Follows
<1>1. CASE LoadCount(s) \/ CasSucceeds(s) \/ CasFails(s) \/ Register(s) \/ Count(s) \/ Greet(s)
  BY <1>t, <1>q, <1>1 DEF LoadCount, CasSucceeds, CasFails, Register, Count, Greet
<1>2. CASE SendOccupied(s)
  BY <1>t, <1>2 DEF SendOccupied, AfterJoin, ListOK, Unheard, Pending, Adds, Unlisted, Follows
<1>3. CASE Leave(s)
  <2>1. channels'[c] \subseteq channels[c]
    BY <1>t, <1>3 DEF Leave, RemoveFromChannel
  <2> QED BY <1>t, <1>q, <1>3, <2>1 DEF Leave, AfterLeave
<1>4. CASE RemoveEmptyChannel(s)
  <2>1. channels'[c] \subseteq channels[c]
    BY <1>t, <1>4 DEF RemoveEmptyChannel, DropChannel
  <2> QED BY <1>t, <1>q, <1>4, <2>1 DEF RemoveEmptyChannel
<1>5. CASE SendVacated(s)
  BY <1>t, <1>q, <1>5 DEF SendVacated, AfterLeave
<1>6. ASSUME NEW d \in Channels, CloseChannel(s, d) PROVE Unheard(s, c) /\ presence' = presence
  BY <1>t, <1>q, <1>6 DEF CloseChannel, LeaveStart
<1>7. CASE CloseUser(s) \/ CloseNoUser(s) \/ RemoveEmptyUser(s) \/ Unregister(s) \/ Uncount(s)
  BY <1>t, <1>q, <1>7 DEF CloseUser, CloseNoUser, RemoveEmptyUser, Unregister, Uncount
<1>8. CASE Unindex(s)
  <2>1. channels'[c] \subseteq channels[c]
    BY <1>t, <1>8 DEF Unindex, UnindexSocket
  <2> QED BY <1>t, <1>q, <1>8, <2>1 DEF Unindex
<1>9. ASSUME NEW d \in Channels, SubscribePublic(s, d) PROVE Unheard(s, c) /\ presence' = presence
  <2>1. c # d /\ channels'[c] = channels[c] /\ (c \in subscribed'[s] <=> c \in subscribed[s])
        /\ closing' = closing /\ presence' = presence
    BY <1>t, <1>9 DEF SubscribePublic, AddToChannel
  <2>2. pc[s] = "open" /\ (pc'[s] = "open" \/ (pc'[s] = "occupied" /\ cur'[s] = d /\ ~ flag'[s]))
    BY <1>t, <1>9 DEF SubscribePublic
  <2> QED BY <1>t, <2>1, <2>2 DEF Unheard, Pending, Adds, Unlisted, Follows
<1>10. ASSUME NEW d \in Channels, Unsubscribe(s, d) PROVE Unheard(s, c) /\ presence' = presence
  BY <1>t, <1>q, <1>10 DEF Unsubscribe, LeaveStart
<1>11. ASSUME NEW u \in SigninUsers, Signin(s, u) PROVE Unheard(s, c) /\ presence' = presence
  BY <1>t, <1>q, <1>11 DEF Signin
<1>12. CASE Close(s)
  BY <1>t, <1>q, <1>12 DEF Close
<1> QED BY <1>1, <1>2, <1>3, <1>4, <1>5, <1>6, <1>7, <1>8, <1>9, <1>10, <1>11, <1>12 DEF OtherStep, OtherRequest

\* Neither kind of step concerns any user.
LEMMA UnheardKept ==
  ASSUME TasksInv, RosterTypeOK, ListInv, NEW s \in Sockets, NEW c \in PresenceChannels, NEW u \in Users,
         UserOK(c, u),
         \/ JoinMember(s)
         \/ (OtherStep(s) \/ OtherRequest(s)) /\ UNCHANGED rosterVars
  PROVE  UserOK(c, u)'
<1>1. RosterStep(s) \/ RosterClient(s)
  BY DEF RosterStep, RosterClient
<1>2. Unheard(s, c) /\ UNCHANGED <<presence, snapshot, view, missed, contended>>
  <2>1. CASE JoinMember(s)
    BY <2>1, JoinIsUnheard DEF JoinMember, Join, presenceVars
  <2>2. CASE (OtherStep(s) \/ OtherRequest(s)) /\ UNCHANGED rosterVars
    BY <2>2, OtherIsUnheard DEF rosterVars
  <2> QED BY <2>1, <2>2
<1>3. ASSUME NEW t \in Sockets \ {s}
      PROVE  /\ Waits(t) /\ (Unlisted(t, c)' <=> Unlisted(t, c)) /\ (Follows(t, c)' => Follows(t, c))
  <2>1. /\ Waits(t) /\ owes'[t] = owes[t]
        /\ subscribed'[t] = subscribed[t] /\ (t \in closing' <=> t \in closing)
    BY <1>1, OthersWatch DEF TasksInv, AdmissionInv
  <2> QED BY <1>2, <2>1 DEF Waits, Unlisted, Follows, Unheard
<1>4. \A t \in Sockets : /\ Told(t, c)' = Told(t, c) /\ (Follows(t, c)' => Follows(t, c))
  BY <1>2, <1>3 DEF Told, Unheard
<1>5. Members(c)' = Members(c)
  BY <1>2 DEF Members
<1>6. \A t \in Sockets : Agrees(t, c, u)' <=> Agrees(t, c, u)
  BY <1>2, <1>4, <1>5 DEF Agrees
<1> QED BY <1>2, <1>3, <1>4, <1>5, <1>6, UserKept DEF Unheard

\* How far the others are with c does not depend on the step of s, unless it
\* changes who is listed in c.
LEMMA OthersFollow ==
  ASSUME TasksInv, RosterTypeOK, NEW s \in Sockets, RosterStep(s) \/ RosterClient(s),
         channels' = channels, NEW c \in PresenceChannels, NEW t \in Sockets \ {s}
  PROVE  /\ Waits(t) /\ (Unlisted(t, c)' <=> Unlisted(t, c)) /\ (Follows(t, c)' <=> Follows(t, c))
         /\ \A u \in Users : Pending(t, c, u)' <=> Pending(t, c, u)
<1>1. /\ Waits(t) /\ owes'[t] = owes[t]
      /\ subscribed'[t] = subscribed[t] /\ (t \in closing' <=> t \in closing)
  BY OthersWatch DEF TasksInv, AdmissionInv
<1> QED BY <1>1 DEF Waits, Unlisted, Follows, Pending

\* The list is sent: what was on its way is now the client's roster.
LEMMA SendListKept ==
  ASSUME TasksInv, RosterTypeOK, ListInv, NEW s \in Sockets, NEW c \in PresenceChannels, NEW u \in Users,
         UserOK(c, u), SendList(s)
  PROVE  UserOK(c, u)'
<1>t. /\ owes \in [Sockets -> PresenceChannels \cup {NoChannel}]
      /\ view \in [Sockets -> [PresenceChannels -> SUBSET Users]]
      /\ snapshot \in [Sockets -> SUBSET Users]
      /\ ListOK(s) /\ c # NoChannel
  BY NoneAssumption, PresenceAssumption DEF RosterTypeOK, ListInv
<1>1. UNCHANGED <<pc, cur, arg, flag, user, presence, channels, subscribed, closing, missed, contended>>
  BY DEF SendList, vars, nsVars, channelVars, presenceVars, localVars, connVars
<1>2. /\ owes[s] \in PresenceChannels /\ owes'[s] = NoChannel /\ pc[s] \in {"memberAdded", "open"}
      /\ view'[s][owes[s]] = snapshot[s] /\ (c # owes[s] => view'[s][c] = view[s][c])
      /\ \A t \in Sockets \ {s} : owes'[t] = owes[t] /\ view'[t] = view[t] /\ snapshot'[t] = snapshot[t]
  BY <1>t DEF SendList, ListOK
<1>3. ASSUME NEW t \in Sockets
      PROVE  Told(t, c)' = Told(t, c) /\ (Follows(t, c)' => Follows(t, c))
  BY <1>t, <1>1, <1>2 DEF Told, Unlisted, Follows
<1>4. ASSUME NEW t \in Sockets PROVE Agrees(t, c, u)' <=> Agrees(t, c, u)
  BY <1>1, <1>3 DEF Agrees, Members
<1>5. \A t \in Sockets : Waits(t) /\ (Pending(t, c, u)' <=> Pending(t, c, u))
                         /\ (Adds(t, c, u)' <=> Adds(t, c, u))
  BY <1>1 DEF Waits, Pending, Adds
<1>6. (u \in Members(c))' <=> u \in Members(c)
  BY <1>1 DEF Members
<1> QED BY <1>1, <1>3, <1>4, <1>5, <1>6, UserKept

\* A member is added: the list taken with it shows it, and a user who was none
\* before has a change in flight now.
LEMMA SubscribeKept ==
  ASSUME TasksInv, RosterTypeOK, ListInv, NEW s \in Sockets, NEW c \in PresenceChannels, NEW u \in Users,
         UserOK(c, u), NEW d \in Channels, NEW v \in Users, owes[s] = NoChannel, SubscribeMember(s, d, v)
  PROVE  UserOK(c, u)'
<1>t. /\ pc \in [Sockets -> Pcs] /\ cur \in [Sockets -> Channels \cup {NoChannel}]
      /\ arg \in [Sockets -> Users \cup {NoUser}] /\ flag \in [Sockets -> BOOLEAN]
      /\ presence \in [Channels -> [Users -> SUBSET Sockets]]
      /\ snapshot \in [Sockets -> SUBSET Users]
      /\ missed \in [Sockets -> [PresenceChannels -> SUBSET Users]]
      /\ c \in Channels /\ d \in PresenceChannels /\ c # NoChannel
  BY NoneAssumption, PresenceAssumption
  DEF TasksInv, AdmissionInv, TypeOK, NsTypeOK, RosterTypeOK, SubscribeMember, SubscribePresence
<1>1. RosterClient(s)
  BY DEF RosterClient
<1>2. /\ pc[s] = "open" /\ d \notin subscribed[s]
      /\ UNCHANGED <<channels, subscribed, closing, owes, view>>
      /\ contended \subseteq contended'
  BY DEF SubscribeMember, SubscribePresence, HandlerStep, Goto, channelVars, connVars, Contend
<1>3. \A t \in Sockets \ {s} :
        /\ Waits(t) /\ (Unlisted(t, c)' <=> Unlisted(t, c)) /\ (Follows(t, c)' <=> Follows(t, c))
        /\ Pending(t, c, u)' <=> Pending(t, c, u)
  BY <1>1, <1>2, OthersFollow
<1>4. ~ Pending(s, c, u) /\ ~ Unlisted(s, c)
  BY <1>t, <1>2 DEF Pending, Unlisted
<1>5. CASE ~ Admits(d, v)
  <2>1. pc'[s] = "open" /\ UNCHANGED <<presence, snapshot, missed>>
    BY <1>t, <1>5 DEF SubscribeMember, SubscribePresence, HandlerStep, Goto, TryAddPresenceMember
  <2>2. ~ Pending(s, c, u)' /\ ~ Unlisted(s, c)'
    BY <1>t, <1>2, <2>1 DEF Pending, Unlisted
  <2>3. \A t \in Sockets : /\ Told(t, c)' = Told(t, c) /\ (Follows(t, c)' => Follows(t, c))
                           /\ Agrees(t, c, u)' <=> Agrees(t, c, u)
    BY <1>2, <1>3, <1>4, <2>1, <2>2 DEF Told, Follows, Agrees, Members
  <2> QED BY <1>2, <1>3, <1>4, <2>1, <2>2, <2>3, UserKept DEF Adds, Members
<1>6. CASE Admits(d, v)
  <2>1. /\ pc'[s] = "join" /\ cur'[s] = d /\ arg'[s] = v /\ (flag'[s] <=> v \notin Members(d))
        /\ presence' = [presence EXCEPT ![d][v] = @ \cup {s}]
        /\ snapshot' = [snapshot EXCEPT ![s] = Members(d) \cup {v}]
        /\ missed' = [missed EXCEPT ![s][d] = {}]
    BY <1>t, <1>6 DEF SubscribeMember, SubscribePresence, HandlerStep, Goto, TryAddPresenceMember, MembersWith
  <2>2. /\ snapshot'[s] = Members(d) \cup {v}
        /\ \A t \in Sockets \ {s} : snapshot'[t] = snapshot[t] /\ missed'[t] = missed[t]
        /\ d # c => missed'[s][c] = missed[s][c]
    BY <1>t, <2>1
  <2>3. (u \in Members(c))' <=> (u \in Members(c) \/ (c = d /\ u = v))
    BY <1>t, <2>1 DEF Members
  <2>4. /\ Pending(s, c, u)' <=> (c = d /\ u = v /\ v \notin Members(d))
        /\ Unlisted(s, c)' <=> c = d
    BY <1>t, <1>2, <2>1 DEF Pending, Unlisted
  <2>5. \A t \in Sockets \ {s} : Told(t, c)' = Told(t, c)
    BY <1>2, <1>3, <2>2 DEF Told
  <2>6. c # d => Told(s, c)' = Told(s, c) /\ (Follows(s, c)' => Follows(s, c))
    BY <1>2, <1>4, <2>4 DEF Told, Follows
  <2>7. c = d => Told(s, c)' = Members(c) \cup {v}
    BY <2>2, <2>4 DEF Told
  <2>8. CASE c = d /\ u = v /\ u \notin Members(c)
    <3>1. CASE \E t \in Sockets : Pending(t, c, u)
      <4>1. contended' = contended \cup {<<c, u>>}
        BY <1>6, <2>8, <3>1 DEF SubscribeMember, Contend
      <4> QED BY <4>1 DEF UserOK
    <3>2. CASE Quiet(c, u)
      <4>1. \A t \in Sockets : Pending(t, c, u)' => t = s
        BY <1>3, <3>2 DEF Quiet
      <4>2. (u \in Members(c))' /\ (u \in Told(s, c))'
        BY <2>3, <2>7, <2>8
      <4>3. ~ Quiet(c, u)' /\ ~ Removes(s, c, u)'
        BY <2>1, <2>4, <2>8 DEF Quiet, Removes
      <4> QED BY <4>1, <4>2, <4>3 DEF UserOK, Adds, Removes
    <3> QED BY <3>1, <3>2 DEF Quiet
  <2>9. CASE ~ (c = d /\ u = v /\ u \notin Members(c))
    <3>1. (u \in Members(c))' <=> u \in Members(c)
      BY <2>3, <2>9
    <3>2. ~ Pending(s, c, u)'
      BY <2>4, <2>9
    <3>3. \A t \in Sockets \ {s} : Agrees(t, c, u)' <=> Agrees(t, c, u)
      BY <2>2, <2>5, <3>1 DEF Agrees
    <3>4. c # d => (Agrees(s, c, u) => Agrees(s, c, u)')
      BY <2>2, <2>6, <3>1 DEF Agrees
    <3>5. c = d => Agrees(s, c, u)'
      BY <2>3, <2>7, <2>9, <3>1 DEF Agrees
    <3> QED BY <1>2, <1>3, <1>4, <2>5, <2>6, <3>1, <3>2, <3>3, <3>4, <3>5, UserKept DEF Adds
  <2> QED BY <2>8, <2>9
<1> QED BY <1>5, <1>6

\* The last socket of a user leaves: a change in flight; other leaves change
\* nothing about anybody.
LEMMA LeaveKept ==
  ASSUME TasksInv, RosterTypeOK, ListInv, NEW s \in Sockets, NEW c \in PresenceChannels, NEW u \in Users,
         UserOK(c, u), LeaveMember(s)
  PROVE  UserOK(c, u)'
<1>t. /\ pc \in [Sockets -> Pcs] /\ cur \in [Sockets -> Channels \cup {NoChannel}]
      /\ arg \in [Sockets -> Users \cup {NoUser}] /\ flag \in [Sockets -> BOOLEAN]
      /\ presence \in [Channels -> [Users -> SUBSET Sockets]]
      /\ ListOK(s) /\ c \in Channels /\ c # NoChannel
  BY NoneAssumption, PresenceAssumption DEF TasksInv, AdmissionInv, TypeOK, NsTypeOK, ListInv
<1>1. pc[s] = "leavePresence"
  BY DEF LeaveMember, LeavePresence, HandlerStep, Goto
<1>2. PICK d \in PresenceChannels, v \in Users : cur[s] = d /\ arg[s] = v
  BY <1>1, MemberAtWork DEF MemberPcs
<1>3. /\ cur'[s] = d /\ arg'[s] = v /\ (flag'[s] <=> UserGone(s, d, v))
      /\ pc'[s] \in {"dropPresence", "memberRemoved", "leave"}
      /\ UserGone(s, d, v) => pc'[s] # "leave"
      /\ ~ UserGone(s, d, v) => pc'[s] # "memberRemoved"
  BY <1>t, <1>1, <1>2 DEF LeaveMember, LeavePresence, HandlerStep, Goto, AfterRemovePresence
<1>4. /\ presence' = [presence EXCEPT ![d][v] = @ \ {s}]
      /\ UNCHANGED <<channels, subscribed, closing, snapshot, owes, view, missed>>
      /\ contended \subseteq contended'
  BY <1>2 DEF LeaveMember, LeavePresence, RemovePresenceMember, channelVars, connVars, Contend
<1>5. \A t \in Sockets \ {s} :
        /\ Waits(t) /\ (Unlisted(t, c)' <=> Unlisted(t, c)) /\ (Follows(t, c)' <=> Follows(t, c))
        /\ Pending(t, c, u)' <=> Pending(t, c, u)
  BY <1>4, OthersFollow DEF RosterStep
<1>6. ~ Pending(s, c, u) /\ ~ Unlisted(s, c) /\ ~ Unlisted(s, c)' /\ ~ Adds(s, c, u)'
  BY <1>t, <1>1, <1>3, <1>4 DEF Pending, Unlisted, ListOK, Adds
<1>7. \A t \in Sockets : Told(t, c)' = Told(t, c) /\ (Follows(t, c)' => Follows(t, c))
  BY <1>4, <1>5, <1>6 DEF Told, Follows
<1>8. CASE c = d /\ u = v /\ UserGone(s, d, v)
  <2>1. (u \notin Members(c))'
    BY <1>t, <1>4, <1>8 DEF UserGone, Members
  <2>2. CASE \E t \in Sockets : Pending(t, c, u)
    <3>1. contended' = contended \cup {<<c, u>>}
      BY <1>2, <1>8, <2>2 DEF LeaveMember, Contend
    <3> QED BY <3>1 DEF UserOK
  <2>3. CASE Quiet(c, u)
    <3>1. Pending(s, c, u)'
      BY <1>3, <1>8 DEF Pending
    <3>2. \A t \in Sockets : (Pending(t, c, u)' => t = s) /\ ~ Adds(t, c, u)'
      BY <1>5, <1>6, <2>3 DEF Quiet, Adds
    <3> QED BY <2>1, <3>1, <3>2 DEF UserOK, Quiet
  <2> QED BY <2>2, <2>3 DEF Quiet
<1>9. CASE ~ (c = d /\ u = v /\ UserGone(s, d, v))
  <2>1. (u \in Members(c))' <=> u \in Members(c)
    BY <1>t, <1>4, <1>9 DEF UserGone, Members
  <2>2. ~ Pending(s, c, u)'
    BY <1>3, <1>9 DEF Pending
  <2>3. \A t \in Sockets : Agrees(t, c, u)' <=> Agrees(t, c, u)
    BY <1>4, <1>7, <2>1 DEF Agrees
  <2> QED BY <1>4, <1>5, <1>6, <1>7, <2>1, <2>2, <2>3, UserKept DEF Adds
<1> QED BY <1>8, <1>9

\* The removal of an entry changes something only about users it takes along.
LEMMA DropKept ==
  ASSUME TasksInv, RosterTypeOK, ListInv, NEW s \in Sockets, NEW c \in PresenceChannels, NEW u \in Users,
         UserOK(c, u), DropMembers(s)
  PROVE  UserOK(c, u)'
<1>t. /\ pc \in [Sockets -> Pcs] /\ cur \in [Sockets -> Channels \cup {NoChannel}]
      /\ arg \in [Sockets -> Users \cup {NoUser}] /\ flag \in [Sockets -> BOOLEAN]
      /\ presence \in [Channels -> [Users -> SUBSET Sockets]]
      /\ ListOK(s) /\ c \in Channels /\ c # NoChannel
  BY NoneAssumption, PresenceAssumption DEF TasksInv, AdmissionInv, TypeOK, NsTypeOK, ListInv
<1>1. /\ pc[s] = "dropPresence" /\ cur'[s] = cur[s] /\ arg'[s] = arg[s] /\ flag'[s] = flag[s]
      /\ pc'[s] = (IF flag[s] THEN "memberRemoved" ELSE "leave")
  BY <1>t DEF DropMembers, RemoveEmptyPresence, HandlerStep, Goto, AfterRemovePresence
<1>2. /\ presence' = [presence EXCEPT ![cur[s]] = [v \in Users |-> {}]]
      /\ UNCHANGED <<channels, subscribed, closing, snapshot, owes, view, missed>>
      /\ contended' = contended \cup ({cur[s]} \X Members(cur[s]))
  BY DEF DropMembers, RemoveEmptyPresence, DropPresence, channelVars, connVars
<1>3. CASE c = cur[s] /\ u \in Members(c)
  BY <1>2, <1>3 DEF UserOK
<1>4. CASE ~ (c = cur[s] /\ u \in Members(c))
  <2>1. (u \in Members(c))' <=> u \in Members(c)
    BY <1>t, <1>2, <1>4 DEF Members
  <2>2. \A t \in Sockets \ {s} :
          Waits(t) /\ (Unlisted(t, c)' <=> Unlisted(t, c)) /\ (Follows(t, c)' <=> Follows(t, c))
    BY <1>2, OthersFollow DEF RosterStep
  <2>3. /\ Pending(s, c, u)' <=> Pending(s, c, u)
        /\ ~ Adds(s, c, u) /\ ~ Adds(s, c, u)' /\ ~ Unlisted(s, c) /\ ~ Unlisted(s, c)'
    BY <1>t, <1>1, <1>2 DEF Pending, Adds, Unlisted, ListOK
  <2>4. \A t \in Sockets : Told(t, c)' = Told(t, c) /\ (Follows(t, c)' => Follows(t, c))
    BY <1>2, <2>2, <2>3 DEF Told, Follows
  <2>5. \A t \in Sockets : Agrees(t, c, u)' <=> Agrees(t, c, u)
    BY <1>2, <2>1, <2>4 DEF Agrees
  <2> QED BY <1>2, <2>1, <2>2, <2>3, <2>4, <2>5, UserKept
<1> QED BY <1>3, <1>4

\* member_added reaches all who follow the channel, directly or as an event
\* that was missed.
LEMMA AnnounceKept ==
  ASSUME TasksInv, RosterTypeOK, ListInv, NEW s \in Sockets, NEW c \in PresenceChannels, NEW u \in Users,
         UserOK(c, u), AnnounceMember(s)
  PROVE  UserOK(c, u)'
<1>t. /\ pc \in [Sockets -> Pcs] /\ ListOK(s)
      /\ view \in [Sockets -> [PresenceChannels -> SUBSET Users]]
      /\ missed \in [Sockets -> [PresenceChannels -> SUBSET Users]]
  BY DEF TasksInv, AdmissionInv, TypeOK, RosterTypeOK, ListInv
<1>1. PICK d \in PresenceChannels, v \in Users :
        /\ pc[s] = "memberAdded" /\ cur[s] = d /\ arg[s] = v
        /\ view' = [t \in Sockets |-> [e \in PresenceChannels |->
                      IF e = d /\ t \in channels[d] /\ t # s THEN view[t][e] \cup {v} ELSE view[t][e]]]
        /\ missed' = [t \in Sockets |-> [e \in PresenceChannels |->
                        IF e = d /\ Unlisted(t, d) /\ v \notin snapshot[t]
                        THEN missed[t][e] \cup {v} ELSE missed[t][e]]]
  BY MemberAnnounced
<1>2. /\ pc'[s] = "open" /\ owes[s] = NoChannel
      /\ UNCHANGED <<presence, channels, subscribed, closing, snapshot, owes, contended>>
  BY <1>t DEF AnnounceMember, SendMemberAdded, HandlerStep, Goto, nsVars, channelVars, presenceVars, connVars
<1>3. \A t \in Sockets \ {s} :
        /\ Waits(t) /\ (Unlisted(t, c)' <=> Unlisted(t, c)) /\ (Follows(t, c)' <=> Follows(t, c))
        /\ Pending(t, c, u)' <=> Pending(t, c, u)
  BY <1>2, OthersFollow DEF RosterStep
<1>4. ~ Pending(s, c, u)' /\ ~ Unlisted(s, c) /\ ~ Unlisted(s, c)'
  BY <1>1, <1>2, NoneAssumption, PresenceAssumption DEF Pending, Unlisted
<1>5. \A t \in Sockets : /\ Unlisted(t, c)' <=> Unlisted(t, c)
                         /\ Follows(t, c)' <=> Follows(t, c)
  BY <1>2, <1>3, <1>4 DEF Follows
<1>6. (u \in Members(c))' <=> u \in Members(c)
  BY <1>2 DEF Members
<1>7. CASE ~ (c = d /\ u = v)
  <2>1. \A t \in Sockets : /\ u \in view'[t][c] <=> u \in view[t][c]
                           /\ u \in missed'[t][c] <=> u \in missed[t][c]
    BY <1>1, <1>7
  <2>2. \A t \in Sockets : (u \in Told(t, c))' <=> u \in Told(t, c)
    BY <1>2, <1>5, <2>1 DEF Told
  <2>3. \A t \in Sockets : Agrees(t, c, u)' <=> Agrees(t, c, u)
    BY <1>6, <2>1, <2>2 DEF Agrees
  <2>4. ~ Pending(s, c, u)
    BY <1>1, <1>7 DEF Pending
  <2> QED BY <1>2, <1>3, <1>4, <1>5, <1>6, <2>2, <2>3, <2>4, UserKept DEF Adds
<1>8. CASE c = d /\ u = v
  <2> SUFFICES ASSUME <<c, u>> \notin contended' PROVE UserOK(c, u)'
    BY DEF UserOK
  <2>1. Adds(s, c, u)
    BY <1>t, <1>1, <1>8 DEF Adds, Pending, ListOK
  <2>2. u \in Members(c) /\ u \in Told(s, c) /\ \A t \in Sockets : Pending(t, c, u) => t = s
    BY <1>2, <2>1 DEF UserOK, Adds
  <2>3. Quiet(c, u)'
    BY <1>3, <1>4, <2>2 DEF Quiet
  <2>4. ASSUME NEW t \in Sockets, Follows(t, c)' PROVE Agrees(t, c, u)'
    <3>1. CASE t = s
      <4>1. Told(s, c)' = Told(s, c)
        BY <1>1, <1>4 DEF Told
      <4> QED BY <1>6, <2>2, <3>1, <4>1 DEF Agrees
    <3>2. CASE t # s /\ Unlisted(t, c)
      <4>1. u \in missed'[t][c] \/ u \in snapshot[t]
        BY <1>1, <1>8, <3>2
      <4> QED BY <1>2, <1>5, <1>6, <2>2, <3>2, <4>1 DEF Agrees, Told
    <3>3. CASE t # s /\ ~ Unlisted(t, c)
      <4>1. t \in channels[c]
        BY <1>5, <2>4, <3>3 DEF Follows
      <4>2. u \in view'[t][c]
        BY <1>1, <1>8, <3>3, <4>1
      <4> QED BY <1>5, <1>6, <2>2, <3>3, <4>2 DEF Agrees, Told
    <3> QED BY <3>1, <3>2, <3>3
  <2> QED BY <2>3, <2>4 DEF UserOK, Quiet, Adds, Removes
<1> QED BY <1>7, <1>8

\* And so does member_removed; its sender no longer follows the channel.
LEMMA RetractKept ==
  ASSUME TasksInv, RosterTypeOK, ListInv, NEW s \in Sockets, NEW c \in PresenceChannels, NEW u \in Users,
         UserOK(c, u), RetractMember(s)
  PROVE  UserOK(c, u)'
<1>t. /\ pc \in [Sockets -> Pcs] /\ ListOK(s)
      /\ view \in [Sockets -> [PresenceChannels -> SUBSET Users]]
      /\ missed \in [Sockets -> [PresenceChannels -> SUBSET Users]]
  BY DEF TasksInv, AdmissionInv, TypeOK, RosterTypeOK, ListInv
<1>1. PICK d \in PresenceChannels, v \in Users :
        /\ pc[s] = "memberRemoved" /\ cur[s] = d /\ arg[s] = v
        /\ view' = [t \in Sockets |-> [e \in PresenceChannels |->
                      IF e = d /\ t \in channels[d] /\ t # s THEN view[t][e] \ {v} ELSE view[t][e]]]
        /\ missed' = [t \in Sockets |-> [e \in PresenceChannels |->
                        IF e = d /\ Unlisted(t, d) /\ v \in snapshot[t]
                        THEN missed[t][e] \cup {v} ELSE missed[t][e]]]
  BY MemberRetracted
<1>2. /\ pc'[s] = "leave" /\ owes[s] = NoChannel
      /\ UNCHANGED <<presence, channels, subscribed, closing, snapshot, owes, contended>>
  BY <1>t, <1>1 DEF RetractMember, SendMemberRemoved, HandlerStep, Goto, nsVars, channelVars, presenceVars,
                    connVars, ListOK
<1>3. \A t \in Sockets \ {s} :
        /\ Waits(t) /\ (Unlisted(t, c)' <=> Unlisted(t, c)) /\ (Follows(t, c)' <=> Follows(t, c))
        /\ Pending(t, c, u)' <=> Pending(t, c, u)
  BY <1>2, OthersFollow DEF RosterStep
<1>4. ~ Pending(s, c, u)' /\ ~ Unlisted(s, c) /\ ~ Unlisted(s, c)'
  BY <1>1, <1>2, NoneAssumption, PresenceAssumption DEF Pending, Unlisted
<1>5. \A t \in Sockets : /\ Unlisted(t, c)' <=> Unlisted(t, c)
                         /\ Follows(t, c)' <=> Follows(t, c)
  BY <1>2, <1>3, <1>4 DEF Follows
<1>6. (u \in Members(c))' <=> u \in Members(c)
  BY <1>2 DEF Members
<1>7. CASE ~ (c = d /\ u = v)
  <2>1. \A t \in Sockets : /\ u \in view'[t][c] <=> u \in view[t][c]
                           /\ u \in missed'[t][c] <=> u \in missed[t][c]
    BY <1>1, <1>7
  <2>2. \A t \in Sockets : (u \in Told(t, c))' <=> u \in Told(t, c)
    BY <1>2, <1>5, <2>1 DEF Told
  <2>3. \A t \in Sockets : Agrees(t, c, u)' <=> Agrees(t, c, u)
    BY <1>6, <2>1, <2>2 DEF Agrees
  <2>4. ~ Pending(s, c, u)
    BY <1>1, <1>7 DEF Pending
  <2> QED BY <1>2, <1>3, <1>4, <1>5, <1>6, <2>2, <2>3, <2>4, UserKept DEF Adds
<1>8. CASE c = d /\ u = v
  <2> SUFFICES ASSUME <<c, u>> \notin contended' PROVE UserOK(c, u)'
    BY DEF UserOK
  <2>1. Pending(s, c, u) /\ Removes(s, c, u)
    BY <1>t, <1>1, <1>8 DEF Removes, Pending, ListOK
  <2>2. u \notin Members(c) /\ \A t \in Sockets : Pending(t, c, u) => t = s
    BY <1>2, <2>1 DEF UserOK
  <2>3. Quiet(c, u)'
    BY <1>3, <1>4, <2>2 DEF Quiet
  <2>4. ASSUME NEW t \in Sockets, Follows(t, c)' PROVE Agrees(t, c, u)'
    <3>1. t # s
      BY <1>t, <1>1, <1>4, <1>5, <1>8, <2>4 DEF ListOK, Follows
    <3>2. CASE Unlisted(t, c)
      <4>1. u \in missed'[t][c] \/ u \notin snapshot[t]
        BY <1>1, <1>8, <3>2
      <4> QED BY <1>2, <1>5, <1>6, <2>2, <3>2, <4>1 DEF Agrees, Told
    <3>3. CASE ~ Unlisted(t, c)
      <4>1. t \in channels[c]
        BY <1>5, <2>4, <3>3 DEF Follows
      <4>2. u \notin view'[t][c]
        BY <1>1, <1>8, <3>1, <4>1
      <4> QED BY <1>5, <1>6, <2>2, <3>3, <4>2 DEF Agrees, Told
    <3> QED BY <3>2, <3>3
  <2> QED BY <2>3, <2>4 DEF UserOK, Quiet, Adds, Removes
<1> QED BY <1>7, <1>8

\* The tasks of PresenceRoster are those of SocketTasks: what holds of these,
\* holds of those.
THEOREM RosterImplementsTasks == RosterSpec => Spec
<1>1. RosterInit => Init
  BY DEF RosterInit
<1>2. [RosterNext]_allVars => [Next]_vars
  BY RosterStepIsStep DEF RosterNext, Next, allVars
<1> QED BY <1>1, <1>2, PTL DEF RosterSpec, Spec

\* The rosters' inductive invariant.
THEOREM RosterInvariant == RosterSpec => [](RosterTypeOK /\ ListInv /\ RosterInv)
<1>1. RosterInit => RosterTypeOK /\ ListInv /\ RosterInv
  <2> SUFFICES ASSUME RosterInit PROVE RosterTypeOK /\ ListInv /\ RosterInv
    OBVIOUS
  <2>1. RosterTypeOK /\ ListInv
    BY DEF RosterInit, Init, RosterTypeOK, ListInv, ListOK
  <2>2. ASSUME NEW c \in PresenceChannels, NEW u \in Users PROVE UserOK(c, u)
    <3>1. \A t \in Sockets : ~ Pending(t, c, u)
      BY DEF RosterInit, Init, Pending
    <3>2. Members(c) = {} /\ channels[c] = {}
      BY PresenceAssumption DEF RosterInit, Init, NsInit, Members
    <3>3. \A t \in Sockets : ~ Follows(t, c)
      BY <3>2, NoneAssumption, PresenceAssumption DEF RosterInit, Init, Unlisted, Follows
    <3> QED BY <3>1, <3>3 DEF UserOK, Adds, Removes
  <2> QED BY <2>1, <2>2 DEF RosterInv
<1>2. TasksInv /\ RosterTypeOK /\ ListInv /\ RosterInv /\ [RosterNext]_allVars
        => RosterTypeOK' /\ ListInv' /\ RosterInv'
  <2> SUFFICES ASSUME TasksInv, RosterTypeOK, ListInv, RosterInv, [RosterNext]_allVars
               PROVE  RosterTypeOK' /\ ListInv' /\ RosterInv'
    OBVIOUS
  <2>1. ASSUME NEW s \in Sockets, RosterStep(s) \/ RosterClient(s)
        PROVE  RosterTypeOK' /\ ListInv' /\ RosterInv'
    <3>1. RosterTypeOK' /\ ListInv'
      BY <2>1, RosterTypes, ListStep
    <3>2. ASSUME NEW c \in PresenceChannels, NEW u \in Users PROVE UserOK(c, u)'
      <4>1. UserOK(c, u)
        BY DEF RosterInv
      <4>2. CASE \/ JoinMember(s) \/ (OtherStep(s) /\ UNCHANGED rosterVars)
                 \/ (OtherRequest(s) /\ UNCHANGED rosterVars)
        BY <4>1, <4>2, UnheardKept
      <4>3. CASE SendList(s) \/ LeaveMember(s) \/ DropMembers(s) \/ AnnounceMember(s) \/ RetractMember(s)
        BY <4>1, <4>3, SendListKept, LeaveKept, DropKept, AnnounceKept, RetractKept
      <4>4. ASSUME NEW d \in Channels, NEW v \in Users, owes[s] = NoChannel, SubscribeMember(s, d, v)
            PROVE  UserOK(c, u)'
        BY <4>1, <4>4, SubscribeKept
      <4> QED BY <2>1, <4>2, <4>3, <4>4 DEF RosterStep, RosterClient
    <3> QED BY <3>1, <3>2 DEF RosterInv
  <2>2. CASE UNCHANGED allVars
    <3> USE <2>2 DEF allVars, vars, nsVars, channelVars, presenceVars, localVars, connVars, rosterVars
    <3>1. RosterTypeOK' /\ ListInv'
      BY DEF RosterTypeOK, ListInv, ListOK
    <3>2. ASSUME NEW c \in PresenceChannels, NEW u \in Users PROVE UserOK(c, u)'
      BY DEF RosterInv, UserOK, Pending, Adds, Removes, Quiet, Follows, Agrees, Told, Unlisted, Members
    <3> QED BY <3>1, <3>2 DEF RosterInv
  <2> QED BY <2>1, <2>2 DEF RosterNext
<1>3. RosterSpec => []TasksInv
  BY RosterImplementsTasks, AdmissionInvariant, IndexInvariant, MemberInvariant, PTL DEF TasksInv
<1> QED BY <1>1, <1>2, <1>3, PTL DEF RosterSpec

\* A client that has its list and follows the member events agrees with the
\* registry about every user none of whose changes is in flight, overlapped
\* another, or overtook the list, for any number of clients and users.
THEOREM RostersAreAccurate == RosterSpec => []RosterAccurate
<1>1. TasksInv /\ RosterInv => RosterAccurate
  <2> SUFFICES ASSUME TasksInv, RosterInv, NEW c \in PresenceChannels, NEW u \in Users,
                      <<c, u>> \notin contended, \A t \in Sockets : ~ Pending(t, c, u),
                      NEW s \in channels[c], pc[s] = "open", c \in subscribed[s], ~ Unlisted(s, c),
                      u \notin missed[s][c]
               PROVE  u \in view[s][c] <=> u \in Members(c)
    BY DEF RosterAccurate
  <2>1. s \in Sockets
    BY PresenceAssumption DEF TasksInv, AdmissionInv, TypeOK, NsTypeOK
  <2>2. s \notin closing
    BY <2>1 DEF TasksInv, IndexInv, IndexOwned, LeavePcs, EndPcs
  <2>3. Follows(s, c) /\ Quiet(c, u)
    BY <2>2 DEF Follows, Quiet
  <2>4. Agrees(s, c, u)
    BY <2>1, <2>3 DEF RosterInv, UserOK
  <2> QED BY <2>4 DEF Agrees, Told
<1>2. RosterSpec => []TasksInv
  BY RosterImplementsTasks, AdmissionInvariant, IndexInvariant, MemberInvariant, PTL DEF TasksInv
<1> QED BY <1>1, <1>2, RosterInvariant, PTL

=============================================================================
