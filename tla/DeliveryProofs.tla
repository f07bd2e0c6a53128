--------------------------- MODULE DeliveryProofs ---------------------------
(***************************************************************************)
(* Proofs about Delivery: types, the order and the multiplicity of the     *)
(* events a socket is sent, and that a subscriber of a cache channel       *)
(* misses nothing between the replay and the live stream.  They hold for   *)
(* any number of nodes, requests and connections, and any number of        *)
(* failing publishes, lost connections and expiries.                       *)
(*                                                                         *)
(* The argument follows an event: its task sends its events one after the  *)
(* other (Places, Published, FannedOut), so those on their way to a node   *)
(* are in their task's order and come after what the node has fanned out   *)
(* (Flow, Queued), and one that was published without an error is in one   *)
(* place (Single).                                                         *)
(***************************************************************************)
EXTENDS Delivery, SequenceTheorems, TLAPS

\* Where a task can be, and that what it sends then is an event.
Places ==
  /\ \A r \in Requests : /\ pc[r] \in RequestPcs \cup SendPcs
                         /\ pc[r] = "check" => index[r] = 1
                         /\ pc[r] \in {"cache"} \cup SendPcs => index[r] \in 1..Len(Batch[r])
  /\ \A s \in Sockets : /\ pc[s] \in SocketPcs \cup SendPcs
                        /\ index[s] \in 0..MaxClientEvents[s]
                        /\ pc[s] \in SendPcs => index[s] >= 1

\* An event belongs to a task; requests and connections have as many as Batch and
\* MaxClientEvents give them.
LEMMA EventType ==
  /\ \A e \in Events : e[1] \in Tasks /\ e[2] \in Nat /\ e = <<e[1], e[2]>>
  /\ \A r \in Requests : Len(Batch[r]) \in Nat /\ \A i \in 1..Len(Batch[r]) : <<r, i>> \in Events
  /\ \A s \in Sockets : MaxClientEvents[s] \in Nat /\ \A i \in 1..MaxClientEvents[s] : <<s, i>> \in Events
<1>1. \A r \in Requests : Len(Batch[r]) \in Nat /\ DOMAIN Batch[r] = 1..Len(Batch[r])
  BY BatchAssumption, LenProperties
<1>2. \A s \in Sockets : MaxClientEvents[s] \in Nat
  BY BoundAssumption
<1>3. ASSUME NEW e \in Events PROVE e[1] \in Tasks /\ e[2] \in Nat /\ e = <<e[1], e[2]>>
  <2>1. CASE \E r \in Requests : e \in {r} \X DOMAIN Batch[r]
    BY <1>1, <2>1 DEF Tasks
  <2>2. CASE \E s \in Sockets : e \in {s} \X (1..MaxClientEvents[s])
    BY <1>2, <2>2 DEF Tasks
  <2> QED BY <2>1, <2>2 DEF Events, RequestEvents, ClientEvents
<1>4. ASSUME NEW r \in Requests, NEW i \in 1..Len(Batch[r]) PROVE <<r, i>> \in Events
  <2>1. <<r, i>> \in {r} \X DOMAIN Batch[r]
    BY <1>1
  <2>2. {r} \X DOMAIN Batch[r] \in {{x} \X DOMAIN Batch[x] : x \in Requests}
    OBVIOUS
  <2> QED BY <2>1, <2>2 DEF Events, RequestEvents, ClientEvents
<1>5. ASSUME NEW s \in Sockets, NEW i \in 1..MaxClientEvents[s] PROVE <<s, i>> \in Events
  <2>1. <<s, i>> \in {s} \X (1..MaxClientEvents[s])
    OBVIOUS
  <2>2. {s} \X (1..MaxClientEvents[s]) \in {{x} \X (1..MaxClientEvents[x]) : x \in Sockets}
    OBVIOUS
  <2> QED BY <2>1, <2>2 DEF Events, RequestEvents, ClientEvents
<1> QED BY <1>1, <1>2, <1>3, <1>4, <1>5

\* The event a task sends is one of its own.
LEMMA SentIsEvent ==
  ASSUME TypeOK, Places, NEW t \in Tasks, pc[t] \in {"cache"} \cup SendPcs
  PROVE  Event(t) \in Events /\ Event(t)[1] = t /\ Event(t)[2] = index[t]
<1>1. CASE t \in Requests
  BY <1>1, EventType DEF Places, Event
<1>2. CASE t \in Sockets
  <2>1. index[t] \in 1..MaxClientEvents[t]
    BY <1>2, EventType DEF Places, SendPcs, SocketPcs
  <2> QED BY <1>2, <2>1, EventType DEF Event
<1> QED BY <1>1, <1>2 DEF Tasks

\* A sequence gains the element that is appended, as its last one.
LEMMA AppendRange ==
  ASSUME NEW S, NEW q \in Seq(S), NEW x \in S
  PROVE  /\ Append(q, x) \in Seq(S)
         /\ Range(Append(q, x)) = Range(q) \cup {x}
         /\ DOMAIN q = 1..Len(q) /\ DOMAIN Append(q, x) = 1..(Len(q) + 1) /\ Len(q) \in Nat
         /\ \A i \in 1..Len(q) : Append(q, x)[i] = q[i]
         /\ Append(q, x)[Len(q) + 1] = x
<1>1. /\ Append(q, x) \in Seq(S) /\ Len(Append(q, x)) = Len(q) + 1
      /\ \A i \in 1..Len(q) : Append(q, x)[i] = q[i]
      /\ Append(q, x)[Len(q) + 1] = x
  BY AppendProperties
<1>2. DOMAIN q = 1..Len(q) /\ DOMAIN Append(q, x) = 1..(Len(q) + 1) /\ Len(q) \in Nat
  BY <1>1, LenProperties
<1>3. Range(Append(q, x)) = Range(q) \cup {x}
  BY <1>1, <1>2 DEF Range
<1> QED BY <1>1, <1>2, <1>3

\* What is left of a sequence without its head.
LEMMA TailRange ==
  ASSUME NEW S, NEW q \in Seq(S), q # <<>>
  PROVE  /\ Head(q) \in S /\ Tail(q) \in Seq(S) /\ Head(q) = q[1] /\ 1 \in DOMAIN q
         /\ Len(q) \in Nat \ {0} /\ DOMAIN q = 1..Len(q) /\ DOMAIN Tail(q) = 1..(Len(q) - 1)
         /\ \A i \in 1..(Len(q) - 1) : Tail(q)[i] = q[i + 1] /\ i + 1 \in DOMAIN q
         /\ Range(Tail(q)) \subseteq Range(q) /\ Head(q) \in Range(q)
<1>1. /\ Head(q) \in S /\ Tail(q) \in Seq(S) /\ Len(Tail(q)) = Len(q) - 1
      /\ \A i \in 1..Len(Tail(q)) : Tail(q)[i] = q[i + 1]
  BY HeadTailProperties
<1>2. /\ Len(q) \in Nat \ {0} /\ DOMAIN q = 1..Len(q) /\ DOMAIN Tail(q) = 1..(Len(q) - 1)
      /\ Head(q) = q[1]
  BY <1>1, EmptySeq, LenProperties
<1>3. \A i \in 1..(Len(q) - 1) : Tail(q)[i] = q[i + 1] /\ i + 1 \in DOMAIN q
  BY <1>1, <1>2
<1> QED BY <1>1, <1>2, <1>3 DEF Range

\* What the two halves of sending do to the types.
LEMMA SendTypes ==
  ASSUME TypeOK, NEW n \in Nodes, NEW e \in Events
  PROVE  /\ Broadcast(n, e) => inbox' \in [Nodes -> Seq(Events)]
         /\ SendLocally(n, e) => frames' \in [Sockets -> Seq(Frames)] /\ heard' \in [Nodes -> SUBSET Events]
<1>1. Live(e) \in Frames
  BY DEF Frames
<1>2. \A m \in Nodes : inbox[m] \in Seq(Events) /\ Append(inbox[m], e) \in Seq(Events)
  BY AppendRange DEF TypeOK
<1>3. \A s \in Sockets : frames[s] \in Seq(Frames) /\ Append(frames[s], Live(e)) \in Seq(Frames)
  BY <1>1, AppendRange DEF TypeOK
<1>4. heard \in [Nodes -> SUBSET Events]
  BY DEF TypeOK
<1> QED BY <1>2, <1>3, <1>4 DEF Broadcast, SendLocally

\* Every step keeps a task at a place of its kind, with the index of an event of
\* its own while it sends.
LEMMA PlacesPreserved ==
  ASSUME TypeOK, Places, [Next]_vars
  PROVE  Places' /\ pc' \in [Tasks -> SocketPcs \cup RequestPcs \cup SendPcs] /\ index' \in [Tasks -> Nat]
<1> USE TaskAssumption DEF Tasks
<1>0. /\ pc \in [Tasks -> SocketPcs \cup RequestPcs \cup SendPcs] /\ index \in [Tasks -> Nat]
      /\ \A r \in Requests : Len(Batch[r]) \in Nat
      /\ \A s \in Sockets : MaxClientEvents[s] \in Nat
  BY EventType DEF TypeOK
\* One task goes from one place to another.
<1>1. ASSUME NEW t \in Tasks, NEW p \in SocketPcs \cup RequestPcs \cup SendPcs,
             pc' = [pc EXCEPT ![t] = p], index' = index,
             \/ t \in Requests /\ pc[t] \in {"cache"} \cup SendPcs /\ p \in RequestPcs \cup SendPcs /\ p # "check"
             \/ t \in Requests /\ p \in {"cache", "done"} /\ (p = "cache" => index[t] \in 1..Len(Batch[t]))
             \/ t \in Sockets /\ pc[t] \in SendPcs /\ p \in SocketPcs \cup SendPcs
             \/ t \in Sockets /\ p \in SocketPcs
      PROVE  Places' /\ pc' \in [Tasks -> SocketPcs \cup RequestPcs \cup SendPcs] /\ index' \in [Tasks -> Nat]
  <2>1. \A u \in Tasks \ {t} : pc'[u] = pc[u]
    BY <1>0, <1>1
  <2>2. pc'[t] = p
    BY <1>0, <1>1
  <2>3. ASSUME NEW r \in Requests
        PROVE  /\ pc'[r] \in RequestPcs \cup SendPcs
               /\ pc'[r] = "check" => index'[r] = 1
               /\ pc'[r] \in {"cache"} \cup SendPcs => index'[r] \in 1..Len(Batch[r])
    BY <1>1, <2>1, <2>2 DEF Places, RequestPcs, SendPcs
  <2>4. ASSUME NEW s \in Sockets
        PROVE  /\ pc'[s] \in SocketPcs \cup SendPcs
               /\ index'[s] \in 0..MaxClientEvents[s]
               /\ pc'[s] \in SendPcs => index'[s] >= 1
    BY <1>1, <2>1, <2>2 DEF Places, SocketPcs, SendPcs
  <2> QED BY <1>0, <1>1, <2>3, <2>4 DEF Places
<1>2. ASSUME NEW t \in Tasks, Publish(t) \/ Retry(t)
      PROVE  Places' /\ pc' \in [Tasks -> SocketPcs \cup RequestPcs \cup SendPcs] /\ index' \in [Tasks -> Nat]
  <2>1. /\ index' = index /\ pc[t] \in SendPcs
        /\ \E p \in SendPcs : pc' = [pc EXCEPT ![t] = p]
    BY <1>2 DEF Publish, Retry, Goto, SendPcs
  <2>2. t \in Requests \/ t \in Sockets
    OBVIOUS
  <2> QED BY <1>1, <2>1, <2>2 DEF SendPcs
<1>3. ASSUME NEW t \in Tasks, FanOut(t)
      PROVE  Places' /\ pc' \in [Tasks -> SocketPcs \cup RequestPcs \cup SendPcs] /\ index' \in [Tasks -> Nat]
  <2>0. pc[t] = "fanOut"
    BY <1>3 DEF FanOut, Goto
  <2>1. CASE t \in Requests /\ index[t] < Len(Batch[t])
    <3>1. pc' = [pc EXCEPT ![t] = "cache"] /\ index' = [index EXCEPT ![t] = index[t] + 1]
      BY <1>3, <2>1 DEF FanOut, Goto
    <3>2. index[t] + 1 \in 1..Len(Batch[t])
      BY <1>0, <2>1
    <3>3. "cache" \in RequestPcs
      BY DEF RequestPcs
    <3>4. ASSUME NEW r \in Requests
          PROVE  /\ pc'[r] \in RequestPcs \cup SendPcs
                 /\ pc'[r] = "check" => index'[r] = 1
                 /\ pc'[r] \in {"cache"} \cup SendPcs => index'[r] \in 1..Len(Batch[r])
      BY <1>0, <2>1, <3>1, <3>2, <3>3 DEF Places
    <3>5. \A s \in Sockets : pc'[s] = pc[s] /\ index'[s] = index[s]
      BY <1>0, <2>1, <3>1
    <3>6. index' \in [Tasks -> Nat]
      BY <1>0, <3>1
    <3> QED BY <1>0, <3>1, <3>3, <3>4, <3>5, <3>6 DEF Places
  <2>2. CASE ~(t \in Requests /\ index[t] < Len(Batch[t]))
    <3>1. pc' = [pc EXCEPT ![t] = IF t \in Requests THEN "done" ELSE "idle"] /\ index' = index
      BY <1>3, <2>2 DEF FanOut, Goto
    <3>2. CASE t \in Requests
      BY <1>1, <2>0, <3>1, <3>2 DEF SendPcs, RequestPcs
    <3>3. CASE t \in Sockets
      BY <1>1, <2>0, <3>1, <3>3 DEF SendPcs, SocketPcs
    <3> QED BY <3>2, <3>3
  <2> QED BY <2>1, <2>2
<1>4. ASSUME NEW r \in Requests, Request(r)
      PROVE  Places' /\ pc' \in [Tasks -> SocketPcs \cup RequestPcs \cup SendPcs] /\ index' \in [Tasks -> Nat]
  <2>1. CASE Cache(r)
    <3>1. pc[r] = "cache" /\ pc' = [pc EXCEPT ![r] = "publish"] /\ index' = index
      BY <2>1 DEF Cache, Goto
    <3> QED BY <1>1, <3>1 DEF SendPcs, RequestPcs
  <2>2. CASE Accept(r) \/ Refuse(r)
    <3>1. /\ pc[r] = "check" /\ index' = index
          /\ \/ Batch[r] # <<>> /\ pc' = [pc EXCEPT ![r] = "cache"]
             \/ pc' = [pc EXCEPT ![r] = "done"]
      <4>1. index' = index
        BY <1>4, <2>2 DEF Request, Accept, Refuse, Cache
      <4> QED BY <2>2, <4>1 DEF Accept, Refuse, Goto
    <3>2. Batch[r] # <<>> => index[r] \in 1..Len(Batch[r])
      <4>1. Batch[r] # <<>> => Len(Batch[r]) \in Nat \ {0}
        BY BatchAssumption, EmptySeq
      <4> QED BY <3>1, <4>1 DEF Places
    <3> QED BY <1>1, <3>1, <3>2 DEF RequestPcs
  <2> QED BY <1>4, <2>1, <2>2 DEF Request
<1>5. ASSUME NEW s \in Sockets, Connection(s)
      PROVE  Places' /\ pc' \in [Tasks -> SocketPcs \cup RequestPcs \cup SendPcs] /\ index' \in [Tasks -> Nat]
  <2>1. CASE ClientEvent(s)
    <3>1. /\ index[s] < MaxClientEvents[s] /\ s \notin Requests
          /\ pc' = [pc EXCEPT ![s] = "publish"] /\ index' = [index EXCEPT ![s] = index[s] + 1]
      BY <2>1 DEF ClientEvent, Goto
    <3>2. index[s] \in Nat /\ "publish" \in SendPcs
      BY <1>0 DEF SendPcs
    <3>3. ASSUME NEW u \in Sockets
          PROVE  /\ pc'[u] \in SocketPcs \cup SendPcs
                 /\ index'[u] \in 0..MaxClientEvents[u]
                 /\ pc'[u] \in SendPcs => index'[u] >= 1
      BY <1>0, <3>1, <3>2 DEF Places
    <3>4. \A r \in Requests : pc'[r] = pc[r] /\ index'[r] = index[r]
      BY <1>0, <3>1
    <3>5. index' \in [Tasks -> Nat]
      BY <1>0, <3>1
    <3> QED BY <1>0, <3>1, <3>2, <3>3, <3>4, <3>5 DEF Places
  <2>2. CASE Join(s) \/ ReadCache(s) \/ ReplayCache(s) \/ Unsubscribe(s) \/ DropEntry(s)
    <3>1. index' = index /\ \E p \in SocketPcs : pc' = [pc EXCEPT ![s] = p]
      BY <2>2 DEF Join, ReadCache, ReplayCache, Unsubscribe, DropEntry, Goto, SocketPcs
    <3> QED BY <1>1, <3>1
  <2> QED BY <1>5, <2>1, <2>2 DEF Connection
<1>6. ASSUME UNCHANGED taskVars
      PROVE  Places' /\ pc' \in [Tasks -> SocketPcs \cup RequestPcs \cup SendPcs] /\ index' \in [Tasks -> Nat]
  BY <1>0, <1>6 DEF taskVars, Places
<1>7. ASSUME (\E n \in Nodes : Receive(n) \/ Disconnect(n) \/ Reconnect(n)) \/ Expire \/ UNCHANGED vars
      PROVE  UNCHANGED taskVars
  BY <1>7 DEF Receive, Disconnect, Reconnect, Expire, vars
<1> QED BY <1>2, <1>3, <1>4, <1>5, <1>6, <1>7 DEF Next

\* broadcast_conn is held by the task that retries on it, and only by it.
HolderRetries == \A n \in Nodes : \A t \in Tasks : busy[n] = t <=> pc[t] = "retry" /\ NodeOf[t] = n

\* Every step keeps broadcast_conn and the places of the tasks in agreement.
LEMMA HolderPreserved ==
  ASSUME TypeOK, Places, [Next]_vars
  PROVE  busy' \in [Nodes -> Tasks \cup {Absent}] /\ HolderRetries'
<1> USE TaskAssumption, NodeAssumption
<1>0. /\ busy \in [Nodes -> Tasks \cup {Absent}] /\ HolderRetries
      /\ pc \in [Tasks -> SocketPcs \cup RequestPcs \cup SendPcs]
  BY DEF TypeOK, HolderRetries
\* A step of a task that neither begins nor ends a retry.
<1>1. ASSUME NEW t \in Tasks, NEW p, pc[t] # "retry", p # "retry",
             pc' = [pc EXCEPT ![t] = p], busy' = busy
      PROVE  busy' \in [Nodes -> Tasks \cup {Absent}] /\ HolderRetries'
  <2>1. \A u \in Tasks : pc'[u] = "retry" <=> pc[u] = "retry"
    BY <1>0, <1>1
  <2> QED BY <1>0, <1>1, <2>1 DEF HolderRetries
<1>2. ASSUME NEW t \in Tasks, Publish(t) PROVE busy' \in [Nodes -> Tasks \cup {Absent}] /\ HolderRetries'
  <2>1. CASE pc' = [pc EXCEPT ![t] = "fanOut"]
    <3>1. pc[t] = "publish" /\ busy' = busy
      BY <1>2, <2>1, <1>0 DEF Publish, Goto
    <3> QED BY <1>1, <2>1, <3>1
  <2>2. CASE pc' = [pc EXCEPT ![t] = "retry"]
    <3>1. pc[t] = "publish" /\ busy[NodeOf[t]] = Absent /\ busy' = [busy EXCEPT ![NodeOf[t]] = t]
      BY <1>2, <2>2, <1>0 DEF Publish, Goto
    <3> QED BY <1>0, <2>2, <3>1 DEF HolderRetries
  <2> QED BY <1>2, <2>1, <2>2 DEF Publish, Goto
<1>3. ASSUME NEW t \in Tasks, Retry(t) PROVE busy' \in [Nodes -> Tasks \cup {Absent}] /\ HolderRetries'
  <2>1. /\ pc[t] = "retry" /\ pc' = [pc EXCEPT ![t] = "fanOut"]
        /\ busy' = [busy EXCEPT ![NodeOf[t]] = Absent]
    BY <1>3 DEF Retry, Goto
  <2> QED BY <1>0, <2>1 DEF HolderRetries
<1>4. ASSUME NEW t \in Tasks, FanOut(t) PROVE busy' \in [Nodes -> Tasks \cup {Absent}] /\ HolderRetries'
  <2>1. pc[t] = "fanOut" /\ busy' = busy /\ \E p \in {"cache", "done", "idle"} : pc' = [pc EXCEPT ![t] = p]
    BY <1>4 DEF FanOut, Goto, wireVars
  <2> QED BY <1>1, <2>1
<1>5. ASSUME NEW t \in Tasks, (t \in Requests /\ Request(t)) \/ (t \in Sockets /\ Connection(t))
      PROVE  busy' \in [Nodes -> Tasks \cup {Absent}] /\ HolderRetries'
  <2>1. /\ pc[t] # "retry" /\ busy' = busy
        /\ \E p \in {"cache", "done", "publish", "listed", "read", "idle", "emptied"} : pc' = [pc EXCEPT ![t] = p]
    <3>1. CASE t \in Requests /\ Request(t)
      BY <3>1 DEF Request, Accept, Refuse, Cache, Goto, wireVars
    <3>2. CASE t \in Sockets /\ Connection(t)
      BY <3>2 DEF Connection, Join, ReadCache, ReplayCache, ClientEvent, Unsubscribe, DropEntry, Goto, wireVars
    <3> QED BY <1>5, <3>1, <3>2
  <2> QED BY <1>1, <2>1
<1>6. ASSUME (\E n \in Nodes : Receive(n) \/ Disconnect(n) \/ Reconnect(n)) \/ Expire \/ UNCHANGED vars
      PROVE  busy' \in [Nodes -> Tasks \cup {Absent}] /\ HolderRetries'
  <2>1. UNCHANGED <<pc, busy>>
    BY <1>6 DEF Receive, Disconnect, Reconnect, Expire, vars, taskVars, wireVars
  <2> QED BY <1>0, <2>1 DEF HolderRetries
<1> QED BY <1>2, <1>3, <1>4, <1>5, <1>6 DEF Next, Tasks

\* The variables of the channel, the cache and the wire.
DataOK ==
  /\ entry \in [Nodes -> (SUBSET Sockets) \cup {Absent}]
  /\ subscribed \subseteq Sockets
  /\ frames \in [Sockets -> Seq(Frames)]
  /\ cached \in Seq(Events)
  /\ found \in [Sockets -> Events \cup {Absent, Failed}]
  /\ seen \in [Sockets -> SUBSET Events]
  /\ linked \subseteq Nodes
  /\ inbox \in [Nodes -> Seq(Events)]
  /\ heard \in [Nodes -> SUBSET Events]
  /\ failed \subseteq Events
  /\ joins \in [Sockets -> 0..MaxJoins]
  /\ faults \in 0..MaxFaults

\* Every step keeps the types of these variables.
LEMMA DataPreserved ==
  ASSUME TypeOK, Places, [Next]_vars PROVE DataOK'
<1> USE NodeAssumption
<1>0. DataOK /\ MaxJoins \in Nat /\ MaxFaults \in Nat /\ Sockets \subseteq Tasks
  BY BoundAssumption DEF TypeOK, DataOK, Tasks
<1>a. ASSUME Fault PROVE faults' \in 0..MaxFaults
  <2>1. faults \in 0..MaxFaults /\ MaxFaults \in Nat
    BY <1>0 DEF DataOK
  <2> QED BY <1>a, <2>1 DEF Fault
<1>b. CacheMiss \in Frames /\ \A e \in Events : Replay(e) \in Frames
  BY DEF Frames
<1>1. ASSUME NEW t \in Tasks, Publish(t) \/ Retry(t) PROVE DataOK'
  <2>1. Event(t) \in Events /\ NodeOf[t] \in Nodes
    BY <1>1, SentIsEvent DEF Publish, Retry, Goto, SendPcs
  <2>2. inbox' \in [Nodes -> Seq(Events)]
    BY <1>0, <1>1, <2>1, SendTypes DEF Publish, Retry, DataOK
  <2>3. faults' \in 0..MaxFaults /\ failed' \subseteq Events
    BY <1>0, <1>1, <1>a, <2>1 DEF Publish, Retry, DataOK
  <2>4. UNCHANGED <<channelVars, cacheVars, linked, fanOutVars>>
    BY <1>1 DEF Publish, Retry
  <2> QED BY <1>0, <2>2, <2>3, <2>4 DEF DataOK, channelVars, cacheVars, fanOutVars
<1>2. ASSUME NEW n \in Nodes, NEW e \in Events, SendLocally(n, e), UNCHANGED <<channelVars, cacheVars, linked, failed, faults>>,
             inbox' \in [Nodes -> Seq(Events)]
      PROVE  DataOK'
  BY <1>0, <1>2, SendTypes DEF DataOK, channelVars, cacheVars
<1>3. ASSUME NEW t \in Tasks, FanOut(t) PROVE DataOK'
  <2>1. Event(t) \in Events /\ NodeOf[t] \in Nodes
    BY <1>3, SentIsEvent DEF FanOut, Goto, SendPcs
  <2> QED BY <1>0, <1>2, <1>3, <2>1 DEF FanOut, wireVars, DataOK
<1>4. ASSUME NEW n \in Nodes, Receive(n) PROVE DataOK'
  <2>1. inbox[n] \in Seq(Events) /\ inbox[n] # <<>>
    BY <1>0, <1>4 DEF Receive, DataOK
  <2>2. Head(inbox[n]) \in Events /\ Tail(inbox[n]) \in Seq(Events)
    BY <2>1, TailRange
  <2>3. inbox' \in [Nodes -> Seq(Events)]
    BY <1>0, <1>4, <2>2 DEF Receive, DataOK
  <2> QED BY <1>2, <1>4, <2>2, <2>3 DEF Receive
<1>5. ASSUME NEW r \in Requests, Request(r) PROVE DataOK'
  <2>1. CASE Accept(r) \/ Refuse(r)
    <3>1. UNCHANGED <<channelVars, cacheVars, wireVars, fanOutVars, faults>>
      BY <1>5, <2>1 DEF Request, Cache, Accept, Refuse, Goto
    <3> QED BY <1>0, <3>1 DEF DataOK, channelVars, cacheVars, wireVars, fanOutVars
  <2>2. CASE Cache(r)
    <3>1. Event(r) \in Events
      BY <2>2, SentIsEvent DEF Cache, Goto, Tasks
    <3>2. cached' \in Seq(Events)
      <4>1. cached \in Seq(Events) /\ Append(cached, Event(r)) \in Seq(Events)
        BY <1>0, <3>1, AppendRange DEF DataOK
      <4> QED BY <2>2, <4>1 DEF Cache
    <3>3. faults' \in 0..MaxFaults
      BY <1>0, <1>a, <2>2 DEF Cache, DataOK
    <3>4. UNCHANGED <<channelVars, found, seen, wireVars, fanOutVars>>
      BY <2>2 DEF Cache
    <3> QED BY <1>0, <3>2, <3>3, <3>4 DEF DataOK, channelVars, wireVars, fanOutVars
  <2> QED BY <1>5, <2>1, <2>2 DEF Request
<1>6. ASSUME NEW s \in Sockets, Join(s) \/ Unsubscribe(s) \/ DropEntry(s) \/ ClientEvent(s) PROVE DataOK'
  <2>1. UNCHANGED <<cached, wireVars, heard, faults>>
    BY <1>6 DEF Join, Unsubscribe, DropEntry, ClientEvent, cacheVars, fanOutVars
  <2>2. entry' \in [Nodes -> (SUBSET Sockets) \cup {Absent}] /\ subscribed' \subseteq Sockets
    <3>1. ASSUME NEW n \in Nodes, NEW new \in (SUBSET Sockets) \cup {Absent}, entry' = [entry EXCEPT ![n] = new]
          PROVE  entry' \in [Nodes -> (SUBSET Sockets) \cup {Absent}]
      BY <1>0, <3>1 DEF DataOK
    <3>2. entry[NodeOf[s]] \in (SUBSET Sockets) \cup {Absent} /\ NodeOf[s] \in Nodes
      BY <1>0 DEF DataOK
    <3>3. CASE Join(s)
      BY <1>0, <3>1, <3>2, <3>3 DEF Join, DataOK
    <3>4. CASE Unsubscribe(s)
      BY <1>0, <3>1, <3>2, <3>4 DEF Unsubscribe, DataOK
    <3>5. CASE DropEntry(s) \/ ClientEvent(s)
      <4>1. /\ entry' = entry \/ entry' = [entry EXCEPT ![NodeOf[s]] = Absent]
            /\ subscribed' = subscribed
        BY <3>5 DEF DropEntry, ClientEvent, channelVars
      <4>2. entry \in [Nodes -> (SUBSET Sockets) \cup {Absent}] /\ subscribed \subseteq Sockets
        BY <1>0 DEF DataOK
      <4>3. Absent \in (SUBSET Sockets) \cup {Absent}
        OBVIOUS
      <4>4. entry' \in [Nodes -> (SUBSET Sockets) \cup {Absent}]
        BY <3>1, <3>2, <4>1, <4>2, <4>3
      <4> QED BY <4>1, <4>2, <4>4
    <3> QED BY <1>6, <3>3, <3>4, <3>5
  <2>3. joins' \in [Sockets -> 0..MaxJoins]
    <3>1. CASE Join(s)
      BY <1>0, <3>1 DEF Join, DataOK
    <3>2. CASE ~Join(s)
      BY <1>0, <1>6, <3>2 DEF Unsubscribe, DropEntry, ClientEvent, channelVars, DataOK
    <3> QED BY <3>1, <3>2
  <2>4. frames' \in [Sockets -> Seq(Frames)]
    <3>1. <<>> \in Seq(Frames)
      BY EmptySeq
    <3>2. frames' = frames \/ frames' = [frames EXCEPT ![s] = <<>>]
      BY <1>6 DEF Join, Unsubscribe, DropEntry, ClientEvent, fanOutVars
    <3> QED BY <1>0, <3>1, <3>2 DEF DataOK
  <2>5. found' \in [Sockets -> Events \cup {Absent, Failed}] /\ seen' \in [Sockets -> SUBSET Events]
    BY <1>0, <1>6 DEF Join, Unsubscribe, DropEntry, ClientEvent, cacheVars, DataOK
  <2> QED BY <1>0, <2>1, <2>2, <2>3, <2>4, <2>5 DEF DataOK, wireVars
<1>7. ASSUME NEW s \in Sockets, ReadCache(s) PROVE DataOK'
  <2>1. cached # <<>> => Last(cached) \in Events
    <3>1. cached # <<>> => Len(cached) \in 1..Len(cached)
      BY <1>0, EmptySeq DEF DataOK
    <3> QED BY <1>0, <3>1, ElementOfSeq DEF DataOK, Last
  <2>2. Range(cached) \subseteq Events
    BY <1>0, ElementOfSeq, LenProperties DEF DataOK, Range
  <2>3. found' \in [Sockets -> Events \cup {Absent, Failed}]
    BY <1>0, <1>7, <2>1 DEF ReadCache, DataOK
  <2>4. faults' \in 0..MaxFaults
    BY <1>0, <1>7, <1>a DEF ReadCache, DataOK
  <2>5. seen' \in [Sockets -> SUBSET Events]
    BY <1>0, <1>7, <2>2 DEF ReadCache, DataOK
  <2>6. UNCHANGED <<channelVars, cached, wireVars, fanOutVars>>
    BY <1>7 DEF ReadCache
  <2> QED BY <1>0, <2>3, <2>4, <2>5, <2>6 DEF DataOK, channelVars, wireVars, fanOutVars
<1>8. ASSUME NEW s \in Sockets, ReplayCache(s) PROVE DataOK'
  <2>1. (IF found[s] \in {Absent, Failed} THEN CacheMiss ELSE Replay(found[s])) \in Frames
    BY <1>0, <1>b DEF DataOK
  <2>2. Append(frames[s], IF found[s] \in {Absent, Failed} THEN CacheMiss ELSE Replay(found[s])) \in Seq(Frames)
    BY <1>0, <2>1, AppendRange DEF DataOK
  <2>3. frames' \in [Sockets -> Seq(Frames)]
    BY <1>0, <1>8, <2>2 DEF ReplayCache, DataOK
  <2>4. UNCHANGED <<channelVars, cacheVars, wireVars, heard, faults>>
    BY <1>8 DEF ReplayCache
  <2> QED BY <1>0, <2>3, <2>4 DEF DataOK, channelVars, cacheVars, wireVars
<1>9. ASSUME NEW n \in Nodes, Disconnect(n) \/ Reconnect(n) PROVE DataOK'
  <2>1. inbox' \in [Nodes -> Seq(Events)]
    <3>1. <<>> \in Seq(Events)
      BY EmptySeq
    <3> QED BY <1>0, <1>9, <3>1 DEF Disconnect, Reconnect, DataOK
  <2>2. faults' \in 0..MaxFaults
    BY <1>0, <1>9, <1>a DEF Disconnect, Reconnect, DataOK
  <2>3. linked' \subseteq Nodes /\ UNCHANGED <<channelVars, cacheVars, failed, fanOutVars>>
    BY <1>0, <1>9 DEF Disconnect, Reconnect, DataOK
  <2> QED BY <1>0, <2>1, <2>2, <2>3 DEF DataOK, channelVars, cacheVars, fanOutVars
<1>10. ASSUME Expire PROVE DataOK'
  <2>1. faults' \in 0..MaxFaults /\ cached' \in Seq(Events)
    BY <1>10, <1>a, EmptySeq DEF Expire
  <2>2. UNCHANGED <<channelVars, found, seen, wireVars, fanOutVars>>
    BY <1>10 DEF Expire
  <2> QED BY <1>0, <2>1, <2>2 DEF DataOK, channelVars, wireVars, fanOutVars
<1>11. ASSUME UNCHANGED vars PROVE DataOK'
  BY <1>0, <1>11 DEF vars, DataOK, channelVars, cacheVars, wireVars, fanOutVars
<1> QED BY <1>1, <1>3, <1>4, <1>5, <1>6, <1>7, <1>8, <1>9, <1>10, <1>11 DEF Next, Connection

\* The three together: types are kept by every step, and hold at the start.
LEMMA TypesPreserved == ASSUME TypeOK, Places, [Next]_vars PROVE TypeOK' /\ Places'
  BY PlacesPreserved, HolderPreserved, DataPreserved DEF TypeOK, DataOK, HolderRetries

\* The types of the initial state.
LEMMA TypesInit == Init => TypeOK /\ Places
<1> SUFFICES ASSUME Init PROVE TypeOK /\ Places
  OBVIOUS
<1>1. Places
  BY EventType, TaskAssumption DEF Init, Places, Tasks, RequestPcs, SocketPcs, SendPcs
<1>2. pc \in [Tasks -> SocketPcs \cup RequestPcs \cup SendPcs] /\ index \in [Tasks -> Nat]
  BY DEF Init, RequestPcs, SocketPcs
<1>3. DataOK
  <2>1. <<>> \in Seq(Frames) /\ <<>> \in Seq(Events)
    BY EmptySeq
  <2>2. 0 \in 0..MaxJoins /\ 0 \in 0..MaxFaults
    BY BoundAssumption
  <2>3. /\ linked = Nodes /\ failed = {} /\ subscribed = {} /\ cached = <<>> /\ faults = 0
        /\ entry = [n \in Nodes |-> Absent] /\ heard = [n \in Nodes |-> {}]
        /\ found = [s \in Sockets |-> Absent] /\ seen = [s \in Sockets |-> {}]
    BY DEF Init
  <2>4. /\ frames = [s \in Sockets |-> <<>>] /\ inbox = [n \in Nodes |-> <<>>]
        /\ joins = [s \in Sockets |-> 0]
    BY DEF Init
  <2>5. /\ frames \in [Sockets -> Seq(Frames)] /\ inbox \in [Nodes -> Seq(Events)]
        /\ joins \in [Sockets -> 0..MaxJoins] /\ cached \in Seq(Events) /\ faults \in 0..MaxFaults
    BY <2>1, <2>2, <2>3, <2>4
  <2>6. /\ entry \in [Nodes -> (SUBSET Sockets) \cup {Absent}]
        /\ found \in [Sockets -> Events \cup {Absent, Failed}]
        /\ seen \in [Sockets -> SUBSET Events] /\ heard \in [Nodes -> SUBSET Events]
    BY <2>3
  <2> QED BY <2>3, <2>5, <2>6 DEF DataOK
<1>4. busy \in [Nodes -> Tasks \cup {Absent}] /\ HolderRetries
  BY TaskAssumption DEF Init, HolderRetries
<1> QED BY <1>1, <1>2, <1>3, <1>4 DEF TypeOK, DataOK, HolderRetries

\* Type correctness, for any number of nodes, requests and connections: whoever
\* holds broadcast_conn over a failing publish is about to release it.
THEOREM TypeCorrect == Spec => []TypeOK
<1>1. TypeOK /\ Places /\ [Next]_vars => TypeOK' /\ Places'
  BY TypesPreserved
<1> QED BY TypesInit, <1>1, PTL DEF Spec

\* The node whose task sends the event.
HomeOf(e) == NodeOf[e[1]]

\* Redis may have the event; its own node has fanned it out.  Both are said of
\* the events a request has refused to send, too.
Published(e) == \/ e[2] < index[e[1]]
                \/ e[2] = index[e[1]] /\ pc[e[1]] \notin {"check", "cache", "publish"}
FannedOut(e) == \/ e[2] < index[e[1]]
                \/ e[2] = index[e[1]] /\ pc[e[1]] \notin {"check", "cache"} \cup SendPcs

\* The socket was sent the event when it was published.
ShownTo(s, e) == Live(e) \in Range(frames[s])

\* An entry lists sockets of its node; a retried event is one that failed.
Lists ==
  /\ \A n \in Nodes : entry[n] # Absent => \A s \in entry[n] : NodeOf[s] = n
  /\ \A t \in Tasks : pc[t] = "retry" => Event(t) \in failed

\* Nothing arrives or is shown before it was published, nothing comes back to
\* its own node, which shows it when its task fans it out.
Flow ==
  /\ \A n \in Nodes : \A e \in Range(inbox[n]) : Published(e) /\ HomeOf(e) # n
  /\ \A n \in Nodes : \A e \in heard[n] : Published(e)
  /\ \A s \in Sockets, e \in Events :
       ShownTo(s, e) => Published(e) /\ (HomeOf(e) = NodeOf[s] => FannedOut(e))

\* What is on its way to a node is in the order of its sender, and comes after
\* what its sockets have been shown.
InOrder ==
  \A n \in Nodes : \A p, q \in DOMAIN inbox[n] :
    p < q /\ inbox[n][p][1] = inbox[n][q][1] => inbox[n][p][2] <= inbox[n][q][2]
Queued ==
  /\ InOrder
  /\ \A s \in Sockets, d \in Events : \A e \in Range(inbox[NodeOf[s]]) :
       ShownTo(s, d) /\ d[1] = e[1] => d[2] <= e[2]

\* An event that was published at the first attempt is on its way to a node
\* once, and not any more when it has been shown.
Once ==
  \A n \in Nodes : \A p, q \in DOMAIN inbox[n] :
    inbox[n][p] = inbox[n][q] /\ p # q => inbox[n][p] \in failed
Single ==
  /\ Once
  /\ \A s \in Sockets : \A e \in Range(inbox[NodeOf[s]]) : ShownTo(s, e) => e \in failed

\* The inductive invariant.
Shown == Flow /\ Queued /\ Single /\ SenderOrder /\ TwiceOnlyAfterError
FlowInv == Lists /\ Shown

\* Frames of live events and the others are told apart, and carry one event.
LEMMA Kinds ==
  /\ \A x \in Frames : x[1] = "event" => x[2] \in Events /\ x = Live(x[2])
  /\ \A e \in Events : Live(e) \in Frames /\ Live(e)[1] = "event" /\ Live(e)[2] = e
  /\ \A x \in Frames : x[1] # "event" => \A e \in Events : x # Live(e)
  /\ CacheMiss \in Frames /\ CacheMiss[1] # "event"
  /\ \A e \in Events : Replay(e) \in Frames /\ Replay(e)[1] # "event"
BY DEF Frames, Live, Replay, CacheMiss

\* A task only moves forward: what was published or fanned out stays so.
LEMMA Progress ==
  ASSUME TypeOK, Places, [Next]_vars, NEW e \in Events
  PROVE  (Published(e) => Published(e)') /\ (FannedOut(e) => FannedOut(e)')
<1> DEFINE t == e[1]
<1>0. /\ t \in Tasks /\ index[t] \in Nat /\ e[2] \in Nat
      /\ pc \in [Tasks -> SocketPcs \cup RequestPcs \cup SendPcs]
      /\ index \in [Tasks -> Nat]
  BY EventType DEF TypeOK
<1> HIDE DEF t
<1>a. ASSUME index'[t] = index[t],
             \/ pc'[t] = pc[t]
             \/ pc'[t] \notin {"check", "cache"} \cup SendPcs
             \/ pc[t] \in {"check", "cache"}
             \/ pc[t] \in SendPcs /\ pc'[t] \in {"retry", "fanOut"}
      PROVE  (Published(e) => Published(e)') /\ (FannedOut(e) => FannedOut(e)')
  BY <1>0, <1>a DEF Published, FannedOut, SendPcs, t
<1>b. ASSUME index'[t] = index[t] + 1
      PROVE  (Published(e) => Published(e)') /\ (FannedOut(e) => FannedOut(e)')
  BY <1>0, <1>b DEF Published, FannedOut, t
<1>1. ASSUME NEW u \in Tasks, Publish(u) \/ Retry(u)
      PROVE  index' = index /\ pc[u] \in SendPcs /\ \E p \in {"retry", "fanOut"} : pc' = [pc EXCEPT ![u] = p]
  BY <1>1 DEF Publish, Retry, Goto, SendPcs
<1>2. ASSUME NEW u \in Tasks, FanOut(u)
      PROVE  \/ index' = index /\ \E p \in {"idle", "done"} : pc' = [pc EXCEPT ![u] = p]
             \/ index' = [index EXCEPT ![u] = index[u] + 1] /\ \A v \in Tasks \ {u} : pc'[v] = pc[v]
  <2>1. CASE u \in Requests /\ index[u] < Len(Batch[u])
    BY <1>0, <1>2, <2>1 DEF FanOut, Goto
  <2>2. CASE ~(u \in Requests /\ index[u] < Len(Batch[u]))
    BY <1>2, <2>2 DEF FanOut, Goto
  <2> QED BY <2>1, <2>2
<1>3. ASSUME NEW u \in Requests, Request(u)
      PROVE  index' = index /\ pc[u] \in {"check", "cache"} /\ \E p : pc' = [pc EXCEPT ![u] = p]
  BY <1>3 DEF Request, Accept, Refuse, Cache, Goto
<1>4. ASSUME NEW u \in Sockets, Connection(u)
      PROVE  \/ index' = index /\ \E p \in SocketPcs : pc' = [pc EXCEPT ![u] = p]
             \/ index' = [index EXCEPT ![u] = index[u] + 1] /\ \A v \in Tasks \ {u} : pc'[v] = pc[v]
  <2>1. CASE ClientEvent(u)
    BY <1>0, <2>1 DEF ClientEvent, Goto
  <2>2. CASE ~ClientEvent(u)
    BY <1>4, <2>2 DEF Connection, Join, ReadCache, ReplayCache, Unsubscribe, DropEntry, Goto, SocketPcs
  <2> QED BY <2>1, <2>2
<1>5. ASSUME (\E n \in Nodes : Receive(n) \/ Disconnect(n) \/ Reconnect(n)) \/ Expire \/ UNCHANGED vars
      PROVE  UNCHANGED <<index, pc>>
  BY <1>5 DEF Receive, Disconnect, Reconnect, Expire, vars, taskVars
<1>6. CASE \E u \in Tasks : Publish(u) \/ Retry(u) \/ FanOut(u)
  <2>1. PICK u \in Tasks : Publish(u) \/ Retry(u) \/ FanOut(u)
    BY <1>6
  <2>2. CASE Publish(u) \/ Retry(u)
    BY <1>0, <1>1, <1>a, <2>2
  <2>3. CASE FanOut(u)
    BY <1>0, <1>2, <1>a, <1>b, <2>3 DEF SendPcs
  <2> QED BY <2>1, <2>2, <2>3
<1>7. CASE \E u \in Requests : Request(u)
  BY <1>0, <1>3, <1>a, <1>7 DEF Tasks
<1>8. CASE \E u \in Sockets : Connection(u)
  <2>1. PICK u \in Sockets : Connection(u)
    BY <1>8
  <2>2. u \in Tasks
    BY DEF Tasks
  <2> QED BY <1>0, <1>4, <1>a, <1>b, <2>1, <2>2 DEF SocketPcs, SendPcs
<1>9. CASE (\E n \in Nodes : Receive(n) \/ Disconnect(n) \/ Reconnect(n)) \/ Expire \/ UNCHANGED vars
  BY <1>5, <1>a, <1>9
<1> QED BY <1>6, <1>7, <1>8, <1>9 DEF Next

\* Every step keeps sockets listed at their own node, and retries events that
\* have failed.
LEMMA ListsPreserved ==
  ASSUME TypeOK, Places, Lists, [Next]_vars PROVE Lists'
<1> USE NodeAssumption, TaskAssumption
<1>0. /\ pc \in [Tasks -> SocketPcs \cup RequestPcs \cup SendPcs] /\ index \in [Tasks -> Nat]
      /\ entry \in [Nodes -> (SUBSET Sockets) \cup {Absent}] /\ Sockets \subseteq Tasks
  BY DEF TypeOK, Tasks
<1>1. ASSUME NEW t \in Tasks, NEW p \in SocketPcs \cup RequestPcs \cup SendPcs, p # "retry",
             pc' = [pc EXCEPT ![t] = p], \A u \in Tasks \ {t} : index'[u] = index[u], failed' = failed
      PROVE  \A u \in Tasks : pc'[u] = "retry" => Event(u)' \in failed'
  BY <1>0, <1>1 DEF Lists, Event
<1>2. ASSUME NEW t \in Tasks, Publish(t) \/ Retry(t) PROVE Lists'
  <2>1. index' = index /\ entry' = entry
    BY <1>2 DEF Publish, Retry, channelVars
  <2>2. \/ failed' = failed /\ pc' = [pc EXCEPT ![t] = "fanOut"]
        \/ failed' = failed \cup {Event(t)} /\ pc' = [pc EXCEPT ![t] = "retry"]
    BY <1>2 DEF Publish, Retry, Goto
  <2> QED BY <1>0, <2>1, <2>2 DEF Lists, Event
<1>3. ASSUME NEW t \in Tasks, FanOut(t) PROVE Lists'
  <2>1. /\ entry' = entry /\ failed' = failed /\ \A u \in Tasks \ {t} : index'[u] = index[u]
        /\ \E p \in {"cache", "done", "idle"} : pc' = [pc EXCEPT ![t] = p]
    BY <1>0, <1>3 DEF FanOut, Goto, channelVars, wireVars
  <2> QED BY <1>1, <2>1 DEF Lists, RequestPcs, SocketPcs
<1>4. ASSUME NEW t \in Requests, Request(t) PROVE Lists'
  <2>1. /\ entry' = entry /\ failed' = failed /\ index' = index
        /\ \E p \in {"cache", "done", "publish"} : pc' = [pc EXCEPT ![t] = p]
    BY <1>4 DEF Request, Accept, Refuse, Cache, Goto, channelVars, wireVars
  <2> QED BY <1>1, <2>1 DEF Lists, RequestPcs, SendPcs, Tasks
<1>5. ASSUME NEW s \in Sockets, Connection(s) PROVE Lists'
  <2>1. /\ failed' = failed /\ \A u \in Tasks \ {s} : index'[u] = index[u]
        /\ \E p \in {"publish"} \cup SocketPcs : pc' = [pc EXCEPT ![s] = p]
    BY <1>0, <1>5 DEF Connection, Join, ReadCache, ReplayCache, ClientEvent, Unsubscribe, DropEntry, Goto,
                wireVars, SocketPcs
  <2>2. \A n \in Nodes : entry'[n] # Absent => \A u \in entry'[n] : NodeOf[u] = n
    <3>1. \/ entry' = entry
          \/ entry' = [entry EXCEPT ![NodeOf[s]] = IF entry[NodeOf[s]] = Absent THEN {s} ELSE entry[NodeOf[s]] \cup {s}]
          \/ entry' = [entry EXCEPT ![NodeOf[s]] = IF entry[NodeOf[s]] = Absent THEN Absent ELSE entry[NodeOf[s]] \ {s}]
          \/ entry' = [entry EXCEPT ![NodeOf[s]] = Absent]
      <4>1. CASE Join(s)
        BY <4>1 DEF Join
      <4>2. CASE Unsubscribe(s)
        <5>1. entry[NodeOf[s]] = Absent => entry' = [entry EXCEPT ![NodeOf[s]] = Absent]
          BY <4>2 DEF Unsubscribe
        <5>2. entry[NodeOf[s]] # Absent => entry' = [entry EXCEPT ![NodeOf[s]] = entry[NodeOf[s]] \ {s}]
          BY <4>2 DEF Unsubscribe
        <5> QED BY <5>1, <5>2
      <4>3. CASE DropEntry(s) \/ ReadCache(s) \/ ReplayCache(s) \/ ClientEvent(s)
        BY <4>3 DEF DropEntry, ReadCache, ReplayCache, ClientEvent, channelVars
      <4> QED BY <1>5, <4>1, <4>2, <4>3 DEF Connection
    <3> QED BY <1>0, <3>1 DEF Lists
  <2> QED BY <1>0, <1>1, <2>1, <2>2 DEF Lists, SendPcs, SocketPcs
<1>6. ASSUME (\E n \in Nodes : Receive(n) \/ Disconnect(n) \/ Reconnect(n)) \/ Expire \/ UNCHANGED vars PROVE Lists'
  <2>1. UNCHANGED <<pc, index, entry, failed>>
    BY <1>6 DEF Receive, Disconnect, Reconnect, Expire, vars, taskVars, channelVars, wireVars
  <2> QED BY <2>1 DEF Lists, Event
<1> QED BY <1>2, <1>3, <1>4, <1>5, <1>6 DEF Next

\* Inboxes hold events, sockets were sent frames.
LEMMA InTransit ==
  ASSUME TypeOK
  PROVE  /\ \A n \in Nodes :
              /\ inbox[n] \in Seq(Events) /\ DOMAIN inbox[n] = 1..Len(inbox[n]) /\ Len(inbox[n]) \in Nat
              /\ Range(inbox[n]) \subseteq Events /\ heard[n] \subseteq Events
              /\ \A p \in DOMAIN inbox[n] : inbox[n][p] \in Range(inbox[n])
         /\ \A s \in Sockets :
              /\ frames[s] \in Seq(Frames) /\ DOMAIN frames[s] = 1..Len(frames[s]) /\ Len(frames[s]) \in Nat
              /\ \A p \in DOMAIN frames[s] :
                   /\ frames[s][p] \in Frames
                   /\ frames[s][p][1] = "event" => frames[s][p][2] \in Events /\ ShownTo(s, frames[s][p][2])
<1>1. ASSUME NEW n \in Nodes
      PROVE  /\ inbox[n] \in Seq(Events) /\ DOMAIN inbox[n] = 1..Len(inbox[n]) /\ Len(inbox[n]) \in Nat
             /\ Range(inbox[n]) \subseteq Events /\ heard[n] \subseteq Events
             /\ \A p \in DOMAIN inbox[n] : inbox[n][p] \in Range(inbox[n])
  <2>1. inbox[n] \in Seq(Events) /\ heard[n] \subseteq Events
    BY DEF TypeOK
  <2>2. /\ DOMAIN inbox[n] = 1..Len(inbox[n]) /\ Len(inbox[n]) \in Nat
        /\ \A p \in 1..Len(inbox[n]) : inbox[n][p] \in Events
    BY <2>1, LenProperties, ElementOfSeq
  <2> QED BY <2>1, <2>2 DEF Range
<1>2. ASSUME NEW s \in Sockets
      PROVE  /\ frames[s] \in Seq(Frames) /\ DOMAIN frames[s] = 1..Len(frames[s]) /\ Len(frames[s]) \in Nat
             /\ \A p \in DOMAIN frames[s] :
                  /\ frames[s][p] \in Frames
                  /\ frames[s][p][1] = "event" => frames[s][p][2] \in Events /\ ShownTo(s, frames[s][p][2])
  <2>1. frames[s] \in Seq(Frames)
    BY DEF TypeOK
  <2>2. /\ DOMAIN frames[s] = 1..Len(frames[s]) /\ Len(frames[s]) \in Nat
        /\ \A p \in 1..Len(frames[s]) : frames[s][p] \in Frames
    BY <2>1, LenProperties, ElementOfSeq
  <2> QED BY <2>1, <2>2, Kinds DEF ShownTo, Range
<1> QED BY <1>1, <1>2

\* Steps that send nothing: inboxes and frames are kept or cleared, a replay is
\* appended, and no event is fanned out.
LEMMA QuietStep ==
  ASSUME TypeOK, Places, Shown, [Next]_vars, TypeOK', heard' = heard, failed \subseteq failed',
         \A n \in Nodes : inbox'[n] = inbox[n] \/ inbox'[n] = <<>>,
         \A s \in Sockets : \/ frames'[s] = frames[s] \/ frames'[s] = <<>>
                            \/ \E x \in Frames : x[1] # "event" /\ frames'[s] = Append(frames[s], x)
  PROVE  Shown'
<1>1. \A e \in Events : (Published(e) => Published(e)') /\ (FannedOut(e) => FannedOut(e)')
  BY Progress
<1>2. ASSUME NEW n \in Nodes
      PROVE  /\ Range(inbox'[n]) \subseteq Range(inbox[n])
             /\ \A p \in DOMAIN inbox'[n] : p \in DOMAIN inbox[n] /\ inbox'[n][p] = inbox[n][p]
  BY DEF Range
<1>3. ASSUME NEW s \in Sockets, NEW p \in DOMAIN frames'[s], frames'[s][p][1] = "event"
      PROVE  p \in DOMAIN frames[s] /\ frames'[s][p] = frames[s][p]
  <2>1. CASE frames'[s] = frames[s] \/ frames'[s] = <<>>
    BY <1>3, <2>1
  <2>2. CASE \E x \in Frames : x[1] # "event" /\ frames'[s] = Append(frames[s], x)
    <3>1. PICK x \in Frames : x[1] # "event" /\ frames'[s] = Append(frames[s], x)
      BY <2>2
    <3>2. frames[s] \in Seq(Frames)
      BY InTransit
    <3>3. /\ DOMAIN frames[s] = 1..Len(frames[s]) /\ DOMAIN frames'[s] = 1..(Len(frames[s]) + 1) /\ Len(frames[s]) \in Nat
          /\ \A i \in 1..Len(frames[s]) : frames'[s][i] = frames[s][i]
          /\ frames'[s][Len(frames[s]) + 1] = x
      BY <3>1, <3>2, AppendRange
    <3>4. p = Len(frames[s]) + 1 \/ p \in 1..Len(frames[s])
      BY <3>3
    <3> QED BY <1>3, <3>1, <3>3, <3>4
  <2> QED BY <2>1, <2>2
<1>4. ASSUME NEW s \in Sockets, NEW e \in Events, ShownTo(s, e)' PROVE ShownTo(s, e)
  <2>1. PICK p \in DOMAIN frames'[s] : frames'[s][p] = Live(e)
    BY <1>4 DEF ShownTo, Range
  <2>2. p \in DOMAIN frames[s] /\ frames[s][p] = Live(e)
    BY <1>3, <2>1, Kinds
  <2> QED BY <2>2 DEF ShownTo, Range
<1>5. Flow'
  <2>1. ASSUME NEW n \in Nodes, NEW e \in Range(inbox'[n]) PROVE Published(e)' /\ HomeOf(e) # n
    <3>1. e \in Range(inbox[n]) /\ e \in Events
      BY <1>2, InTransit
    <3> QED BY <1>1, <3>1 DEF Shown, Flow
  <2>2. ASSUME NEW n \in Nodes, NEW e \in heard'[n] PROVE Published(e)'
    <3>1. e \in heard[n] /\ e \in Events
      BY InTransit
    <3> QED BY <1>1, <3>1 DEF Shown, Flow
  <2>3. ASSUME NEW s \in Sockets, NEW e \in Events, ShownTo(s, e)'
        PROVE  Published(e)' /\ (HomeOf(e) = NodeOf[s] => FannedOut(e)')
    BY <1>1, <1>4, <2>3 DEF Shown, Flow
  <2> QED BY <2>1, <2>2, <2>3 DEF Flow, HomeOf
<1>6. Queued'
  BY <1>2, <1>4, NodeAssumption DEF Shown, Queued, InOrder, Tasks
<1>7. Single'
  <2>1. ASSUME NEW s \in Sockets, NEW e \in Range(inbox'[NodeOf[s]]), ShownTo(s, e)' PROVE e \in failed'
    <3>1. e \in Range(inbox[NodeOf[s]]) /\ e \in Events
      BY <1>2, InTransit, NodeAssumption DEF Tasks
    <3> QED BY <1>4, <2>1, <3>1 DEF Shown, Single, Once
  <2> QED BY <1>2, <2>1 DEF Shown, Single, Once
<1>8. SenderOrder'
  BY <1>3 DEF Shown, SenderOrder
<1>9. TwiceOnlyAfterError'
  <2>1. ASSUME NEW s \in Sockets, NEW p \in DOMAIN frames'[s], NEW q \in DOMAIN frames'[s],
               p # q, frames'[s][p] = frames'[s][q], frames'[s][p][1] = "event"
        PROVE  frames'[s][p][2] \in failed'
    BY <1>3, <2>1 DEF Shown, TwiceOnlyAfterError
  <2> QED BY <2>1 DEF TwiceOnlyAfterError
<1> QED BY <1>5, <1>6, <1>7, <1>8, <1>9 DEF Shown

\* A publish that reaches Redis: its event is the newest of its task, and was
\* not on its way before unless its first attempt failed.
LEMMA BroadcastStep ==
  ASSUME TypeOK, Places, Shown, [Next]_vars, TypeOK', NEW t \in Tasks, pc[t] \in SendPcs,
         NEW e \in Events, e = Event(t), Broadcast(NodeOf[t], e), frames' = frames, heard' = heard,
         failed \subseteq failed', Published(e)', Published(e) => e \in failed'
  PROVE  Shown'
<1>0. e \in Events /\ e[1] = t /\ e[2] = index[t] /\ index[t] \in Nat /\ NodeOf[t] \in Nodes /\ HomeOf(e) = NodeOf[t]
  BY SentIsEvent, NodeAssumption DEF TypeOK, HomeOf
<1>1. \A d \in Events : (Published(d) => Published(d)') /\ (FannedOut(d) => FannedOut(d)')
  BY Progress
<1>2. \A d \in Events : d[1] = t /\ Published(d) => d[2] <= index[t]
  BY <1>0, EventType DEF Published
<1>3. Published(e)' /\ (Published(e) => e \in failed')
  OBVIOUS
<1>4. ASSUME NEW n \in Nodes
      PROVE  \/ inbox'[n] = inbox[n]
             \/ /\ n # NodeOf[t]
                /\ Range(inbox'[n]) = Range(inbox[n]) \cup {e}
                /\ DOMAIN inbox'[n] = 1..(Len(inbox[n]) + 1)
                /\ \A i \in DOMAIN inbox[n] : inbox'[n][i] = inbox[n][i]
                /\ inbox'[n][Len(inbox[n]) + 1] = e
  <2>1. inbox'[n] = IF n \in linked \ {NodeOf[t]} THEN Append(inbox[n], e) ELSE inbox[n]
    BY DEF Broadcast
  <2>2. inbox[n] \in Seq(Events)
    BY InTransit
  <2> QED BY <1>0, <2>1, <2>2, AppendRange
<1>5. \A s \in Sockets, d \in Events : ShownTo(s, d)' <=> ShownTo(s, d)
  BY DEF ShownTo
<1>6. Flow'
  <2>1. ASSUME NEW n \in Nodes, NEW d \in Range(inbox'[n]) PROVE Published(d)' /\ HomeOf(d) # n
    <3>1. d \in Range(inbox[n]) \/ (d = e /\ n # NodeOf[t])
      <4>1. CASE inbox'[n] = inbox[n]
        BY <2>1, <4>1
      <4>2. CASE n # NodeOf[t] /\ Range(inbox'[n]) = Range(inbox[n]) \cup {e}
        BY <2>1, <4>2
      <4> QED BY <1>4, <4>1, <4>2
    <3>2. d \in Range(inbox[n]) => d \in Events
      BY InTransit
    <3> QED BY <1>0, <1>1, <1>3, <3>1, <3>2 DEF Shown, Flow
  <2>2. ASSUME NEW n \in Nodes, NEW d \in heard'[n] PROVE Published(d)'
    <3>1. d \in heard[n] /\ d \in Events
      BY InTransit
    <3> QED BY <1>1, <3>1 DEF Shown, Flow
  <2>3. ASSUME NEW s \in Sockets, NEW d \in Events, ShownTo(s, d)'
        PROVE  Published(d)' /\ (HomeOf(d) = NodeOf[s] => FannedOut(d)')
    BY <1>1, <1>5, <2>3 DEF Shown, Flow
  <2> QED BY <2>1, <2>2, <2>3 DEF Flow, HomeOf
\* What was there before the new event.
<1>7. ASSUME NEW n \in Nodes, NEW q \in DOMAIN inbox'[n]
      PROVE  \/ q \in DOMAIN inbox[n] /\ inbox'[n][q] = inbox[n][q]
             \/ /\ inbox'[n][q] = e
                /\ \A p \in DOMAIN inbox'[n] : p = q \/ (p < q /\ p \in DOMAIN inbox[n] /\ inbox'[n][p] = inbox[n][p])
  <2>1. DOMAIN inbox[n] = 1..Len(inbox[n]) /\ Len(inbox[n]) \in Nat
    BY InTransit
  <2>2. CASE inbox'[n] = inbox[n]
    BY <2>2
  <2>3. CASE /\ DOMAIN inbox'[n] = 1..(Len(inbox[n]) + 1)
             /\ \A i \in DOMAIN inbox[n] : inbox'[n][i] = inbox[n][i]
             /\ inbox'[n][Len(inbox[n]) + 1] = e
    BY <2>1, <2>3
  <2> QED BY <1>4, <2>2, <2>3
<1>8. ASSUME NEW n \in Nodes, NEW p \in DOMAIN inbox[n]
      PROVE  inbox[n][p] \in Events /\ Published(inbox[n][p])
  BY InTransit DEF Shown, Flow
<1>9. Queued'
  <2>1. ASSUME NEW n \in Nodes, NEW p \in DOMAIN inbox'[n], NEW q \in DOMAIN inbox'[n],
               p < q, inbox'[n][p][1] = inbox'[n][q][1]
        PROVE  inbox'[n][p][2] <= inbox'[n][q][2]
    <3>1. p \in 1..(Len(inbox[n]) + 1) /\ q \in 1..(Len(inbox[n]) + 1) /\ Len(inbox[n]) \in Nat
      BY <1>4, InTransit
    <3>2. p \in DOMAIN inbox[n] /\ inbox'[n][p] = inbox[n][p]
      BY <1>7, <2>1, <3>1
    <3>3. CASE q \in DOMAIN inbox[n] /\ inbox'[n][q] = inbox[n][q]
      BY <2>1, <3>2, <3>3 DEF Shown, Queued, InOrder
    <3>4. CASE inbox'[n][q] = e
      BY <1>0, <1>2, <1>8, <2>1, <3>2, <3>4
    <3> QED BY <1>7, <3>3, <3>4
  <2>2. ASSUME NEW s \in Sockets, NEW d \in Events, NEW x \in Range(inbox'[NodeOf[s]]), ShownTo(s, d)', d[1] = x[1]
        PROVE  d[2] <= x[2]
    <3>1. NodeOf[s] \in Nodes
      BY NodeAssumption DEF Tasks
    <3>2. x \in Range(inbox[NodeOf[s]]) \/ x = e
      BY <1>4, <3>1
    <3>3. ShownTo(s, d) /\ Published(d)
      BY <1>5, <2>2 DEF Shown, Flow
    <3> QED BY <1>0, <1>2, <2>2, <3>2, <3>3 DEF Shown, Queued, InOrder
  <2> QED BY <2>1, <2>2 DEF Queued, InOrder
<1>10. Single'
  <2>1. ASSUME NEW n \in Nodes, NEW p \in DOMAIN inbox'[n], NEW q \in DOMAIN inbox'[n],
               inbox'[n][p] = inbox'[n][q], p # q
        PROVE  inbox'[n][p] \in failed'
    <3>1. CASE p \in DOMAIN inbox[n] /\ q \in DOMAIN inbox[n] /\ inbox'[n][p] = inbox[n][p] /\ inbox'[n][q] = inbox[n][q]
      BY <2>1, <3>1 DEF Shown, Single, Once
    <3>2. CASE inbox'[n][p] = e /\ Published(e)
      BY <1>3, <3>2
    <3> QED BY <1>7, <1>8, <2>1, <3>1, <3>2
  <2>2. ASSUME NEW s \in Sockets, NEW x \in Range(inbox'[NodeOf[s]]), ShownTo(s, x)' PROVE x \in failed'
    <3>1. NodeOf[s] \in Nodes
      BY NodeAssumption DEF Tasks
    <3>2. x \in Range(inbox[NodeOf[s]]) \/ x = e
      BY <1>4, <3>1
    <3>3. x \in Events
      BY <1>0, <3>1, <3>2, InTransit
    <3>4. ShownTo(s, x) /\ Published(x)
      BY <1>5, <2>2, <3>3 DEF Shown, Flow
    <3> QED BY <1>3, <3>2, <3>4 DEF Shown, Single, Once
  <2> QED BY <2>1, <2>2 DEF Single, Once
<1>11. SenderOrder'
  BY DEF Shown, SenderOrder
<1>12. TwiceOnlyAfterError'
  BY DEF Shown, TwiceOnlyAfterError
<1> QED BY <1>6, <1>9, <1>10, <1>11, <1>12 DEF Shown

\* An event that a node fans out: the newest of its task the node's sockets
\* see, and one they have not seen yet unless its first publish failed.
LEMMA ShowStep ==
  ASSUME TypeOK, Places, Lists, Shown, [Next]_vars, TypeOK', NEW n \in Nodes, NEW e \in Events,
         SendLocally(n, e), failed' = failed,
         Published(e)', HomeOf(e) = n => FannedOut(e)',
         \A m \in Nodes : Range(inbox'[m]) \subseteq Range(inbox[m]),
         InOrder', Once',
         \A x \in Range(inbox'[n]) : (x[1] = e[1] => e[2] <= x[2]) /\ (x = e => e \in failed),
         \A s \in Sockets : NodeOf[s] = n =>
           /\ \A d \in Events : ShownTo(s, d) /\ d[1] = e[1] => d[2] <= e[2]
           /\ ShownTo(s, e) => e \in failed
  PROVE  Shown'
<1>1. \A d \in Events : (Published(d) => Published(d)') /\ (FannedOut(d) => FannedOut(d)')
  BY Progress
<1>2. ASSUME NEW s \in Sockets
      PROVE  \/ frames'[s] = frames[s]
             \/ /\ NodeOf[s] = n
                /\ Range(frames'[s]) = Range(frames[s]) \cup {Live(e)}
                /\ DOMAIN frames'[s] = 1..(Len(frames[s]) + 1)
                /\ \A i \in DOMAIN frames[s] : frames'[s][i] = frames[s][i]
                /\ frames'[s][Len(frames[s]) + 1] = Live(e)
  <2>1. frames'[s] = IF entry[n] # Absent /\ s \in entry[n] \ {Excepting(e)} THEN Append(frames[s], Live(e)) ELSE frames[s]
    BY DEF SendLocally
  <2>2. frames[s] \in Seq(Frames) /\ Live(e) \in Frames
    BY InTransit, Kinds
  <2>3. entry[n] # Absent /\ s \in entry[n] => NodeOf[s] = n
    BY DEF Lists
  <2> QED BY <2>1, <2>2, <2>3, AppendRange
<1>3. ASSUME NEW s \in Sockets, NEW d \in Events, ShownTo(s, d)' PROVE ShownTo(s, d) \/ (d = e /\ NodeOf[s] = n)
  <2>1. CASE frames'[s] = frames[s]
    BY <1>3, <2>1 DEF ShownTo
  <2>2. CASE NodeOf[s] = n /\ Range(frames'[s]) = Range(frames[s]) \cup {Live(e)}
    <3>1. Live(d) = Live(e) => d = e
      BY Kinds
    <3> QED BY <1>3, <2>2, <3>1 DEF ShownTo
  <2> QED BY <1>2, <2>1, <2>2
<1>4. Flow'
  <2>1. ASSUME NEW m \in Nodes, NEW d \in Range(inbox'[m]) PROVE Published(d)' /\ HomeOf(d) # m
    <3>1. d \in Range(inbox[m]) /\ d \in Events
      BY InTransit
    <3> QED BY <1>1, <3>1 DEF Shown, Flow
  <2>2. ASSUME NEW m \in Nodes, NEW d \in heard'[m] PROVE Published(d)'
    <3>1. heard \in [Nodes -> SUBSET Events]
      BY DEF TypeOK
    <3>2. d \in heard[m] \/ d = e
      BY <3>1 DEF SendLocally
    <3> QED BY <1>1, <3>1, <3>2 DEF Shown, Flow
  <2>3. ASSUME NEW s \in Sockets, NEW d \in Events, ShownTo(s, d)'
        PROVE  Published(d)' /\ (HomeOf(d) = NodeOf[s] => FannedOut(d)')
    <3>1. CASE ShownTo(s, d)
      BY <1>1, <3>1 DEF Shown, Flow
    <3>2. CASE d = e /\ NodeOf[s] = n
      BY <3>2
    <3> QED BY <1>3, <2>3, <3>1, <3>2
  <2> QED BY <2>1, <2>2, <2>3 DEF Flow, HomeOf
<1>5. ASSUME NEW s \in Sockets, NEW x \in Range(inbox'[NodeOf[s]])
      PROVE  /\ \A d \in Events : ShownTo(s, d)' /\ d[1] = x[1] => d[2] <= x[2]
             /\ ShownTo(s, x)' => x \in failed'
  <2>1. NodeOf[s] \in Nodes
    BY NodeAssumption DEF Tasks
  <2>2. x \in Range(inbox[NodeOf[s]]) /\ x \in Events
    BY <2>1, InTransit
  <2>3. ASSUME NEW d \in Events, ShownTo(s, d)', d[1] = x[1] PROVE d[2] <= x[2]
    BY <1>3, <2>2, <2>3 DEF Shown, Queued
  <2>4. ASSUME ShownTo(s, x)' PROVE x \in failed'
    BY <1>3, <2>2, <2>4 DEF Shown, Single
  <2> QED BY <2>3, <2>4
<1>6. Queued'
  BY <1>5 DEF Queued
<1>7. Single'
  BY <1>5 DEF Single
\* Two events among the frames: both were there, or the later one is e.
<1>8. ASSUME NEW s \in Sockets, NEW p \in DOMAIN frames'[s], NEW q \in DOMAIN frames'[s], p < q,
             frames'[s][p][1] = "event"
      PROVE  \/ /\ p \in DOMAIN frames[s] /\ frames'[s][p] = frames[s][p]
                /\ q \in DOMAIN frames[s] /\ frames'[s][q] = frames[s][q]
             \/ /\ frames'[s][q] = Live(e) /\ NodeOf[s] = n
                /\ frames'[s][p] \in Frames /\ ShownTo(s, frames'[s][p][2])
  <2>1. CASE frames'[s] = frames[s]
    BY <2>1
  <2>2. CASE /\ NodeOf[s] = n
             /\ DOMAIN frames'[s] = 1..(Len(frames[s]) + 1)
             /\ \A i \in DOMAIN frames[s] : frames'[s][i] = frames[s][i]
             /\ frames'[s][Len(frames[s]) + 1] = Live(e)
    <3>1. DOMAIN frames[s] = 1..Len(frames[s]) /\ Len(frames[s]) \in Nat
      BY InTransit
    <3>2. p \in DOMAIN frames[s] /\ frames'[s][p] = frames[s][p]
      BY <1>8, <2>2, <3>1
    <3>3. q \in DOMAIN frames[s] \/ q = Len(frames[s]) + 1
      BY <2>2, <3>1
    <3>4. frames'[s][p] \in Frames /\ ShownTo(s, frames'[s][p][2])
      BY <1>8, <3>2, InTransit
    <3> QED BY <2>2, <3>2, <3>3, <3>4
  <2> QED BY <1>2, <2>1, <2>2
<1>9. SenderOrder'
  <2>1. ASSUME NEW s \in Sockets, NEW p \in DOMAIN frames'[s], NEW q \in DOMAIN frames'[s], p < q,
               frames'[s][p][1] = "event", frames'[s][q][1] = "event", frames'[s][p][2][1] = frames'[s][q][2][1]
        PROVE  frames'[s][p][2][2] <= frames'[s][q][2][2]
    <3>1. CASE /\ p \in DOMAIN frames[s] /\ frames'[s][p] = frames[s][p]
               /\ q \in DOMAIN frames[s] /\ frames'[s][q] = frames[s][q]
      BY <2>1, <3>1 DEF Shown, SenderOrder
    <3>2. CASE /\ frames'[s][q] = Live(e) /\ NodeOf[s] = n
               /\ frames'[s][p] \in Frames /\ ShownTo(s, frames'[s][p][2])
      <4>1. frames'[s][q][2] = e /\ frames'[s][p][2] \in Events
        BY <2>1, <3>2, Kinds
      <4> QED BY <2>1, <3>2, <4>1
    <3> QED BY <1>8, <2>1, <3>1, <3>2
  <2> QED BY <2>1 DEF SenderOrder
<1>10. TwiceOnlyAfterError'
  <2>1. ASSUME NEW s \in Sockets, NEW p \in DOMAIN frames'[s], NEW q \in DOMAIN frames'[s], p < q,
               frames'[s][p] = frames'[s][q], frames'[s][p][1] = "event"
        PROVE  frames'[s][p][2] \in failed'
    <3>1. CASE /\ p \in DOMAIN frames[s] /\ frames'[s][p] = frames[s][p]
               /\ q \in DOMAIN frames[s] /\ frames'[s][q] = frames[s][q]
      <4>1. p # q
        BY <2>1, <3>1, InTransit
      <4> QED BY <2>1, <3>1, <4>1 DEF Shown, TwiceOnlyAfterError
    <3>2. CASE /\ frames'[s][q] = Live(e) /\ NodeOf[s] = n
               /\ frames'[s][p] \in Frames /\ ShownTo(s, frames'[s][p][2])
      <4>1. frames'[s][p][2] = e
        BY <2>1, <3>2, Kinds
      <4> QED BY <2>1, <3>2, <4>1
    <3> QED BY <1>8, <2>1, <3>1, <3>2
  <2>2. ASSUME NEW s \in Sockets, NEW p \in DOMAIN frames'[s], NEW q \in DOMAIN frames'[s], p # q,
               frames'[s][p] = frames'[s][q], frames'[s][p][1] = "event"
        PROVE  frames'[s][p][2] \in failed'
    <3>1. DOMAIN frames'[s] \subseteq Nat
      <4>1. frames'[s] \in Seq(Frames)
        BY DEF TypeOK
      <4> QED BY <4>1, LenProperties
    <3>2. p < q \/ q < p
      BY <2>2, <3>1
    <3> QED BY <2>1, <2>2, <3>2
  <2> QED BY <2>2 DEF TwiceOnlyAfterError
<1> QED BY <1>4, <1>6, <1>7, <1>9, <1>10 DEF Shown

\* Every step keeps the invariant: it sends nothing, publishes or fans out.
LEMMA ShownPreserved ==
  ASSUME TypeOK, Places, Lists, Shown, [Next]_vars PROVE Shown'
<1>0. TypeOK'
  BY TypesPreserved
<1>a. /\ pc \in [Tasks -> SocketPcs \cup RequestPcs \cup SendPcs] /\ index \in [Tasks -> Nat]
      /\ Requests \subseteq Tasks /\ Sockets \subseteq Tasks
  BY DEF TypeOK, Tasks
<1>1. ASSUME NEW t \in Tasks, Publish(t) \/ Retry(t) PROVE Shown'
  <2> DEFINE e == Event(t)
  <2>1. /\ pc[t] \in {"publish", "retry"} /\ e \in Events /\ e[1] = t /\ e[2] = index[t] /\ index[t] \in Nat
    <3>1. pc[t] \in {"publish", "retry"}
      BY <1>1 DEF Publish, Retry, Goto
    <3> QED BY <1>a, <3>1, SentIsEvent DEF SendPcs
  <2>2. /\ frames' = frames /\ heard' = heard /\ failed \subseteq failed' /\ index' = index
        /\ pc'[t] \in {"retry", "fanOut"}
        /\ inbox' = inbox \/ Broadcast(NodeOf[t], e)
    BY <1>a, <1>1 DEF Publish, Retry, Goto, fanOutVars
  <2>3. pc[t] = "retry" => e \in failed
    BY DEF Lists
  <2>4. CASE inbox' = inbox
    BY <1>0, <2>2, <2>4, QuietStep
  <2>5. CASE Broadcast(NodeOf[t], e)
    <3>1. PICK d \in Events : d = e
      BY <2>1
    <3>2. Published(d)'
      BY <2>1, <2>2, <3>1 DEF Published
    <3>3. Published(d) => d \in failed'
      BY <2>1, <2>2, <2>3, <3>1 DEF Published
    <3> QED BY <1>0, <2>1, <2>2, <2>5, <3>1, <3>2, <3>3, BroadcastStep DEF SendPcs
  <2> QED BY <2>2, <2>4, <2>5
<1>2. ASSUME NEW t \in Tasks, FanOut(t) PROVE Shown'
  <2>1. /\ pc[t] = "fanOut" /\ Event(t) \in Events /\ Event(t)[1] = t /\ Event(t)[2] = index[t] /\ index[t] \in Nat
        /\ NodeOf[t] \in Nodes
    <3>1. pc[t] = "fanOut"
      BY <1>2 DEF FanOut, Goto
    <3> QED BY <1>a, <3>1, SentIsEvent, NodeAssumption DEF SendPcs
  <2>2. PICK e \in Events : e = Event(t)
    BY <2>1
  <2>3. SendLocally(NodeOf[t], e) /\ inbox' = inbox /\ failed' = failed
    BY <1>2, <2>2 DEF FanOut, wireVars
  <2>4. FannedOut(e)' /\ Published(e)'
    <3>1. CASE t \in Requests /\ index[t] < Len(Batch[t])
      <4>1. index'[t] = index[t] + 1
        BY <1>a, <1>2, <3>1 DEF FanOut
      <4> QED BY <2>1, <2>2, <4>1 DEF FannedOut, Published
    <3>2. CASE ~(t \in Requests /\ index[t] < Len(Batch[t]))
      <4>1. index'[t] = index[t] /\ pc'[t] \in {"done", "idle"}
        BY <1>a, <1>2, <3>2 DEF FanOut, Goto
      <4> QED BY <2>1, <2>2, <4>1 DEF FannedOut, Published, SendPcs
    <3> QED BY <3>1, <3>2
  \* Its own node gets no message of it, and its sockets have not seen it.
  <2>5. ASSUME NEW x \in Range(inbox'[NodeOf[t]]) PROVE x[1] # e[1]
    BY <2>1, <2>2, <2>3 DEF Shown, Flow, HomeOf
  <2>6. ASSUME NEW s \in Sockets, NodeOf[s] = NodeOf[t], NEW d \in Events, ShownTo(s, d), d[1] = e[1]
        PROVE  d[2] <= e[2] /\ d # e
    <3>1. HomeOf(d) = NodeOf[s] /\ FannedOut(d)
      BY <2>1, <2>2, <2>6 DEF Shown, Flow, HomeOf
    <3> QED BY <2>1, <2>2, <2>6, <3>1, EventType DEF FannedOut, SendPcs
  <2>7. InOrder' /\ Once'
    BY <2>3 DEF Shown, Queued, Single, InOrder, Once
  <2>8. /\ \A x \in Range(inbox'[NodeOf[t]]) : (x[1] = e[1] => e[2] <= x[2]) /\ (x = e => e \in failed)
        /\ \A s \in Sockets : NodeOf[s] = NodeOf[t] =>
             /\ \A d \in Events : ShownTo(s, d) /\ d[1] = e[1] => d[2] <= e[2]
             /\ ShownTo(s, e) => e \in failed
    BY <2>5, <2>6
  <2>9. \A m \in Nodes : Range(inbox'[m]) \subseteq Range(inbox[m])
    BY <2>3
  <2> QED BY <1>0, <2>1, <2>3, <2>4, <2>7, <2>8, <2>9, ShowStep
<1>3. ASSUME NEW n \in Nodes, Receive(n) PROVE Shown'
  <2>1. /\ inbox[n] # <<>> /\ inbox[n] \in Seq(Events) /\ inbox \in [Nodes -> Seq(Events)]
        /\ SendLocally(n, Head(inbox[n])) /\ inbox'[n] = Tail(inbox[n]) /\ \A m \in Nodes \ {n} : inbox'[m] = inbox[m]
        /\ failed' = failed
    <3>1. inbox \in [Nodes -> Seq(Events)]
      BY DEF TypeOK
    <3> QED BY <1>3, <3>1 DEF Receive
  <2>2. /\ Head(inbox[n]) \in Events /\ Head(inbox[n]) = inbox[n][1] /\ 1 \in DOMAIN inbox[n]
        /\ Len(inbox[n]) \in Nat \ {0} /\ DOMAIN inbox[n] = 1..Len(inbox[n])
        /\ DOMAIN inbox'[n] = 1..(Len(inbox[n]) - 1)
        /\ \A i \in 1..(Len(inbox[n]) - 1) : inbox'[n][i] = inbox[n][i + 1] /\ i + 1 \in DOMAIN inbox[n]
        /\ Range(inbox'[n]) \subseteq Range(inbox[n]) /\ Head(inbox[n]) \in Range(inbox[n])
    BY <2>1, TailRange
  <2>3. PICK e \in Events : e = Head(inbox[n])
    BY <2>2
  <2>4. SendLocally(n, e) /\ e \in Range(inbox[n]) /\ e = inbox[n][1]
    BY <2>1, <2>2, <2>3
  <2>5. Published(e)' /\ HomeOf(e) # n
    BY <2>4, Progress DEF Shown, Flow
  <2>6. \A m \in Nodes : Range(inbox'[m]) \subseteq Range(inbox[m])
    BY <2>1, <2>2
  <2>7. ASSUME NEW m \in Nodes, NEW p \in DOMAIN inbox'[m], NEW q \in DOMAIN inbox'[m]
        PROVE  /\ p < q /\ inbox'[m][p][1] = inbox'[m][q][1] => inbox'[m][p][2] <= inbox'[m][q][2]
               /\ inbox'[m][p] = inbox'[m][q] /\ p # q => inbox'[m][p] \in failed'
    <3>1. CASE m # n
      BY <2>1, <3>1 DEF Shown, Queued, Single, InOrder, Once
    <3>2. CASE m = n
      <4>1. /\ inbox'[n][p] = inbox[n][p + 1] /\ p + 1 \in DOMAIN inbox[n]
            /\ inbox'[n][q] = inbox[n][q + 1] /\ q + 1 \in DOMAIN inbox[n]
            /\ p < q <=> p + 1 < q + 1
            /\ p # q <=> p + 1 # q + 1
        BY <2>2, <3>2
      <4> QED BY <2>1, <3>2, <4>1 DEF Shown, Queued, Single, InOrder, Once
    <3> QED BY <3>1, <3>2
  <2>8. ASSUME NEW x \in Range(inbox'[n])
        PROVE  (x[1] = e[1] => e[2] <= x[2]) /\ (x = e => e \in failed)
    <3>1. PICK i \in DOMAIN inbox'[n] : x = inbox'[n][i]
      BY DEF Range
    <3>2. x = inbox[n][i + 1] /\ i + 1 \in DOMAIN inbox[n] /\ 1 < i + 1
      BY <2>2, <3>1
    <3> QED BY <2>2, <2>4, <3>2 DEF Shown, Queued, Single, InOrder, Once
  <2>9. ASSUME NEW s \in Sockets, NodeOf[s] = n
        PROVE  /\ \A d \in Events : ShownTo(s, d) /\ d[1] = e[1] => d[2] <= e[2]
               /\ ShownTo(s, e) => e \in failed
    BY <2>4, <2>9 DEF Shown, Queued, Single, InOrder, Once
  <2>10. InOrder' /\ Once'
    BY <2>7 DEF InOrder, Once
  <2>11. /\ \A x \in Range(inbox'[n]) : (x[1] = e[1] => e[2] <= x[2]) /\ (x = e => e \in failed)
         /\ \A s \in Sockets : NodeOf[s] = n =>
              /\ \A d \in Events : ShownTo(s, d) /\ d[1] = e[1] => d[2] <= e[2]
              /\ ShownTo(s, e) => e \in failed
    BY <2>8, <2>9
  <2>12. failed' = failed
    BY <2>1
  <2> QED BY <1>0, <2>4, <2>5, <2>6, <2>10, <2>11, <2>12, ShowStep
<1>4. ASSUME NEW r \in Requests, Request(r) PROVE Shown'
  <2>1. UNCHANGED <<wireVars, fanOutVars>>
    BY <1>4 DEF Request, Cache
  <2> QED BY <1>0, <2>1, QuietStep DEF wireVars, fanOutVars
<1>5. ASSUME NEW s \in Sockets, Connection(s) PROVE Shown'
  <2>1. heard' = heard /\ failed' = failed /\ inbox' = inbox
    BY <1>5 DEF Connection, Join, ReadCache, ReplayCache, ClientEvent, Unsubscribe, DropEntry, wireVars, fanOutVars
  <2>2. \/ frames' = frames
        \/ frames' = [frames EXCEPT ![s] = <<>>]
        \/ \E x \in Frames : x[1] # "event" /\ frames' = [frames EXCEPT ![s] = Append(frames[s], x)]
    <3>1. CASE ReplayCache(s)
      <4>1. found[s] \in Events \cup {Absent, Failed}
        BY DEF TypeOK
      <4>2. CASE found[s] \in {Absent, Failed}
        BY <3>1, <4>2, Kinds DEF ReplayCache
      <4>3. CASE found[s] \notin {Absent, Failed}
        BY <3>1, <4>1, <4>3, Kinds DEF ReplayCache
      <4> QED BY <4>2, <4>3
    <3>2. CASE ~ReplayCache(s)
      BY <1>5, <3>2 DEF Connection, Join, ReadCache, ClientEvent, Unsubscribe, DropEntry, fanOutVars
    <3> QED BY <3>1, <3>2
  <2>3. frames \in [Sockets -> Seq(Frames)]
    BY DEF TypeOK
  <2>4. \A u \in Sockets : \/ frames'[u] = frames[u] \/ frames'[u] = <<>>
                           \/ \E x \in Frames : x[1] # "event" /\ frames'[u] = Append(frames[u], x)
    BY <2>2, <2>3
  <2> QED BY <1>0, <2>1, <2>4, QuietStep
<1>6. ASSUME (\E n \in Nodes : Disconnect(n) \/ Reconnect(n)) \/ Expire \/ UNCHANGED vars PROVE Shown'
  <2>1. frames' = frames /\ heard' = heard /\ failed' = failed
    BY <1>6 DEF Disconnect, Reconnect, Expire, vars, fanOutVars, wireVars
  <2>2. \A m \in Nodes : inbox'[m] = inbox[m] \/ inbox'[m] = <<>>
    <3>1. inbox \in [Nodes -> Seq(Events)]
      BY DEF TypeOK
    <3> QED BY <1>6, <3>1 DEF Disconnect, Reconnect, Expire, vars, wireVars
  <2> QED BY <1>0, <2>1, <2>2, QuietStep
<1> QED BY <1>1, <1>2, <1>3, <1>4, <1>5, <1>6 DEF Next

\* Nothing has been sent at the start.
LEMMA FlowInit == ASSUME Init PROVE Lists /\ Shown
<1>1. /\ \A s \in Sockets : frames[s] = <<>>
      /\ \A n \in Nodes : inbox[n] = <<>> /\ heard[n] = {} /\ entry[n] = Absent
      /\ \A t \in Tasks : pc[t] \in {"check", "idle"}
  BY DEF Init
<1>2. \A s \in Sockets, e \in Events : ~ShownTo(s, e)
  BY <1>1 DEF ShownTo, Range
<1>3. \A s \in Sockets : NodeOf[s] \in Nodes
  BY NodeAssumption DEF Tasks
<1>4. Lists
  BY <1>1 DEF Lists
<1>5. Flow /\ Queued /\ Single
  BY <1>1, <1>2, <1>3 DEF Flow, Queued, Single, InOrder, Once, Range
<1>6. SenderOrder /\ TwiceOnlyAfterError
  BY <1>1 DEF SenderOrder, TwiceOnlyAfterError
<1> QED BY <1>4, <1>5, <1>6 DEF Shown

\* The invariant holds: what is on its way to a node was published by another
\* one, in the order of its task, and after what the node's sockets have seen.
THEOREM FlowInvariant == Spec => []FlowInv
<1> DEFINE Inv == TypeOK /\ Places /\ Lists /\ Shown
<1>1. Init => Inv
  BY TypesInit, FlowInit
<1>2. Inv /\ [Next]_vars => Inv'
  BY TypesPreserved, ListsPreserved, ShownPreserved
<1>3. Inv => FlowInv
  BY DEF FlowInv
<1> QED BY <1>1, <1>2, <1>3, PTL DEF Spec

\* The events of one task reach every socket in the order it sent them, with
\* retried publishes and lost subscriber connections too (RedisPubSub::publish
\* is awaited with its retry, listen handles one message at a time).
THEOREM InSendersOrder == Spec => []SenderOrder
<1>1. FlowInv => SenderOrder
  BY DEF FlowInv, Shown
<1> QED BY <1>1, FlowInvariant, PTL

\* A socket is sent an event twice only if its publish returned an error: listen
\* skips what its own node published, and the retry is the only second publish.
THEOREM DuplicateMeansError == Spec => []TwiceOnlyAfterError
<1>1. FlowInv => TwiceOnlyAfterError
  BY DEF FlowInv, Shown
<1> QED BY <1>1, FlowInvariant, PTL

\* A listed socket that has read the cache without an error.
Listening(s) == s \in subscribed /\ Listed(s) /\ pc[s] # "listed" /\ found[s] # Failed

\* NoGapAtJoin, from the moment a socket has read the cache.
Followed ==
  \A s \in Sockets : Listening(s) =>
    \A e \in Range(cached) \cap heard[NodeOf[s]] : Excepting(e) # s => ShownTo(s, e) \/ e \in seen[s]

\* If a listening socket was listening before, and was shown what is new in the
\* cache and at its node, then it has followed the step.
LEMMA FollowsOn ==
  ASSUME Followed, NEW s \in Sockets, Listening(s)' => Listening(s), seen'[s] = seen[s],
         Listening(s)' => \A e \in Events : ShownTo(s, e) => ShownTo(s, e)',
         Range(cached') \subseteq Events,
         Listening(s)' => \A e \in Range(cached') \cap heard'[NodeOf[s]] :
           e \in Range(cached) \cap heard[NodeOf[s]] \/ ShownTo(s, e)' \/ Excepting(e) = s
  PROVE  Listening(s)' => \A e \in Range(cached') \cap heard'[NodeOf[s]] :
           Excepting(e) # s => ShownTo(s, e)' \/ e \in seen'[s]
BY DEF Followed

\* Every step keeps the sockets on track: an event is cached before any node fans
\* it out, and a socket is listed before it reads the cache.
LEMMA FollowedPreserved ==
  ASSUME TypeOK, Places, Lists, Flow, Followed, [Next]_vars PROVE Followed'
<1> USE NodeAssumption, TaskAssumption
<1>0. /\ pc \in [Tasks -> SocketPcs \cup RequestPcs \cup SendPcs] /\ index \in [Tasks -> Nat]
      /\ entry \in [Nodes -> (SUBSET Sockets) \cup {Absent}] /\ Sockets \subseteq Tasks /\ Requests \subseteq Tasks
      /\ found \in [Sockets -> Events \cup {Absent, Failed}] /\ seen \in [Sockets -> SUBSET Events]
      /\ frames \in [Sockets -> Seq(Frames)] /\ heard \in [Nodes -> SUBSET Events]
      /\ cached \in Seq(Events) /\ Range(cached) \subseteq Events
      /\ \A s \in Sockets : NodeOf[s] \in Nodes
  <2>1. cached \in Seq(Events)
    BY DEF TypeOK
  <2>2. Range(cached) \subseteq Events
    BY <2>1, LenProperties, ElementOfSeq DEF Range
  <2> QED BY <2>1, <2>2 DEF TypeOK, Tasks
<1>c. Range(cached') \subseteq Events
  <2>1. TypeOK'
    BY TypesPreserved
  <2>2. cached' \in Seq(Events)
    BY <2>1 DEF TypeOK
  <2> QED BY <2>2, LenProperties, ElementOfSeq DEF Range
\* It is enough to look at the listening sockets one by one.
<1> DEFINE Follows(s) == Listening(s)' => \A e \in Range(cached') \cap heard'[NodeOf[s]] :
                           Excepting(e) # s => ShownTo(s, e)' \/ e \in seen'[s]
<1>a. (\A s \in Sockets : Follows(s)) => Followed'
  BY DEF Followed, Excepting
\* Steps of one task that keep the lists of sockets, the cache and what is shown.
<1>b. ASSUME NEW s \in Sockets, UNCHANGED <<entry, subscribed, found>>, pc[s] # "listed" \/ pc'[s] = "listed"
      PROVE  Listening(s)' => Listening(s)
  BY <1>b DEF Listening, Listed
<1> HIDE DEF Follows
\* What a node fans out, its listening sockets are shown.
<1>d. ASSUME NEW n \in Nodes, NEW e \in Events, SendLocally(n, e), NEW s \in Sockets, Listening(s)' => Listening(s),
             UNCHANGED <<cached, seen>>
      PROVE  Follows(s)
  <2>1. frames'[s] = IF entry[n] # Absent /\ s \in entry[n] \ {Excepting(e)} THEN Append(frames[s], Live(e)) ELSE frames[s]
    BY <1>d DEF SendLocally
  <2>2. frames[s] \in Seq(Frames) /\ Live(e) \in Frames
    BY <1>0, Kinds
  <2>3. Range(frames'[s]) = IF entry[n] # Absent /\ s \in entry[n] \ {Excepting(e)} THEN Range(frames[s]) \cup {Live(e)} ELSE Range(frames[s])
    <3>1. Range(Append(frames[s], Live(e))) = Range(frames[s]) \cup {Live(e)}
      BY <2>2, AppendRange
    <3> QED BY <2>1, <3>1
  <2>4. \A d \in Events : ShownTo(s, d) => ShownTo(s, d)'
    BY <2>3 DEF ShownTo
  <2>5. ASSUME Listening(s)', NEW d \in Range(cached') \cap heard'[NodeOf[s]]
        PROVE  d \in Range(cached) \cap heard[NodeOf[s]] \/ ShownTo(s, d)' \/ Excepting(d) = s
    <3>1. heard'[NodeOf[s]] = IF NodeOf[s] = n THEN heard[n] \cup {e} ELSE heard[NodeOf[s]]
      BY <1>0, <1>d DEF SendLocally
    <3>2. cached' = cached
      BY <1>d
    <3>3. CASE d \in heard[NodeOf[s]]
      BY <2>5, <3>2, <3>3
    <3>4. CASE d = e /\ NodeOf[s] = n
      BY <1>d, <2>3, <2>5, <3>4 DEF Listening, Listed, ShownTo
    <3> QED BY <2>5, <3>1, <3>3, <3>4
  <2>6. seen'[s] = seen[s]
    BY <1>d
  <2> QED BY <1>c, <1>d, <2>4, <2>5, <2>6, FollowsOn DEF Follows
\* Steps that neither cache nor fan out anything.
<1>e. ASSUME NEW s \in Sockets, Listening(s)' => Listening(s), heard' = heard, seen'[s] = seen[s],
             Range(cached') \subseteq Range(cached),
             Listening(s)' => \A e \in Events : ShownTo(s, e) => ShownTo(s, e)'
      PROVE  Follows(s)
  BY <1>c, <1>e, FollowsOn DEF Follows
<1>f. ASSUME NEW s \in Sockets, UNCHANGED <<cached, fanOutVars, seen>>, Listening(s)' => Listening(s) PROVE Follows(s)
  BY <1>e, <1>f DEF fanOutVars, ShownTo
<1>1. ASSUME NEW t \in Tasks, Publish(t) \/ Retry(t) PROVE Followed'
  <2>1. UNCHANGED <<cached, fanOutVars, seen, entry, subscribed, found>>
    BY <1>1 DEF Publish, Retry, channelVars, cacheVars
  <2>2. \A s \in Sockets : pc[s] # "listed" \/ pc'[s] = "listed"
    BY <1>0, <1>1 DEF Publish, Retry, Goto
  <2> QED BY <1>a, <1>b, <1>f, <2>1, <2>2
<1>2. ASSUME NEW t \in Tasks, FanOut(t) PROVE Followed'
  <2>1. pc[t] = "fanOut" /\ Event(t) \in Events
    <3>1. pc[t] = "fanOut"
      BY <1>2 DEF FanOut, Goto
    <3> QED BY <3>1, SentIsEvent DEF SendPcs
  <2>2. SendLocally(NodeOf[t], Event(t)) /\ UNCHANGED <<cached, seen, entry, subscribed, found>>
    BY <1>2 DEF FanOut, channelVars, cacheVars
  <2>3. PICK e \in Events : e = Event(t) /\ SendLocally(NodeOf[t], e)
    BY <2>1, <2>2
  <2>4. \A s \in Sockets : pc[s] # "listed" \/ pc'[s] = "listed"
    BY <1>0, <1>2, <2>1 DEF FanOut, Goto
  <2>5. NodeOf[t] \in Nodes
    OBVIOUS
  <2> QED BY <1>a, <1>b, <1>d, <2>2, <2>3, <2>4, <2>5
<1>3. ASSUME NEW n \in Nodes, Receive(n) PROVE Followed'
  <2>1. Head(inbox[n]) \in Events
    BY <1>3, TailRange DEF Receive, TypeOK
  <2>2. PICK e \in Events : e = Head(inbox[n]) /\ SendLocally(n, e)
    BY <1>3, <2>1 DEF Receive
  <2>3. UNCHANGED <<cached, seen, entry, subscribed, found, pc>>
    BY <1>3 DEF Receive, channelVars, cacheVars, taskVars
  <2> QED BY <1>a, <1>b, <1>d, <2>2, <2>3
\* What a request caches no node has fanned out.
<1>4. ASSUME NEW r \in Requests, Cache(r) PROVE Followed'
  <2>1. /\ pc[r] = "cache" /\ UNCHANGED <<fanOutVars, entry, subscribed, found, seen, index>>
        /\ cached' = cached \/ cached' = Append(cached, Event(r))
        /\ \A s \in Sockets : pc[s] # "listed" \/ pc'[s] = "listed"
    BY <1>0, <1>4 DEF Cache, Goto, channelVars
  <2>2. Event(r) \in Events /\ Event(r)[1] = r /\ Event(r)[2] = index[r] /\ index[r] \in Nat
    BY <1>0, <2>1, SentIsEvent
  <2>3. ~Published(Event(r))
    BY <2>1, <2>2 DEF Published
  <2>4. Range(cached') \subseteq Range(cached) \cup {Event(r)}
    <3>1. Range(Append(cached, Event(r))) = Range(cached) \cup {Event(r)}
      BY <1>0, <2>2, AppendRange
    <3> QED BY <2>1, <3>1
  <2>5. \A n \in Nodes : Event(r) \notin heard[n]
    BY <2>3 DEF Flow
  <2>6. ASSUME NEW s \in Sockets PROVE Follows(s)
    <3>1. Listening(s)' => Listening(s)
      BY <1>b, <2>1
    <3>2. \A e \in Events : ShownTo(s, e) => ShownTo(s, e)'
      BY <2>1 DEF ShownTo, fanOutVars
    <3>3. \A e \in Range(cached') \cap heard'[NodeOf[s]] : e \in Range(cached) \cap heard[NodeOf[s]]
      BY <1>0, <2>1, <2>4, <2>5 DEF fanOutVars
    <3>4. seen'[s] = seen[s]
      BY <2>1
    <3> QED BY <1>c, <3>1, <3>2, <3>3, <3>4, FollowsOn DEF Follows
  <2> QED BY <1>a, <2>6
<1>5. ASSUME NEW r \in Requests, Accept(r) \/ Refuse(r), Request(r) PROVE Followed'
  <2>1. /\ UNCHANGED <<cached, fanOutVars, seen, entry, subscribed, found>>
        /\ \A s \in Sockets : pc[s] # "listed" \/ pc'[s] = "listed"
    BY <1>0, <1>5 DEF Request, Accept, Refuse, Cache, Goto, channelVars, cacheVars
  <2> QED BY <1>a, <1>b, <1>f, <2>1
<1>6. ASSUME NEW s \in Sockets, Join(s) PROVE Followed'
  <2>1. /\ entry' = [entry EXCEPT ![NodeOf[s]] = IF entry[NodeOf[s]] = Absent THEN {s} ELSE entry[NodeOf[s]] \cup {s}]
        /\ pc' = [pc EXCEPT ![s] = "listed"] /\ subscribed' = subscribed \cup {s}
        /\ UNCHANGED <<cached, fanOutVars, seen, found>>
    BY <1>6 DEF Join, Goto, cacheVars
  <2>2. ASSUME NEW u \in Sockets PROVE Listening(u)' => Listening(u)
    <3>1. CASE u = s
      BY <1>0, <2>1, <3>1 DEF Listening
    <3>2. CASE u # s
      <4>1. pc'[u] = pc[u]
        BY <1>0, <2>1, <3>2
      <4>2. Listed(u)' => Listed(u)
        <5>1. entry[NodeOf[s]] = Absent => entry' = [entry EXCEPT ![NodeOf[s]] = {s}]
          BY <2>1
        <5>2. entry[NodeOf[s]] # Absent => entry' = [entry EXCEPT ![NodeOf[s]] = entry[NodeOf[s]] \cup {s}]
          BY <2>1
        <5>3. NodeOf[u] # NodeOf[s] => entry'[NodeOf[u]] = entry[NodeOf[u]]
          BY <1>0, <2>1
        <5>4. NodeOf[u] = NodeOf[s] =>
                entry'[NodeOf[u]] = IF entry[NodeOf[u]] = Absent THEN {s} ELSE entry[NodeOf[u]] \cup {s}
          BY <1>0, <5>1, <5>2
        <5>5. u \notin {s}
          BY <3>2
        <5> QED BY <5>3, <5>4, <5>5 DEF Listed
      <4> QED BY <2>1, <3>2, <4>1, <4>2 DEF Listening
    <3> QED BY <3>1, <3>2
  <2> QED BY <1>a, <1>f, <2>1, <2>2
<1>7. ASSUME NEW s \in Sockets, ReadCache(s) PROVE Followed'
  <2>1. /\ UNCHANGED <<cached, fanOutVars, entry, subscribed>> /\ seen' = [seen EXCEPT ![s] = Range(cached)]
        /\ \A u \in Sockets \ {s} : pc'[u] = pc[u] /\ found'[u] = found[u]
    BY <1>0, <1>7 DEF ReadCache, Goto, channelVars
  <2>2. ASSUME NEW u \in Sockets PROVE Follows(u)
    <3>1. CASE u = s
      <4>1. seen'[u] = Range(cached')
        BY <1>0, <2>1, <3>1
      <4> QED BY <4>1 DEF Follows
    <3>2. CASE u # s
      <4>1. seen'[u] = seen[u] /\ Listening(u)' => Listening(u)
        BY <1>0, <2>1, <3>2 DEF Listening, Listed
      <4>2. seen'[u] = seen[u]
        BY <1>0, <2>1, <3>2
      <4>3. \A e \in Events : ShownTo(u, e) => ShownTo(u, e)'
        BY <2>1 DEF ShownTo, fanOutVars
      <4> QED BY <1>e, <2>1, <4>1, <4>2, <4>3 DEF fanOutVars
    <3> QED BY <3>1, <3>2
  <2> QED BY <1>a, <2>2
<1>8. ASSUME NEW s \in Sockets, ReplayCache(s) PROVE Followed'
  <2>1. /\ UNCHANGED <<cached, heard, seen, entry, subscribed, found>> /\ pc[s] = "read"
        /\ \A u \in Sockets \ {s} : pc'[u] = pc[u]
        /\ \E x \in Frames : frames' = [frames EXCEPT ![s] = Append(frames[s], x)]
    <3>1. /\ UNCHANGED <<cached, heard, seen, entry, subscribed, found>> /\ pc[s] = "read"
          /\ \A u \in Sockets \ {s} : pc'[u] = pc[u]
      BY <1>0, <1>8 DEF ReplayCache, Goto, channelVars, cacheVars
    <3>2. CASE found[s] \in {Absent, Failed}
      BY <1>8, <3>1, <3>2, Kinds DEF ReplayCache
    <3>3. CASE found[s] \notin {Absent, Failed}
      <4>1. found[s] \in Events
        BY <1>0, <3>3
      <4> QED BY <1>8, <3>1, <3>3, <4>1, Kinds DEF ReplayCache
    <3> QED BY <3>2, <3>3
  <2>2. ASSUME NEW u \in Sockets PROVE Follows(u)
    <3>1. Listening(u)' => Listening(u)
      BY <2>1 DEF Listening, Listed
    <3>2. Range(frames[u]) \subseteq Range(frames'[u])
      <4>1. PICK x \in Frames : frames' = [frames EXCEPT ![s] = Append(frames[s], x)]
        BY <2>1
      <4>2. frames[u] \in Seq(Frames) /\ Range(Append(frames[u], x)) = Range(frames[u]) \cup {x}
        BY <1>0, AppendRange
      <4>3. frames'[u] = frames[u] \/ frames'[u] = Append(frames[u], x)
        BY <1>0, <4>1
      <4> QED BY <4>2, <4>3
    <3>3. \A e \in Events : ShownTo(u, e) => ShownTo(u, e)'
      BY <3>2 DEF ShownTo
    <3> QED BY <1>e, <2>1, <3>1, <3>3
  <2> QED BY <1>a, <2>2
<1>9. ASSUME NEW s \in Sockets, ClientEvent(s) PROVE Followed'
  <2>1. UNCHANGED <<cached, fanOutVars, seen, entry, subscribed, found>>
    BY <1>9 DEF ClientEvent, channelVars, cacheVars
  <2>2. \A u \in Sockets : pc[u] # "listed" \/ pc'[u] = "listed"
    BY <1>0, <1>9 DEF ClientEvent, Goto
  <2> QED BY <1>a, <1>b, <1>f, <2>1, <2>2
<1>10. ASSUME NEW s \in Sockets, Unsubscribe(s) PROVE Followed'
  <2>1. /\ subscribed' = subscribed \ {s} /\ cached' = cached /\ heard' = heard
        /\ entry[NodeOf[s]] = Absent => entry' = [entry EXCEPT ![NodeOf[s]] = Absent]
        /\ entry[NodeOf[s]] # Absent => entry' = [entry EXCEPT ![NodeOf[s]] = entry[NodeOf[s]] \ {s}]
        /\ \A u \in Sockets \ {s} : frames'[u] = frames[u] /\ found'[u] = found[u] /\ seen'[u] = seen[u]
    BY <1>0, <1>10 DEF Unsubscribe
  <2>a. \A u \in Sockets \ {s} : pc'[u] = pc[u]
    <3>1. \E p : pc' = [pc EXCEPT ![s] = p]
      BY <1>10 DEF Unsubscribe, Goto
    <3> QED BY <1>0, <3>1
  <2>2. ASSUME NEW u \in Sockets PROVE Follows(u)
    <3>1. CASE u = s
      BY <2>1, <3>1 DEF Follows, Listening
    <3>2. CASE u # s
      <4>1. Listed(u)' => Listed(u)
        BY <1>0, <2>1, <3>2 DEF Listed
      <4>2. Listening(u)' => Listening(u)
        BY <2>1, <2>a, <3>2, <4>1 DEF Listening
      <4>3. \A e \in Events : ShownTo(u, e) => ShownTo(u, e)'
        BY <2>1, <3>2 DEF ShownTo
      <4>4. seen'[u] = seen[u]
        BY <2>1, <3>2
      <4> QED BY <1>e, <2>1, <4>2, <4>3, <4>4
    <3> QED BY <3>1, <3>2
  <2> QED BY <1>a, <2>2
<1>11. ASSUME NEW s \in Sockets, DropEntry(s) PROVE Followed'
  <2>1. /\ entry' = [entry EXCEPT ![NodeOf[s]] = Absent]
        /\ pc[s] = "emptied" /\ pc' = [pc EXCEPT ![s] = "idle"]
        /\ UNCHANGED <<cached, fanOutVars, seen, subscribed, found>>
    BY <1>11 DEF DropEntry, Goto, cacheVars
  <2>2. ASSUME NEW u \in Sockets PROVE Listening(u)' => Listening(u)
    <3>1. Listed(u)' => Listed(u)
      BY <1>0, <2>1 DEF Listed
    <3> QED BY <1>0, <2>1, <3>1 DEF Listening
  <2> QED BY <1>a, <1>f, <2>1, <2>2
<1>12. ASSUME (\E n \in Nodes : Disconnect(n) \/ Reconnect(n)) \/ Expire \/ UNCHANGED vars PROVE Followed'
  <2>1. UNCHANGED <<fanOutVars, seen, entry, subscribed, found, pc>> /\ (cached' = cached \/ cached' = <<>>)
    BY <1>12 DEF Disconnect, Reconnect, Expire, vars, channelVars, cacheVars, taskVars
  <2>2. Range(cached') \subseteq Range(cached)
    BY <2>1 DEF Range
  <2>3. ASSUME NEW s \in Sockets PROVE Follows(s)
    <3>1. \A e \in Events : ShownTo(s, e) => ShownTo(s, e)'
      BY <2>1 DEF ShownTo, fanOutVars
    <3>2. Listening(s)' => Listening(s)
      BY <1>b, <2>1
    <3> QED BY <1>e, <2>1, <2>2, <3>1, <3>2 DEF fanOutVars
  <2> QED BY <1>a, <2>3
<1> QED BY <1>1, <1>2, <1>3, <1>4, <1>5, <1>6, <1>7, <1>8, <1>9, <1>10, <1>11, <1>12 DEF Next, Request, Connection

\* Between the past its replay stands for and the live stream a subscriber of a
\* cache channel misses nothing (events::trigger caches, then sends;
\* subscribe::handle lists the socket, then replays).
THEOREM NothingMissedAtJoin == Spec => []NoGapAtJoin
<1> DEFINE Inv == TypeOK /\ Places /\ Lists /\ Shown /\ Followed
<1>1. Init => Inv
  <2>1. Init => Followed
    BY DEF Init, Followed, Listening
  <2> QED BY <2>1, TypesInit, FlowInit
<1>2. Inv /\ [Next]_vars => Inv'
  BY TypesPreserved, ListsPreserved, ShownPreserved, FollowedPreserved DEF Shown
<1>3. Inv => NoGapAtJoin
  <2> SUFFICES ASSUME Followed, NEW s \in Sockets, Settled(s), found[s] # Failed,
                      NEW e \in Range(cached) \cap heard[NodeOf[s]], Excepting(e) # s
               PROVE  Live(e) \in Range(frames[s]) \cup {Live(x) : x \in seen[s]}
    BY DEF NoGapAtJoin
  <2>1. Listening(s)
    BY DEF Settled, Listening, SendPcs
  <2>2. ShownTo(s, e) \/ e \in seen[s]
    BY <2>1 DEF Followed
  <2> QED BY <2>2 DEF ShownTo
<1> QED BY <1>1, <1>2, <1>3, PTL DEF Spec

=============================================================================
