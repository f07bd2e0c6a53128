------------------------ MODULE ConnectionLoopProofs ------------------------
(***************************************************************************)
(* Theorems about module ConnectionLoop, for every capacity of the queue   *)
(* and all intervals: what the client gets has no gap, the flag is noticed *)
(* after one frame at most, and no client is given up too early.           *)
(***************************************************************************)
EXTENDS ConnectionLoop, SequenceTheorems, TLAPS

\* The last message that has left the queue.
Taken == IF sending # 0 THEN sending ELSE written

\* A message is under way exactly while one is being written.
Writing == sending # 0 <=> pc = "write"

\* Until the connection is flagged the queue holds every message from the one
\* after the last taken to the last offered.
Contiguous ==
  ~ forceClose /\ pc \notin {"cleanup", "closed"} =>
    /\ \A i \in 1..Len(queue) : queue[i] = Taken + i
    /\ offered = Taken + Len(queue)

\* Flagged or not, the message that select! would take is the next one: a
\* message is only dropped when there is one in front of it.
NextIsFirst ==
  pc = "select" =>
    /\ queue # <<>> => queue[1] = written + 1
    /\ queue = <<>> => offered = written

\* A flagged connection that handles a frame does not come back to select!.
Overrun ==
  /\ overrun \in Nat
  /\ overrun > 0 => forceClose /\ pc \in {"handler", "top", "cleanup", "closed"}

\* What the timer has still to run, and the time it has run, make up the
\* interval it was set to.
Timers ==
  pc \notin {"cleanup", "closed"} =>
    /\ ~ pinged => idle + timer >= PingInterval
    /\ pinged /\ pc = "writePing" => idle >= PingInterval
    /\ pinged /\ pc # "writePing" => idle + timer >= PingInterval + PongTimeout
    /\ pc \in {"writePing", "writeStale"} => pinged
    /\ pc = "writeStale" => idle >= PingInterval + PongTimeout

Types ==
  /\ pc \in {"top", "select", "handler", "cleanup", "closed"} \cup SinkPcs
  /\ queue \in Seq(1..MaxOffered) /\ Len(queue) <= QueueCapacity
  /\ forceClose \in BOOLEAN /\ pinged \in BOOLEAN
  /\ timer \in 0..(PingInterval + PongTimeout)
  /\ sending \in 0..MaxOffered
  /\ offered \in 0..MaxOffered /\ written \in Nat
  /\ idle \in 0..ActivityTimeout

QueueInv == Types /\ Writing /\ Contiguous /\ NextIsFirst /\ NoGap
TimerInv == Types /\ Timers
OverrunInv == Overrun /\ AtMostOneOverrun
Inv == QueueInv /\ TimerInv /\ OverrunInv

\* What the timer is set to is within its range.
LEMMA Intervals ==
  /\ PingInterval \in 0..(PingInterval + PongTimeout)
  /\ PongTimeout \in 0..(PingInterval + PongTimeout)
  /\ 0 \in 0..ActivityTimeout
  BY TimerAssumption

\* The invariant holds initially.
LEMMA InitInv == Init => Inv
<1> SUFFICES ASSUME Init PROVE Inv
  OBVIOUS
<1>1. queue = <<>> /\ queue \in Seq(1..MaxOffered) /\ Len(queue) = 0
  BY DEF Init
<1>2. Types
  <2>1. queue \in Seq(1..MaxOffered) /\ Len(queue) <= QueueCapacity
    BY <1>1, QueueAssumption
  <2>2. timer \in 0..(PingInterval + PongTimeout) /\ idle \in 0..ActivityTimeout
    BY Intervals DEF Init
  <2>3. sending \in 0..MaxOffered /\ offered \in 0..MaxOffered /\ written \in Nat
    BY BoundAssumption DEF Init
  <2> QED BY <2>1, <2>2, <2>3 DEF Init, Types
<1>5. Writing /\ NextIsFirst /\ NoGap
  BY <1>1 DEF Init, Writing, NextIsFirst, NoGap
<1>3. Contiguous
  BY <1>1 DEF Init, Contiguous, Taken
<1>4. Timers /\ OverrunInv
  BY TimerAssumption DEF Init, Timers, OverrunInv, Overrun, AtMostOneOverrun
<1> QED BY <1>2, <1>3, <1>4, <1>5 DEF Inv, QueueInv, TimerInv

----------------------------------------------------------------------------
(* The queue *)

\* A message put at the end of the queue.
LEMMA Appended ==
  ASSUME Types, offered < MaxOffered, Room, queue' = Append(queue, offered + 1)
  PROVE  /\ queue' \in Seq(1..MaxOffered) /\ Len(queue') = Len(queue) + 1
         /\ Len(queue') <= QueueCapacity
         /\ queue'[Len(queue) + 1] = offered + 1
         /\ \A i \in 1..Len(queue) : queue'[i] = queue[i]
<1>1. offered + 1 \in 1..MaxOffered
  BY BoundAssumption DEF Types
<1> QED BY <1>1, QueueAssumption DEF Types, Room

\* send_raw, and the error frame of the terminate API.
LEMMA OfferPreserves ==
  ASSUME QueueInv, SendRaw \/ TerminateSend,
         UNCHANGED <<pinged, timer, sending, written>>, idle' \in 0..ActivityTimeout,
         pc' = pc \/ (pc = "handler" /\ pc' = "top") \/ (pc = "select" /\ pc' = "cleanup")
  PROVE  QueueInv'
<1> USE BoundAssumption, QueueAssumption DEF QueueInv
<1>1. CASE offered < MaxOffered /\ Room /\ queue' = Append(queue, offered + 1)
           /\ offered' = offered + 1 /\ UNCHANGED forceClose
  <2>1. /\ queue' \in Seq(1..MaxOffered) /\ Len(queue') = Len(queue) + 1
        /\ Len(queue') <= QueueCapacity
        /\ queue'[Len(queue) + 1] = offered + 1
        /\ \A i \in 1..Len(queue) : queue'[i] = queue[i]
    BY <1>1, Appended
  <2>2. Types' /\ Writing' /\ NoGap'
    BY <1>1, <2>1 DEF Types, Writing, NoGap, SinkPcs
  <2>3. Contiguous'
    <3> SUFFICES ASSUME ~ forceClose, pc \notin {"cleanup", "closed"}
                 PROVE  /\ \A i \in 1..Len(queue') : queue'[i] = Taken + i
                        /\ offered' = Taken + Len(queue')
      BY <1>1 DEF Contiguous, Taken
    <3>1. Taken \in Nat /\ offered = Taken + Len(queue) /\ \A i \in 1..Len(queue) : queue[i] = Taken + i
      BY DEF Contiguous, Taken, Types
    <3>2. Len(queue) \in Nat
      BY DEF Types
    <3>3. \A i \in 1..Len(queue') : i \in 1..Len(queue) \/ i = Len(queue) + 1
      BY <2>1, <3>2
    <3>4. queue'[Len(queue) + 1] = Taken + (Len(queue) + 1) /\ offered' = Taken + (Len(queue) + 1)
      BY <1>1, <2>1, <3>1, <3>2
    <3>5. \A i \in 1..Len(queue') : queue'[i] = Taken + i
      BY <2>1, <3>1, <3>3, <3>4
    <3> QED BY <2>1, <3>4, <3>5
  <2>4. NextIsFirst'
    <3> SUFFICES ASSUME pc = "select" PROVE queue'[1] = written + 1 /\ queue' # <<>>
      BY DEF NextIsFirst
    <3>1. CASE queue = <<>>
      BY <1>1, <2>1, <3>1 DEF NextIsFirst, Types
    <3>2. CASE queue # <<>>
      <4>1. Len(queue) \in Nat \ {0}
        BY <3>2 DEF Types
      <4> QED BY <1>1, <2>1, <3>2, <4>1 DEF NextIsFirst, Types
    <3> QED BY <3>1, <3>2
  <2> QED BY <2>2, <2>3, <2>4
<1>2. CASE ~ Room /\ forceClose' = TRUE /\ UNCHANGED queue /\ offered' \in 0..MaxOffered
  <2>1. queue # <<>>
    BY <1>2 DEF Room, Types
  <2> QED BY <1>2, <2>1 DEF Types, Writing, Contiguous, NextIsFirst, NoGap, SinkPcs
<1>3. CASE UNCHANGED <<queue, offered, forceClose>>
  BY <1>3 DEF Types, Writing, Contiguous, NextIsFirst, NoGap, SinkPcs, Taken
<1>4. CASE SendRaw
  <2>1. CASE Room
    BY <1>1, <1>4, <2>1 DEF SendRaw
  <2>2. CASE ~ Room
    BY <1>2, <1>4, <2>2 DEF SendRaw, Types
  <2> QED BY <2>1, <2>2
<1>5. CASE TerminateSend
  <2>1. CASE Room /\ offered < MaxOffered
    BY <1>1, <1>5, <2>1 DEF TerminateSend
  <2>2. CASE ~ (Room /\ offered < MaxOffered)
    BY <1>3, <1>5, <2>2 DEF TerminateSend
  <2> QED BY <2>1, <2>2
<1> QED BY <1>4, <1>5

\* The message taken is the next one, and the last one if the connection is
\* flagged.
LEMMA TakePreserves == ASSUME QueueInv, TakeMessage PROVE QueueInv'
<1> USE QueueAssumption DEF QueueInv, TakeMessage
<1>1. /\ queue' \in Seq(1..MaxOffered) /\ Len(queue') = Len(queue) - 1 /\ Len(queue) \in Nat \ {0}
      /\ Head(queue) = queue[1] /\ Head(queue) \in 1..MaxOffered
      /\ \A i \in 1..Len(queue') : queue'[i] = queue[i + 1]
  <2>1. queue \in Seq(1..MaxOffered) /\ queue # <<>> /\ queue' = Tail(queue)
    BY DEF Types
  <2>2. Len(queue) \in Nat \ {0}
    BY <2>1, EmptySeq
  <2>3. Head(queue) = queue[1]
    BY <2>1, <2>2
  <2> QED BY <2>1, <2>2, <2>3, HeadTailProperties
<1>2. sending' = written + 1 /\ sending' # 0
  BY <1>1 DEF NextIsFirst, Types
<1>3. sending = 0
  BY DEF Writing
<1>4. Types' /\ Writing' /\ NoGap' /\ NextIsFirst'
  BY <1>1, <1>2 DEF Types, Writing, NoGap, NextIsFirst, SinkPcs
<1>5. Contiguous'
  <2> SUFFICES ASSUME ~ forceClose
               PROVE  /\ \A i \in 1..Len(queue') : queue'[i] = sending' + i
                      /\ offered = sending' + Len(queue')
    BY <1>2 DEF Contiguous, Taken
  <2>1. written \in Nat /\ (\A i \in 1..Len(queue) : queue[i] = written + i)
        /\ offered = written + Len(queue)
    BY <1>3 DEF Contiguous, Taken, Types
  <2>2. \A i \in 1..Len(queue') : i + 1 \in 1..Len(queue) /\ i \in Nat
    BY <1>1
  <2> QED BY <1>1, <1>2, <2>1, <2>2
<1> QED BY <1>4, <1>5

\* The other steps take nothing from the queue and put nothing in; select! is
\* entered without the flag.
LEMMA QueueUntouched ==
  ASSUME QueueInv,
         \/ CheckFlag \/ ReadText \/ ReadPong \/ ReadClose \/ DeadlineExpires \/ Cleanup
         \/ Sink \/ TerminateFlag \/ Tick \/ \E f \in Frames : ClientSends(f)
         \/ (HandlerReturns /\ UNCHANGED <<offered, queue, forceClose>>)
         \/ (ReadTooLarge /\ UNCHANGED <<offered, queue, forceClose>>)
  PROVE  QueueInv'
<1> USE TimerAssumption, QueueAssumption, BoundAssumption DEF QueueInv
<1>1. Types'
  <2> USE DEF Types, SinkPcs
  <2>1. CASE CheckFlag \/ ReadClose \/ DeadlineExpires \/ Cleanup \/ TerminateFlag
    BY <2>1 DEF CheckFlag, ReadClose, Read, DeadlineExpires, Cleanup, TerminateFlag
  <2>2. CASE ReadText \/ ReadPong
    BY <2>2, Intervals DEF ReadText, ReadPong, Read, Activity
  <2>3. CASE WriteCompletes
    BY <2>3 DEF WriteCompletes
  <2>4. CASE WriteFails
    BY <2>4 DEF WriteFails
  <2>5. CASE Tick
    BY <2>5 DEF Tick
  <2>6. CASE (\E f \in Frames : ClientSends(f))
             \/ (HandlerReturns /\ UNCHANGED <<offered, queue, forceClose>>)
             \/ (ReadTooLarge /\ UNCHANGED <<offered, queue, forceClose>>)
    BY <2>6 DEF ClientSends, loopVars, HandlerReturns, ReadTooLarge, Read
  <2> QED BY <2>1, <2>2, <2>3, <2>4, <2>5, <2>6 DEF Sink
<1>2. Writing' /\ NoGap'
  BY DEF Types, Writing, NoGap, SinkPcs, CheckFlag, ReadText, ReadPong, ReadClose, Read, DeadlineExpires,
         Cleanup, Sink, WriteCompletes, WriteFails, TerminateFlag, Tick, ClientSends, loopVars,
         HandlerReturns, ReadTooLarge
<1>3. ASSUME ~ forceClose', pc' \notin {"cleanup", "closed"}
      PROVE  Taken' = Taken /\ queue' = queue /\ offered' = offered /\ ~ forceClose
             /\ pc \notin {"cleanup", "closed"}
  BY <1>3 DEF Types, Taken, Writing, NoGap, SinkPcs, CheckFlag, ReadText, ReadPong, ReadClose, Read,
         DeadlineExpires, Cleanup, Sink, WriteCompletes, WriteFails, TerminateFlag, Tick, ClientSends,
         loopVars, HandlerReturns, ReadTooLarge
<1>4. Contiguous'
  BY <1>3 DEF Contiguous
<1>5. NextIsFirst'
  <2>1. CASE CheckFlag
    <3> SUFFICES ASSUME pc' = "select"
                 PROVE  (queue # <<>> => queue[1] = written + 1) /\ (queue = <<>> => offered = written)
      BY <2>1 DEF CheckFlag, NextIsFirst
    <3>1. sending = 0 /\ ~ forceClose /\ pc = "top"
      BY <2>1 DEF CheckFlag, Writing
    <3>2. (\A i \in 1..Len(queue) : queue[i] = written + i) /\ offered = written + Len(queue)
      BY <3>1 DEF Contiguous, Taken
    <3> QED BY <3>2 DEF Types
  <2>2. CASE ~ CheckFlag
    BY <2>2 DEF Types, NextIsFirst, SinkPcs, ReadText, ReadPong, ReadClose, Read, DeadlineExpires,
         Cleanup, Sink, WriteCompletes, WriteFails, TerminateFlag, Tick, ClientSends, loopVars,
         HandlerReturns, ReadTooLarge
  <2> QED BY <2>1, <2>2
<1> QED BY <1>1, <1>2, <1>4, <1>5

\* Every step keeps the queue an interval of the messages.
LEMMA QueuePreserved == ASSUME QueueInv, [Next]_vars PROVE QueueInv'
<1>1. CASE TakeMessage
  BY <1>1, TakePreserves
<1>2. CASE HandlerReturns
  BY <1>2, OfferPreserves, QueueUntouched DEF HandlerReturns, QueueInv, Types
<1>3. CASE ReadTooLarge
  BY <1>3, OfferPreserves, QueueUntouched DEF ReadTooLarge, Read, QueueInv, Types
<1>4. CASE Offer
  BY <1>4, OfferPreserves DEF Offer, QueueInv, Types
<1>5. CASE TerminateSend
  BY <1>5, OfferPreserves DEF TerminateSend, QueueInv, Types
<1>6. CASE UNCHANGED vars
  BY <1>6 DEF vars, loopVars, QueueInv, Types, Writing, Contiguous, NextIsFirst, NoGap, SinkPcs, Taken
<1> QED BY <1>1, <1>2, <1>3, <1>4, <1>5, <1>6, QueueUntouched DEF Next, Loop, Environment

----------------------------------------------------------------------------
(* The timer and the flag *)

\* The timer is set where idle is 0, or where the first interval is over; both
\* then count the same ticks.
LEMMA TimersPreserved == ASSUME Types, Timers, [Next]_vars PROVE Timers'
<1> USE TimerAssumption DEF Types, Timers, SinkPcs
<1>1. CASE ReadText \/ ReadPong
  BY <1>1 DEF ReadText, ReadPong, Read, Activity
<1>2. CASE DeadlineExpires
  BY <1>2 DEF DeadlineExpires
<1>3. CASE Sink
  BY <1>3 DEF Sink, WriteCompletes, WriteFails, Cleanup
<1>4. CASE Tick
  BY <1>4 DEF Tick
<1>5. CASE CheckFlag \/ HandlerReturns \/ ReadTooLarge \/ ReadClose \/ TakeMessage
  BY <1>5 DEF CheckFlag, HandlerReturns, ReadTooLarge, Read, ReadClose, TakeMessage
<1>6. CASE \/ Offer \/ TerminateSend \/ TerminateFlag \/ UNCHANGED vars
           \/ \E f \in Frames : ClientSends(f)
  BY <1>6 DEF Offer, TerminateSend, TerminateFlag, ClientSends, loopVars, vars
<1> QED BY <1>1, <1>2, <1>3, <1>4, <1>5, <1>6 DEF Next, Loop, Environment

\* Every step keeps a flagged loop from a second overrun.
LEMMA OverrunPreserved == ASSUME OverrunInv, [Next]_vars PROVE OverrunInv'
<1> USE DEF OverrunInv, Overrun, AtMostOneOverrun
<1>1. CASE ReadText
  BY <1>1 DEF ReadText, Read
<1>2. CASE \/ CheckFlag \/ HandlerReturns \/ ReadTooLarge \/ ReadPong \/ ReadClose \/ TakeMessage
           \/ DeadlineExpires \/ Sink
  BY <1>2 DEF CheckFlag, HandlerReturns, SendRaw, ReadTooLarge, ReadPong, ReadClose, Read, TakeMessage,
              DeadlineExpires, Cleanup, Sink, WriteCompletes, WriteFails, SinkPcs
<1>3. CASE Environment \/ UNCHANGED vars
  BY <1>3 DEF Environment, Offer, SendRaw, TerminateSend, TerminateFlag, Tick, ClientSends, loopVars, vars
<1> QED BY <1>1, <1>2, <1>3 DEF Next, Loop

----------------------------------------------------------------------------

\* The invariant behind what follows.
THEOREM LoopInvariant == Spec => []Inv
<1>1. Inv /\ [Next]_vars => Inv'
  <2> SUFFICES ASSUME Inv, [Next]_vars PROVE Inv'
    OBVIOUS
  <2>1. QueueInv'
    BY QueuePreserved DEF Inv
  <2>2. Timers'
    BY TimersPreserved DEF Inv, TimerInv
  <2>3. OverrunInv'
    BY OverrunPreserved DEF Inv
  <2> QED BY <2>1, <2>2, <2>3 DEF Inv, TimerInv, QueueInv
<1> QED BY InitInv, <1>1, PTL DEF Spec

\* Whatever the capacity of the queue, a client never gets a message after one
\* that was dropped.
THEOREM NoGaps == Spec => []NoGap
<1>1. Inv => NoGap
  BY DEF Inv, QueueInv
<1> QED BY <1>1, LoopInvariant, PTL

\* At most one frame is handled after the connection was flagged.
THEOREM OneOverrun == Spec => []AtMostOneOverrun
<1>1. Inv => AtMostOneOverrun
  BY DEF Inv, OverrunInv
<1> QED BY <1>1, LoopInvariant, PTL

\* With one timer for both, ping_interval and pong_timeout pass before the loop
\* gives up on a client.
THEOREM NeverTooEarly == Spec => []StaleOnlyAfterTimeout
<1>1. Inv => StaleOnlyAfterTimeout
  BY DEF Inv, TimerInv, Timers, StaleOnlyAfterTimeout
<1> QED BY <1>1, LoopInvariant, PTL

=============================================================================
