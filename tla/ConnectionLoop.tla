--------------------------- MODULE ConnectionLoop ---------------------------
(***************************************************************************)
(* The select! loop of one connection (run_connection in                   *)
(* src/websocket/mod.rs) with the state of WsConnection it shares with     *)
(* other tasks: the bounded outbound queue and the force_close flag.       *)
(*                                                                         *)
(* Around the loop: tasks that send to this connection (send_raw), the     *)
(* terminate API (try_send, then force_close), the client, and the clock.  *)
(* A handler is one step here; SocketTasks has its steps.  Messages are    *)
(* numbered in the order in which they are offered.                        *)
(***************************************************************************)
EXTENDS Integers, Sequences

CONSTANTS QueueCapacity,  \* mpsc::channel(512)
          PingInterval,   \* server_ping_interval
          PongTimeout,    \* server_pong_timeout
          ActivityTimeout, \* activity_timeout: only announced to the client
          MaxOffered,     \* bound: messages offered to the connection
          MaxFrames,      \* bound: frames the client sends
          MaxInbox        \* bound: frames not yet read by the loop

ASSUME QueueAssumption == QueueCapacity \in Nat \ {0}
ASSUME TimerAssumption == /\ PingInterval \in Nat \ {0}
                           /\ PongTimeout \in Nat \ {0} /\ ActivityTimeout \in Nat
                           /\ ActivityTimeout >= PingInterval + PongTimeout
ASSUME BoundAssumption == MaxOffered \in Nat /\ MaxFrames \in Nat /\ MaxInbox \in Nat

VARIABLES pc,          \* what the loop does next, or waits for
          queue,       \* rx: the numbers of the messages queued
          forceClose,  \* force_close
          pinged,      \* pinged
          timer,       \* ticks until activity_deadline
          inbox,       \* frames the client has sent and the loop not read
          sending,     \* number of the message given to sink.send, or 0
          terminator,  \* progress of terminate_user_connections
          offered,     \* messages offered so far
          written,     \* messages written to the client so far
          frames,      \* frames sent by the client so far
          idle,        \* ticks since a frame was read, as far as ActivityTimeout
          overrun      \* frames handled although force_close was set

loopVars == <<pc, queue, forceClose, pinged, timer, sending>>
vars == <<loopVars, inbox, terminator, offered, written, frames, idle, overrun>>

Frames == {"text", "tooLarge", "pong", "close"}
SinkPcs == {"write", "writePing", "writeStale"}

TypeOK ==
  /\ pc \in {"top", "select", "handler", "cleanup", "closed"} \cup SinkPcs
  /\ queue \in Seq(1..MaxOffered) /\ Len(queue) <= QueueCapacity
  /\ forceClose \in BOOLEAN /\ pinged \in BOOLEAN
  /\ timer \in 0..(PingInterval + PongTimeout)
  /\ inbox \in Seq(Frames) /\ Len(inbox) <= MaxInbox
  /\ sending \in 0..MaxOffered
  /\ terminator \in {"idle", "sent", "done"}
  /\ offered \in 0..MaxOffered /\ written \in 0..MaxOffered
  /\ frames \in 0..MaxFrames
  /\ idle \in 0..ActivityTimeout
  /\ overrun \in 0..MaxFrames

Init ==
  /\ pc = "top" /\ queue = <<>> /\ forceClose = FALSE /\ pinged = FALSE
  /\ timer = PingInterval /\ inbox = <<>> /\ sending = 0 /\ terminator = "idle"
  /\ offered = 0 /\ written = 0 /\ frames = 0 /\ idle = 0 /\ overrun = 0

----------------------------------------------------------------------------
(* connection.rs: send_raw *)

Room == Len(queue) < QueueCapacity

\* Mutant: a full queue only loses the message.
DropSilently ==
  /\ offered < MaxOffered
  /\ offered' = offered + 1
  /\ queue' = IF Room THEN Append(queue, offered + 1) ELSE queue
  /\ UNCHANGED forceClose

\* try_send; when the queue is full the message is dropped and the
\* connection flagged.
SendRaw ==
  /\ offered < MaxOffered
  /\ offered' = offered + 1
  /\ IF Room THEN queue' = Append(queue, offered + 1) /\ UNCHANGED forceClose
             ELSE forceClose' = TRUE /\ UNCHANGED queue

----------------------------------------------------------------------------
(* The loop *)

\* Mutant: the flag is not looked at.
IgnoreFlag ==
  /\ pc = "top"
  /\ pc' = "select"
  /\ UNCHANGED <<queue, forceClose, pinged, timer, inbox, sending, terminator,
                 offered, written, frames, idle, overrun>>

\* if conn.should_close() { break }
CheckFlag ==
  /\ pc = "top"
  /\ pc' = IF forceClose THEN "cleanup" ELSE "select"
  /\ UNCHANGED <<queue, forceClose, pinged, timer, inbox, sending, terminator,
                 offered, written, frames, idle, overrun>>

Read(frame) ==
  /\ pc = "select"
  /\ inbox # <<>> /\ Head(inbox) = frame
  /\ inbox' = Tail(inbox)

\* clear_pinged, and the deadline is ping_interval from now
Activity ==
  /\ pinged' = FALSE
  /\ idle' = 0
  /\ timer' = PingInterval

\* A text or binary frame within the size limit: the handler runs.
ReadText ==
  /\ Read("text")
  /\ Activity
  /\ pc' = "handler"
  /\ overrun' = IF forceClose THEN overrun + 1 ELSE overrun
  /\ UNCHANGED <<queue, forceClose, sending, terminator, offered, written, frames>>

\* on_message returns; it has answered or not.
HandlerReturns ==
  /\ pc = "handler"
  /\ pc' = "top"
  /\ SendRaw \/ UNCHANGED <<offered, queue, forceClose>>
  /\ UNCHANGED <<pinged, timer, inbox, sending, terminator, written, frames, idle, overrun>>

\* conn.send(error), then break: nothing of the queue is written any more.
\* (At the bound MaxOffered the error frame is left out.)
ReadTooLarge ==
  /\ Read("tooLarge")
  /\ pc' = "cleanup"
  /\ SendRaw \/ (offered = MaxOffered /\ UNCHANGED <<offered, queue, forceClose>>)
  /\ UNCHANGED <<pinged, timer, sending, terminator, written, frames, idle, overrun>>

\* Ping and Pong frames
ReadPong ==
  /\ Read("pong")
  /\ Activity
  /\ pc' = "top"
  /\ UNCHANGED <<queue, forceClose, sending, terminator, offered, written, frames, overrun>>

\* A close frame, the end of the stream or an error on it
ReadClose ==
  /\ Read("close")
  /\ pc' = "cleanup"
  /\ UNCHANGED <<queue, forceClose, pinged, timer, sending, terminator, offered, written,
                 frames, idle, overrun>>

\* rx.recv(), then sink.send(msg).await
TakeMessage ==
  /\ pc = "select"
  /\ queue # <<>>
  /\ sending' = Head(queue)
  /\ queue' = Tail(queue)
  /\ pc' = "write"
  /\ UNCHANGED <<forceClose, pinged, timer, inbox, terminator, offered, written, frames,
                 idle, overrun>>

\* Mutant: the deadline is armed once only.
PingOnce ==
  /\ pc = "select"
  /\ timer = 0 /\ ~ pinged
  /\ pc' = "writePing"
  /\ pinged' = TRUE
  /\ UNCHANGED <<queue, forceClose, timer, inbox, sending, terminator, offered, written,
                 frames, idle, overrun>>

\* activity_deadline: the first expiry pings, the second gives up.
DeadlineExpires ==
  /\ pc = "select"
  /\ timer = 0
  /\ pc' = IF pinged THEN "writeStale" ELSE "writePing"
  /\ pinged' = TRUE
  /\ UNCHANGED <<queue, forceClose, timer, inbox, sending, terminator, offered, written,
                 frames, idle, overrun>>

\* Mutant: the deadline is not moved after the ping.
PingWithoutReset ==
  /\ pc \in SinkPcs
  /\ pc' = IF pc = "writeStale" THEN "cleanup" ELSE "top"
  /\ written' = IF pc = "write" THEN written + 1 ELSE written
  /\ sending' = 0
  /\ UNCHANGED <<queue, forceClose, pinged, timer, inbox, terminator, offered, frames,
                 idle, overrun>>

\* sink.send(..).await completes: after a ping the deadline is pong_timeout
\* from now; after the stale error the loop ends.
WriteCompletes ==
  /\ pc \in SinkPcs
  /\ pc' = IF pc = "writeStale" THEN "cleanup" ELSE "top"
  /\ timer' = IF pc = "writePing" THEN PongTimeout ELSE timer
  /\ written' = IF pc = "write" THEN written + 1 ELSE written
  /\ sending' = 0
  /\ UNCHANGED <<queue, forceClose, pinged, inbox, terminator, offered, frames,
                 idle, overrun>>

\* The write fails: the loop ends.
WriteFails ==
  /\ pc \in SinkPcs
  /\ pc' = "cleanup"
  /\ sending' = 0
  /\ UNCHANGED <<queue, forceClose, pinged, timer, inbox, terminator, offered, written,
                 frames, idle, overrun>>

\* sink.close().await, which waits for the peer too, and on_close
Cleanup ==
  /\ pc = "cleanup"
  /\ pc' = "closed"
  /\ UNCHANGED <<queue, forceClose, pinged, timer, inbox, sending, terminator, offered,
                 written, frames, idle, overrun>>

----------------------------------------------------------------------------
(* Around the loop *)

\* Another task sends to the connection, as long as it is registered.
Offer ==
  /\ pc # "closed"
  /\ SendRaw
  /\ UNCHANGED <<pc, pinged, timer, inbox, sending, terminator, written, frames, idle, overrun>>

\* terminate_user_connections: the error frame is queued if there is room (one
\* that is dropped gets no number, so NoGap does not speak of it),
TerminateSend ==
  /\ terminator = "idle" /\ pc # "closed"
  /\ terminator' = "sent"
  /\ IF Room /\ offered < MaxOffered
     THEN queue' = Append(queue, offered + 1) /\ offered' = offered + 1
     ELSE UNCHANGED <<queue, offered>>
  /\ UNCHANGED <<pc, forceClose, pinged, timer, inbox, sending, written, frames, idle, overrun>>

\* then the connection is flagged.
TerminateFlag ==
  /\ terminator = "sent"
  /\ terminator' = "done"
  /\ forceClose' = TRUE
  /\ UNCHANGED <<pc, queue, pinged, timer, inbox, sending, offered, written, frames, idle, overrun>>

\* The client sends a frame; nothing follows a close frame.
ClientSends(f) ==
  /\ frames < MaxFrames /\ Len(inbox) < MaxInbox
  /\ \A i \in 1..Len(inbox) : inbox[i] # "close"
  /\ inbox' = Append(inbox, f)
  /\ frames' = frames + 1
  /\ UNCHANGED <<loopVars, terminator, offered, written, idle, overrun>>

Tick ==
  /\ pc # "closed"
  /\ timer > 0 \/ idle < ActivityTimeout
  /\ timer' = IF timer > 0 THEN timer - 1 ELSE 0
  /\ idle' = IF idle < ActivityTimeout THEN idle + 1 ELSE idle
  /\ UNCHANGED <<pc, queue, forceClose, pinged, inbox, sending, terminator, offered, written,
                 frames, overrun>>

----------------------------------------------------------------------------

\* The steps of the loop that do not wait for the peer to read.
Loop == CheckFlag \/ ReadText \/ HandlerReturns \/ ReadTooLarge \/ ReadPong \/ ReadClose
        \/ TakeMessage \/ DeadlineExpires
\* Those that do
Sink == WriteCompletes \/ WriteFails \/ Cleanup
Environment == Offer \/ TerminateSend \/ TerminateFlag \/ Tick
               \/ \E f \in Frames : ClientSends(f)

Next == Loop \/ Sink \/ Environment

\* The runtime polls the task, time passes, and an API call that has queued
\* its error frame goes on to set the flag.
Fairness == WF_vars(Loop) /\ WF_vars(Tick) /\ WF_vars(TerminateFlag)

Spec == Init /\ [][Next]_vars
\* The peer reads, or its connection breaks: every write returns, and the close.
LiveSpec == Spec /\ Fairness /\ WF_vars(Sink)
\* A peer that keeps its connection but does not read.
StalledPeerSpec == Spec /\ Fairness

----------------------------------------------------------------------------
(* Safety *)

\* A client never sees a gap in its messages: once one was dropped for a
\* full queue, no later one is written, although the flag is only looked at
\* between two iterations of the loop.
NoGap == sending # 0 => sending = written + 1

\* After force_close at most one more frame of the client is handled.
AtMostOneOverrun == overrun <= 1

\* The loop gives up on a client no earlier than ping_interval and
\* pong_timeout after it last read a frame of it, however long its own
\* handlers and writes took.
StaleOnlyAfterTimeout == pc = "writeStale" => idle >= PingInterval + PongTimeout

----------------------------------------------------------------------------
(* Liveness *)

\* A connection flagged as slow consumer, or by the terminate API, closes
\* even if its client stays silent and nothing more is sent to it.
FlaggedCloses == (forceClose \/ terminator = "sent") ~> pc = "closed"

----------------------------------------------------------------------------
(* What the documentation says and the code does not do *)

\* "Slow consumers (clients whose outbound buffer is full) are automatically
\* force-closed"
SlowConsumerCloses == forceClose ~> pc = "closed"

\* "waited pong_timeout with no response"
NoResponseWhenStale == [][pc = "select" /\ pc' = "writeStale" => inbox = <<>>]_vars

\* "activity_timeout: seconds before an idle connection is closed"
IdleUntilActivityTimeout == pc = "writeStale" => idle >= ActivityTimeout

=============================================================================
