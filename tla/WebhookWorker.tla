--------------------------- MODULE WebhookWorker ---------------------------
(***************************************************************************)
(* The webhook worker of one app (src/webhook/mod.rs): events queued by    *)
(* the socket tasks are collected into a batch, which is posted when the   *)
(* batch interval has passed, with retries.                                *)
(*                                                                         *)
(* Events are numbered in the order of the queue.  The queue, the batch    *)
(* and the events posted are then intervals between counters: the queue    *)
(* holds taken+1..sent, the batch settled+1..taken.  Serialization and the *)
(* signature are left out.                                                 *)
(***************************************************************************)
EXTENDS Integers, Sequences, FiniteSets

CONSTANTS Attempts,   \* 3: the range of the retry loop
          MaxEvents   \* bound: events sent

ASSUME AttemptsAssumption == Attempts \in Nat \ {0}
ASSUME EventsAssumption == MaxEvents \in Nat

VARIABLES pc,
          open,      \* a WebhookSender still exists
          sent,      \* events sent
          taken,     \* events received from the queue
          settled,   \* events whose batch was delivered or given up
          attempt,   \* attempts already made for the current batch
          backoffs,  \* seconds slept between the attempts of the batch
          posted,    \* posts that reach the receiver, as <<first, last>>
          givenUp    \* events of batches that were dropped

vars == <<pc, open, sent, taken, settled, attempt, backoffs, posted, givenUp>>

\* "collect": in the select; "post": about to post; "backoff": sleeping
\* before the next attempt; "stopped": returned; "killed": the process ended.
TypeOK ==
  /\ pc \in {"collect", "post", "backoff", "stopped", "killed"}
  /\ open \in BOOLEAN
  /\ sent \in 0..MaxEvents /\ taken \in 0..sent /\ settled \in 0..taken
  /\ attempt \in 0..(Attempts - 1)
  /\ backoffs \in Seq(Nat)
  /\ posted \in Seq((1..MaxEvents) \X (1..MaxEvents))
  /\ givenUp \subseteq 1..MaxEvents

Init ==
  /\ pc = "collect" /\ open = TRUE
  /\ sent = 0 /\ taken = 0 /\ settled = 0
  /\ attempt = 0 /\ backoffs = <<>> /\ posted = <<>> /\ givenUp = {}

\* Mutant: the events are cloned and stay in the batch.
BatchUndrained == <<1, taken>>

\* What flush drains from the batch
Batch == <<settled + 1, taken>>
BatchEmpty == taken = settled
QueueEmpty == taken = sent

----------------------------------------------------------------------------

\* WebhookSender::send: the queue is unbounded.
Send ==
  /\ open /\ sent < MaxEvents
  /\ sent' = sent + 1
  /\ UNCHANGED <<pc, open, taken, settled, attempt, backoffs, posted, givenUp>>

\* The last sender is dropped.
DropSenders ==
  /\ open
  /\ open' = FALSE
  /\ UNCHANGED <<pc, sent, taken, settled, attempt, backoffs, posted, givenUp>>

\* rx.recv() yields an event.
Collect ==
  /\ pc = "collect" /\ ~ QueueEmpty
  /\ taken' = taken + 1
  /\ UNCHANGED <<pc, open, sent, settled, attempt, backoffs, posted, givenUp>>

\* The interval is over; the select is biased, so the queue is empty.
IntervalOver ==
  /\ pc = "collect" /\ QueueEmpty /\ open
  /\ ~ BatchEmpty
  /\ pc' = "post"
  /\ UNCHANGED <<open, sent, taken, settled, attempt, backoffs, posted, givenUp>>

\* Mutant: the worker returns without the flush.
ReturnUnflushed ==
  /\ pc = "collect" /\ QueueEmpty /\ ~ open
  /\ pc' = "stopped"
  /\ UNCHANGED <<open, sent, taken, settled, attempt, backoffs, posted, givenUp>>

\* rx.recv() yields None: the remaining batch is flushed, or the worker ends.
ChannelClosed ==
  /\ pc = "collect" /\ QueueEmpty /\ ~ open
  /\ pc' = IF BatchEmpty THEN "stopped" ELSE "post"
  /\ UNCHANGED <<open, sent, taken, settled, attempt, backoffs, posted, givenUp>>

\* The batch is done with: back to collecting.
Settle ==
  /\ pc' = "collect"
  /\ settled' = taken
  /\ attempt' = 0 /\ backoffs' = <<>>

\* Mutant: an error of the request ends the attempts.
ReturnOnError(reached) ==
  /\ Settle
  /\ posted' = IF reached THEN Append(posted, Batch) ELSE posted
  /\ UNCHANGED <<open, sent, taken, givenUp>>

PostFails(reached) ==
  /\ posted' = IF reached THEN Append(posted, Batch) ELSE posted
  /\ IF attempt + 1 < Attempts
     THEN /\ pc' = "backoff"
          /\ attempt' = attempt + 1
          /\ UNCHANGED <<settled, backoffs, givenUp>>
     ELSE /\ Settle
          /\ givenUp' = givenUp \cup (settled + 1)..taken
  /\ UNCHANGED <<open, sent, taken>>

\* A success status: flush returns.
PostSucceeds ==
  /\ Settle
  /\ posted' = Append(posted, Batch)
  /\ UNCHANGED <<open, sent, taken, givenUp>>

Post ==
  /\ pc = "post"
  /\ PostSucceeds \/ \E reached \in BOOLEAN : PostFails(reached)

Backoff ==
  /\ pc = "backoff"
  /\ pc' = "post"
  /\ backoffs' = Append(backoffs, 2 ^ attempt)
  /\ UNCHANGED <<open, sent, taken, settled, attempt, posted, givenUp>>

\* The process exits: the runtime drops the worker's task wherever it is.
Kill ==
  /\ pc \notin {"stopped", "killed"}
  /\ pc' = "killed"
  /\ UNCHANGED <<open, sent, taken, settled, attempt, backoffs, posted, givenUp>>

Work == Collect \/ IntervalOver \/ ChannelClosed \/ Post \/ Backoff
Next == Send \/ DropSenders \/ Work \/ Kill

Spec == Init /\ [][Next]_vars
\* The worker's task is polled, its timers fire, a request returns within
\* its timeout of 5 seconds.
FairSpec == Spec /\ WF_vars(Work)

----------------------------------------------------------------------------

Received == UNION {posted[i][1]..posted[i][2] : i \in 1..Len(posted)}

\* An event the worker is done with has reached the receiver, or its batch
\* was dropped after all the attempts.
NoSilentLoss == \A e \in 1..settled : e \in Received \/ e \in givenUp

\* Every event sent is settled, unless the process ends first; events sent
\* just before the last sender is dropped are flushed as well.
EventuallySettled ==
  \A e \in 1..MaxEvents : sent >= e ~> (settled >= e \/ pc = "killed")

\* The worker keeps the contract: what the receiver sees of it, repeated
\* posts included, are the batches in the order of the queue, each at most
\* Attempts times and unchanged, and none with an event that was settled
\* before.  The variables sent, settled and posted are the contract's.
Contract == INSTANCE WebhookContract
ImplementsContract == Contract!Spec

\* "Failed deliveries are retried up to 3 times with exponential backoff
\* (2s, 4s, 8s)": a batch is dropped after these backoffs.
RetriesAsDocumented ==
  [][givenUp' # givenUp => backoffs = <<2, 4, 8>>]_vars

=============================================================================
