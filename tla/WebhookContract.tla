-------------------------- MODULE WebhookContract --------------------------
(***************************************************************************)
(* What the webhook worker promises to the receiver of an app's events:    *)
(* events are settled in the order in which they were sent; a batch may be *)
(* posted several times before it is settled, unchanged and not more often *)
(* than a number of attempts; an event that is settled is not posted again.*)
(*                                                                         *)
(* The receiver sees the sequence of posts, repeated ones included.        *)
(***************************************************************************)
EXTENDS Integers, Sequences

CONSTANT Attempts  \* posts of one batch, at most

VARIABLES sent,     \* events sent so far; they are numbered from 1
          settled,  \* events 1..settled are delivered or given up
          posted    \* the posts that reach the receiver, as <<first, last>>,
                    \* in the order in which they are made

contractVars == <<sent, settled, posted>>

Init == sent = 0 /\ settled = 0 /\ posted = <<>>

\* Earlier posts of the batch that comes next: it starts with the first event
\* that is not settled.
Repeated == {i \in DOMAIN posted : posted[i][1] = settled + 1}

\* The batch may end with this event: once posted, it does not change.
IsBatch(last) ==
  /\ last \in (settled + 1)..sent
  /\ \A i \in Repeated : posted[i][2] = last

\* Its posts follow one another: all are among the last Attempts posts.
PostBatch(last) ==
  /\ \A i \in Repeated : Len(posted) + 1 - i < Attempts
  /\ posted' = Append(posted, <<settled + 1, last>>)

Send ==
  /\ sent' = sent + 1
  /\ UNCHANGED <<settled, posted>>

\* A post reaches the receiver, but its answer does not come back.
Receive ==
  /\ \E last \in 1..sent : IsBatch(last) /\ PostBatch(last)
  /\ UNCHANGED <<sent, settled>>

\* The batch is given up.
Settle ==
  /\ \E last \in 1..sent : IsBatch(last) /\ settled' = last
  /\ UNCHANGED <<sent, posted>>

\* A post that is acknowledged settles its batch.
Deliver ==
  /\ \E last \in 1..sent : IsBatch(last) /\ PostBatch(last) /\ settled' = last
  /\ UNCHANGED sent

Next == Send \/ Receive \/ Settle \/ Deliver

Spec == Init /\ [][Next]_contractVars

=============================================================================
