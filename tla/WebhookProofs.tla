----------------------------- MODULE WebhookProofs -----------------------------
(***************************************************************************)
(* Proofs about WebhookWorker, for any number of attempts and of events:   *)
(* the worker implements WebhookContract, and an event it is done with was *)
(* received or given up.                                                   *)
(*                                                                         *)
(* The contract reads off the posts what has become of a batch.  PostsOK   *)
(* says that this agrees with what the worker remembers.                   *)
(***************************************************************************)
EXTENDS WebhookWorker, TLAPS

\* TypeOK without the backoffs, on which nothing below depends; and a batch
\* that is being posted is not empty.
Types ==
  /\ pc \in {"collect", "post", "backoff", "stopped", "killed"}
  /\ sent \in 0..MaxEvents /\ taken \in 0..sent /\ settled \in 0..taken
  /\ attempt \in 0..(Attempts - 1)
  /\ posted \in Seq((1..MaxEvents) \X (1..MaxEvents))
  /\ pc \in {"post", "backoff"} => ~ BatchEmpty

\* No post goes beyond what was collected; those of the batch in work carry
\* all of it, and from the first of them on there were no more posts than
\* attempts.
PostsOK ==
  /\ \A i \in DOMAIN posted : posted[i][1] <= posted[i][2] /\ posted[i][2] <= taken
  /\ \A i \in Contract!Repeated : posted[i][2] = taken
  /\ \A i \in Contract!Repeated : Len(posted) + 1 - i <= attempt
  /\ pc \in {"collect", "stopped"} => Contract!Repeated = {}

Inv == Types /\ PostsOK /\ NoSilentLoss

\* A batch that reaches the receiver adds its events to those received.
LEMMA ReceivedAppend ==
  ASSUME NEW P, posted \in Seq(P), NEW b, posted' = Append(posted, b)
  PROVE  Received' = Received \cup (b[1]..b[2])
<1>1. Len(posted') = Len(posted) + 1 /\ Len(posted) \in Nat
  OBVIOUS
<1>2. \A i \in 1..Len(posted) : posted'[i] = posted[i]
  OBVIOUS
<1>3. posted'[Len(posted) + 1] = b
  OBVIOUS
<1>4. 1..Len(posted') = 1..Len(posted) \cup {Len(posted) + 1}
  BY <1>1
<1>5. ASSUME NEW e PROVE e \in Received' <=> e \in Received \cup (b[1]..b[2])
  <2>1. e \in Received' <=> \E i \in 1..Len(posted') : e \in posted'[i][1]..posted'[i][2]
    BY DEF Received
  <2>2. e \in Received <=> \E i \in 1..Len(posted) : e \in posted[i][1]..posted[i][2]
    BY DEF Received
  <2> QED BY <1>2, <1>3, <1>4, <2>1, <2>2
<1> QED BY <1>5

\* The invariant holds initially.
LEMMA InitInv == Init => Inv
<1> SUFFICES ASSUME Init PROVE Inv
  OBVIOUS
<1>1. Types /\ NoSilentLoss
  BY AttemptsAssumption, EventsAssumption DEF Init, Types, BatchEmpty, NoSilentLoss
<1>2. DOMAIN posted = {} /\ Contract!Repeated = {}
  BY DEF Init, Contract!Repeated
<1>3. PostsOK
  BY <1>2 DEF Init, PostsOK
<1> QED BY <1>1, <1>3 DEF Inv

\* What an attempt may do, in the terms of the contract.
LEMMA PostSettles ==
  ASSUME Types, Post
  PROVE  /\ settled + 1 \in 1..MaxEvents /\ taken \in (settled + 1)..sent
         /\ posted' \in {posted, Append(posted, Batch)}
         /\ Received' \in {Received, Received \cup ((settled + 1)..taken)}
         /\ settled' \in {settled, taken}
         /\ UNCHANGED <<sent, taken, open>>
<1>1. settled + 1 \in 1..MaxEvents /\ taken \in (settled + 1)..sent
  <2>1. /\ sent \in Nat /\ taken \in Nat /\ settled \in Nat
        /\ sent <= MaxEvents /\ taken <= sent /\ settled <= taken
    BY EventsAssumption DEF Types
  <2>2. taken # settled
    BY DEF Post, Types, BatchEmpty
  <2> QED BY <2>1, <2>2, EventsAssumption
<1>2. posted' \in {posted, Append(posted, Batch)}
  BY DEF Post, PostSucceeds, PostFails
<1>3. Received' \in {Received, Received \cup ((settled + 1)..taken)}
  <2>1. CASE posted' = posted
    BY <2>1 DEF Received
  <2>2. CASE posted' = Append(posted, Batch)
    <3>1. Received' = Received \cup (Batch[1]..Batch[2])
      BY <2>2, ReceivedAppend DEF Types
    <3> QED BY <3>1 DEF Batch
  <2> QED BY <1>2, <2>1, <2>2
<1>4. settled' \in {settled, taken} /\ UNCHANGED <<sent, taken, open>>
  BY DEF Post, PostSucceeds, PostFails, Settle
<1> QED BY <1>1, <1>2, <1>3, <1>4

\* A post keeps the types and loses nothing, whether it succeeds, fails or is
\* the last.
LEMMA PostPreserves == ASSUME Inv, Post PROVE Types' /\ NoSilentLoss'
<1>1. Types
  BY DEF Inv
<1>2. posted' \in Seq((1..MaxEvents) \X (1..MaxEvents))
  <2>1. Batch \in (1..MaxEvents) \X (1..MaxEvents)
    <3>1. settled + 1 \in 1..MaxEvents /\ taken \in 1..MaxEvents
      BY <1>1, PostSettles, EventsAssumption DEF Types
    <3> QED BY <3>1 DEF Batch
  <2>2. posted' \in {posted, Append(posted, Batch)}
    BY <1>1, PostSettles
  <2>3. ASSUME NEW P, NEW q \in Seq(P), NEW b \in P PROVE Append(q, b) \in Seq(P)
    OBVIOUS
  <2>4. posted \in Seq((1..MaxEvents) \X (1..MaxEvents))
    BY <1>1 DEF Types
  <2>5. Append(posted, Batch) \in Seq((1..MaxEvents) \X (1..MaxEvents))
    BY <2>1, <2>3, <2>4
  <2> QED BY <2>2, <2>4, <2>5
<1>3. Types'
  <2>1. pc' \in {"collect", "backoff"} /\ attempt' \in 0..(Attempts - 1)
    BY <1>1, AttemptsAssumption DEF Post, PostSucceeds, PostFails, Settle, Types
  <2>2. pc' = "backoff" => settled' = settled
    BY DEF Post, PostSucceeds, PostFails, Settle
  <2> QED BY <1>1, <1>2, <2>1, <2>2, PostSettles DEF Types, BatchEmpty
<1>4. NoSilentLoss'
  <2>1. Received \subseteq Received' /\ givenUp \subseteq givenUp'
    BY <1>1, PostSettles DEF Post, PostSucceeds, PostFails
  <2>2. CASE settled' = settled
    BY <2>1, <2>2 DEF Inv, NoSilentLoss
  <2>4. \A e \in 1..taken : e \in 1..settled \/ e \in (settled + 1)..taken
    BY <1>1, EventsAssumption DEF Types
  <2>3. CASE settled' = taken /\ settled' # settled
    <3>1. CASE PostSucceeds
      <4>1. posted' = Append(posted, Batch)
        BY <3>1 DEF PostSucceeds
      <4>2. Received' = Received \cup (Batch[1]..Batch[2])
        BY <1>1, <4>1, ReceivedAppend DEF Types
      <4>3. Received' = Received \cup ((settled + 1)..taken)
        BY <4>2 DEF Batch
      <4> QED BY <2>1, <2>3, <4>3, <2>4 DEF Inv, NoSilentLoss
    <3>2. ASSUME NEW reached \in BOOLEAN, PostFails(reached) PROVE NoSilentLoss'
      <4>1. givenUp' = givenUp \cup (settled + 1)..taken
        BY <2>3, <3>2 DEF PostFails
      <4> QED BY <2>1, <2>3, <4>1, <2>4 DEF Inv, NoSilentLoss
    <3> QED BY <3>1, <3>2 DEF Post
  <2> QED BY <1>1, <2>2, <2>3, PostSettles
<1> QED BY <1>3, <1>4

\* What a post adds to those of the batch, and that a settled batch has none.
LEMMA PostKeepsPosts == ASSUME Inv, Post PROVE PostsOK'
<1> DEFINE R == Contract!Repeated
<1>1. Types /\ PostsOK
  BY DEF Inv
<1>2. /\ taken \in (settled + 1)..sent /\ settled \in Nat /\ taken \in Nat /\ taken' = taken
      /\ posted' \in {posted, Append(posted, Batch)} /\ settled' \in {settled, taken}
  BY <1>1, PostSettles, EventsAssumption DEF Types
<1>3. /\ Len(posted) \in Nat /\ DOMAIN posted = 1..Len(posted)
      /\ \A i \in DOMAIN posted : posted[i][1] \in Nat /\ posted[i][2] \in Nat
  BY <1>1, EventsAssumption DEF Types
<1>4. \/ /\ posted' = posted
      \/ /\ DOMAIN posted' = DOMAIN posted \cup {Len(posted) + 1} /\ Len(posted) + 1 \notin DOMAIN posted
         /\ \A i \in DOMAIN posted : posted'[i] = posted[i]
         /\ posted'[Len(posted) + 1] = Batch
  <2>1. CASE posted' = Append(posted, Batch)
    <3>1. DOMAIN posted' = 1..(Len(posted) + 1)
      BY <1>1, <2>1 DEF Types
    <3>2. /\ \A i \in DOMAIN posted : posted'[i] = posted[i]
          /\ posted'[Len(posted) + 1] = Batch
      BY <1>1, <2>1 DEF Types
    <3> QED BY <1>3, <3>1, <3>2
  <2> QED BY <1>2, <2>1
<1>5. Batch[1] = settled + 1 /\ Batch[2] = taken
  BY DEF Batch
<1>6. \A i \in DOMAIN posted' :
        /\ posted'[i][1] \in Nat /\ posted'[i][2] \in Nat
        /\ posted'[i][1] <= posted'[i][2] /\ posted'[i][2] <= taken
  BY <1>1, <1>2, <1>3, <1>4, <1>5 DEF PostsOK
<1>7. CASE settled' = taken
  <2>1. \A i \in DOMAIN posted' : posted'[i][1] # settled' + 1
    BY <1>2, <1>6, <1>7
  <2>2. R' = {}
    BY <2>1 DEF Contract!Repeated
  <2> QED BY <1>2, <1>6, <2>2 DEF PostsOK
<1>8. CASE settled' # taken
  <2>1. settled' = settled /\ pc' = "backoff" /\ attempt' = attempt + 1
    BY <1>2, <1>8 DEF Post, PostSucceeds, PostFails, Settle
  <2>2. \A i \in R' : posted'[i][2] = taken
    BY <1>1, <1>4, <1>5, <2>1 DEF PostsOK, Contract!Repeated
  <2>3. ASSUME NEW i \in R' PROVE Len(posted') + 1 - i <= attempt'
    <3>1. attempt \in Nat /\ i \in DOMAIN posted'
      BY <1>1, AttemptsAssumption DEF Types, Contract!Repeated
    <3>2. i \in DOMAIN posted => i \in R /\ i \in Nat /\ Len(posted) + 1 - i <= attempt
      BY <1>1, <1>3, <1>4, <2>1 DEF PostsOK, Contract!Repeated
    <3>3. Len(posted') \in {Len(posted), Len(posted) + 1}
      BY <1>1, <1>2 DEF Types
    <3> QED BY <1>3, <1>4, <2>1, <3>1, <3>2, <3>3
  <2> QED BY <1>2, <1>6, <2>1, <2>2, <2>3 DEF PostsOK
<1> QED BY <1>7, <1>8

\* The other steps post and settle nothing.
LEMMA OthersPreserve ==
  ASSUME Inv, Send \/ DropSenders \/ Collect \/ IntervalOver \/ ChannelClosed \/ Backoff \/ Kill
  PROVE  Inv'
<1>1. Types'
  BY EventsAssumption DEF Inv, Types, BatchEmpty, QueueEmpty, Send, DropSenders, Collect, IntervalOver,
                          ChannelClosed, Backoff, Kill
<1>2. UNCHANGED <<settled, posted, givenUp, attempt>>
  BY DEF Send, DropSenders, Collect, IntervalOver, ChannelClosed, Backoff, Kill
<1>3. Contract!Repeated' = Contract!Repeated
  BY <1>2 DEF Contract!Repeated
\* While events are collected the next batch has not been posted.
<1>4. PostsOK'
  <2>1. Types /\ PostsOK
    BY DEF Inv
  <2>2. /\ pc' \in {"collect", "stopped"} => pc \in {"collect", "stopped"}
        /\ taken' = taken \/ (taken' = taken + 1 /\ pc = "collect")
    BY DEF Send, DropSenders, Collect, IntervalOver, ChannelClosed, Backoff, Kill
  <2>3. taken \in Nat /\ \A i \in DOMAIN posted : posted[i][2] \in Nat
    BY <2>1, EventsAssumption DEF Types
  <2>4. \A i \in DOMAIN posted : posted[i][2] <= taken'
    BY <2>1, <2>2, <2>3 DEF PostsOK
  <2>5. \A i \in Contract!Repeated : posted[i][2] = taken'
    BY <2>1, <2>2 DEF PostsOK
  <2> QED BY <1>2, <1>3, <2>1, <2>2, <2>4, <2>5 DEF PostsOK
<1> QED BY <1>1, <1>2, <1>4 DEF Inv, NoSilentLoss, Received

\* No event is lost silently, in every reachable state.
THEOREM WorkerInvariant == Spec => []Inv
<1>1. Inv /\ [Next]_vars => Inv'
  <2> SUFFICES ASSUME Inv, [Next]_vars PROVE Inv'
    OBVIOUS
  <2>1. CASE UNCHANGED vars
    BY <2>1 DEF vars, Inv, Types, BatchEmpty, PostsOK, Contract!Repeated, NoSilentLoss, Received
  <2>2. CASE Next
    <3>1. CASE Post
      BY <3>1, PostPreserves, PostKeepsPosts DEF Inv
    <3> QED BY <2>2, <3>1, OthersPreserve DEF Next, Work
  <2> QED BY <2>1, <2>2
<1> QED BY InitInv, <1>1, PTL DEF Spec

\* Whatever fails and whenever the senders go, an event the worker is done
\* with was received or belongs to a batch dropped after all its attempts.
THEOREM NothingLostSilently == Spec => []NoSilentLoss
<1>1. Inv => NoSilentLoss
  BY DEF Inv
<1> QED BY <1>1, WorkerInvariant, PTL

----------------------------------------------------------------------------
(* The refinement *)

\* The initial states are initial states of the contract.
LEMMA InitRefines == Init => Contract!Init
  BY DEF Init, Contract!Init

\* A post is a step of the contract or a stutter: the batch is what was posted
\* before, and an attempt is left for it.
LEMMA PostRefines == ASSUME Inv, Post PROVE Contract!Next \/ UNCHANGED <<sent, settled, posted>>
<1>1. /\ Types /\ PostsOK
      /\ taken \in (settled + 1)..sent /\ UNCHANGED sent
      /\ posted' \in {posted, Append(posted, Batch)} /\ settled' \in {settled, taken}
  BY PostSettles DEF Inv
<1>2. taken \in 1..sent /\ settled \in Nat /\ sent \in Nat
  BY <1>1, EventsAssumption DEF Types
<1>3. Contract!IsBatch(taken)
  BY <1>1 DEF PostsOK, Contract!IsBatch
<1>4. \A i \in Contract!Repeated : Len(posted) + 1 - i < Attempts
  <2>1. attempt \in Nat /\ attempt < Attempts /\ Attempts \in Nat /\ Len(posted) \in Nat
    BY <1>1, AttemptsAssumption DEF Types
  <2>2. \A i \in Contract!Repeated : i \in Nat /\ Len(posted) + 1 - i <= attempt
    BY <1>1 DEF PostsOK, Types, Contract!Repeated
  <2> QED BY <2>1, <2>2
<1>5. CASE posted' = posted
  BY <1>1, <1>2, <1>3, <1>5 DEF Contract!Next, Contract!Settle
<1>6. CASE posted' = Append(posted, Batch)
  <2>1. Contract!PostBatch(taken)
    BY <1>4, <1>6 DEF Contract!PostBatch, Batch
  <2>2. CASE settled' = settled
    BY <1>1, <1>2, <1>3, <2>1, <2>2 DEF Contract!Next, Contract!Receive
  <2>3. CASE settled' = taken
    BY <1>1, <1>2, <1>3, <2>1, <2>3 DEF Contract!Next, Contract!Deliver
  <2> QED BY <1>1, <2>2, <2>3
<1> QED BY <1>1, <1>5, <1>6

\* So are the others: every step is one of the contract or a stutter.
LEMMA StepRefines == Inv /\ [Next]_vars => [Contract!Next]_(Contract!contractVars)
<1> SUFFICES ASSUME Inv, [Next]_vars PROVE Contract!Next \/ UNCHANGED <<sent, settled, posted>>
  BY DEF Contract!contractVars
<1>1. CASE Post
  BY <1>1, PostRefines
<1>2. CASE Send
  BY <1>2 DEF Send, Contract!Next, Contract!Send
<1>3. CASE DropSenders \/ Collect \/ IntervalOver \/ ChannelClosed \/ Backoff \/ Kill
  BY <1>3 DEF DropSenders, Collect, IntervalOver, ChannelClosed, Backoff, Kill
<1>4. CASE UNCHANGED vars
  BY <1>4 DEF vars
<1> QED BY <1>1, <1>2, <1>3, <1>4 DEF Next, Work

\* The worker keeps the contract: the receiver gets the batches in the order
\* in which the events were sent, each unchanged and at most Attempts times,
\* and no post carries an event that was settled before it was made.
THEOREM WorkerImplementsContract == Spec => ImplementsContract
<1>1. Spec => Contract!Spec
  BY InitRefines, StepRefines, WorkerInvariant, PTL DEF Spec, Contract!Spec
<1> QED BY <1>1 DEF ImplementsContract

=============================================================================
