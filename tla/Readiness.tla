----------------------------- MODULE Readiness -----------------------------
(***************************************************************************)
(* Readiness of one node with the Redis adapter                            *)
(* (src/adapter/redis/pubsub.rs): the listener task subscribes, reads and  *)
(* reconnects; every subscription spawns a discovery task, which sets the  *)
(* readiness flag if the generation is still the one it captured.          *)
(*                                                                         *)
(* A discovery task is named by the attempt that spawned it.  Every load   *)
(* and store of the two atomics is a step of its own; they are taken in    *)
(* program order (the code uses Relaxed, which allows more).               *)
(***************************************************************************)
EXTENDS Integers

CONSTANT MaxAttempts   \* bound: connection attempts of the listener

ASSUME AttemptsAssumption == MaxAttempts \in Nat \ {0}

VARIABLES listener,     \* where the listener task is
          attempt,      \* connection attempts begun
          subscribed,   \* the readiness flag
          generation,
          task,         \* state of the discovery task of each attempt
          captured,     \* the generation it captured
          discovered    \* attempts whose discovery waited for the answers

vars == <<listener, attempt, subscribed, generation, task, captured, discovered>>

Attempts == 1..MaxAttempts

\* "start": top of the loop; "bump": flag cleared, generation not yet bumped;
\* "subscribing", "announcing": in subscribe_loop, before and after its three
\* SUBSCRIBEs; "reading": in its message loop;
\* "failed": it returned an error; "rebump": flag cleared again, generation
\* not yet; "sleeping": waiting to reconnect.
ListenerStates ==
  {"start", "bump", "subscribing", "announcing", "reading", "failed", "rebump",
   "sleeping"}

\* "load": discover_peers returned; "store": the generation matched.
TaskStates == {"none", "discovering", "load", "store", "done"}

TypeOK ==
  /\ listener \in ListenerStates
  /\ attempt \in 0..MaxAttempts
  /\ subscribed \in BOOLEAN
  /\ generation \in 0..(2 * MaxAttempts)
  /\ task \in [Attempts -> TaskStates]
  /\ captured \in [Attempts -> 0..(2 * MaxAttempts)]
  /\ discovered \subseteq Attempts

Init ==
  /\ listener = "start"
  /\ attempt = 0
  /\ subscribed = FALSE
  /\ generation = 0
  /\ task = [a \in Attempts |-> "none"]
  /\ captured = [a \in Attempts |-> 0]
  /\ discovered = {}

TaskVars == <<task, captured, discovered>>

----------------------------------------------------------------------------
(* The listener task *)

ClearFlag ==
  /\ listener = "start"
  /\ attempt < MaxAttempts
  /\ attempt' = attempt + 1
  /\ subscribed' = FALSE
  /\ listener' = "bump"
  /\ UNCHANGED <<generation, TaskVars>>

Bump ==
  /\ listener = "bump"
  /\ generation' = generation + 1
  /\ listener' = "subscribing"
  /\ UNCHANGED <<attempt, subscribed, TaskVars>>

\* Connecting or one of the three SUBSCRIBEs fails.
SubscribeFails ==
  /\ listener = "subscribing"
  /\ listener' = "failed"
  /\ UNCHANGED <<attempt, subscribed, generation, TaskVars>>

Subscribe ==
  /\ listener = "subscribing"
  /\ listener' = "announcing"
  /\ UNCHANGED <<attempt, subscribed, generation, TaskVars>>

\* Mutant: the generation captured is the one before the bump.
CapturePrevious ==
  /\ listener = "announcing"
  /\ captured' = [captured EXCEPT ![attempt] = generation - 1]
  /\ task' = [task EXCEPT ![attempt] = "discovering"]
  /\ listener' = "reading"
  /\ UNCHANGED <<attempt, subscribed, generation, discovered>>

\* The announce heartbeat is sent, or fails; then the discovery task is
\* spawned and the message loop entered.
Announce ==
  /\ listener = "announcing"
  /\ captured' = [captured EXCEPT ![attempt] = generation]
  /\ task' = [task EXCEPT ![attempt] = "discovering"]
  /\ listener' = "reading"
  /\ UNCHANGED <<attempt, subscribed, generation, discovered>>

\* Mutant: subscribe_loop bumps the generation itself before it returns.
StreamEndsBumping ==
  /\ listener = "reading"
  /\ listener' = "failed"
  /\ generation' = generation + 1
  /\ UNCHANGED <<attempt, subscribed, TaskVars>>

\* The stream ends, or nothing arrives for SUBSCRIBER_TIMEOUT.
StreamEnds ==
  /\ listener = "reading"
  /\ listener' = "failed"
  /\ UNCHANGED <<attempt, subscribed, generation, TaskVars>>

ClearFlagAfterFailure ==
  /\ listener = "failed"
  /\ subscribed' = FALSE
  /\ listener' = "rebump"
  /\ UNCHANGED <<attempt, generation, TaskVars>>

\* Mutant: the generation is only bumped at the top of the loop.
SleepAtOnce ==
  /\ listener = "rebump"
  /\ listener' = "sleeping"
  /\ UNCHANGED <<attempt, subscribed, generation, TaskVars>>

BumpAfterFailure ==
  /\ listener = "rebump"
  /\ generation' = generation + 1
  /\ listener' = "sleeping"
  /\ UNCHANGED <<attempt, subscribed, TaskVars>>

Wake ==
  /\ listener = "sleeping"
  /\ listener' = "start"
  /\ UNCHANGED <<attempt, subscribed, generation, TaskVars>>

----------------------------------------------------------------------------
(* The discovery task of attempt a *)

MoveTask(a, from, to) ==
  /\ task[a] = from
  /\ task' = [task EXCEPT ![a] = to]

\* The request was published and request_timeout has passed.
DiscoveryEnds(a) ==
  /\ MoveTask(a, "discovering", "load")
  /\ discovered' = discovered \cup {a}
  /\ UNCHANGED <<listener, attempt, subscribed, generation, captured>>

\* The publish failed: discover_peers returns 0.
DiscoveryFails(a) ==
  /\ MoveTask(a, "discovering", "load")
  /\ UNCHANGED <<listener, attempt, subscribed, generation, captured, discovered>>

LoadGeneration(a) ==
  /\ MoveTask(a, "load", IF generation = captured[a] THEN "store" ELSE "done")
  /\ UNCHANGED <<listener, attempt, subscribed, generation, captured, discovered>>

StoreReady(a) ==
  /\ MoveTask(a, "store", "done")
  /\ subscribed' = TRUE
  /\ UNCHANGED <<listener, attempt, generation, captured, discovered>>

ListenerStep ==
  \/ ClearFlag \/ Bump \/ Subscribe \/ Announce
  \/ ClearFlagAfterFailure \/ BumpAfterFailure \/ Wake

TaskStep(a) ==
  DiscoveryEnds(a) \/ DiscoveryFails(a) \/ LoadGeneration(a) \/ StoreReady(a)

Next ==
  \/ ListenerStep \/ SubscribeFails \/ StreamEnds
  \/ \E a \in Attempts : TaskStep(a)

Spec == Init /\ [][Next]_vars

\* A spawned task runs to its end: publish fails or the wait times out.
FairSpec == Spec /\ WF_vars(ListenerStep) /\ \A a \in Attempts : WF_vars(TaskStep(a))

----------------------------------------------------------------------------

\* The check can only succeed for the task of the running connection: while a
\* task has not loaded the generation, a match means that the listener has
\* not bumped since it spawned the task (pubsub.rs:358-362: "any in-flight
\* discovery task from this generation cannot flip subscribed back to true
\* during the sleep window").
MatchMeansConnected ==
  \A a \in Attempts :
    /\ task[a] \in {"discovering", "load"}
    /\ captured[a] = generation
    => a = attempt /\ listener \in {"reading", "failed", "rebump"}

\* A node whose connection stays up becomes ready and stays ready, however
\* many attempts and left-over tasks came before (pubsub.rs:415-426).
ReadinessRecovers == <>[](listener = "reading") => <>[]subscribed

\* Only the task of the running connection sets the flag ("Stale peer
\* discovery tasks from previous connections cannot flip the readiness flag",
\* README.md:668).  The load and the store are two steps.
StaleTaskNeverFlips ==
  [][~subscribed /\ subscribed'
     => listener \in {"reading", "failed", "rebump"} /\ task[attempt] = "store"]_vars

\* A node that is ready has discovered its peers on the connection it reads
\* ("until Redis subscriptions are established and peer discovery is
\* complete", README.md:462).
ReadyMeansDiscovered ==
  subscribed /\ listener = "reading" => \E a \in discovered : a = attempt

=============================================================================
