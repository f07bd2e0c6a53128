------------------------------- MODULE Server -------------------------------
(***************************************************************************)
(* The life of one server process (src/server.rs): admission of WebSocket  *)
(* connections (handle_socket and the frame of run_connection in           *)
(* src/websocket/mod.rs), the counters of src/metrics, the timer that      *)
(* samples memory and publishes the /stats snapshot, and the two-phase     *)
(* shutdown.                                                               *)
(*                                                                         *)
(* What a connection does between its greeting and its end is the subject  *)
(* of SocketTasks and ConnectionLoop; here a connection is a slot that is  *)
(* used again once its task has returned.  Two counters are kept, the      *)
(* global and the per-app number of connections; the totals move with them.*)
(***************************************************************************)
EXTENDS Integers, FiniteSets

CONSTANTS Slots,           \* bound: connections at the same time
          Apps,            \* ids of the enabled apps
          MaxConnections,  \* of every app: i64, negative = unlimited
          MaxHttp,         \* bound: HTTP requests in flight
          DrainTicks       \* shutdown_drain_period, in intervals of the timer

ASSUME ServerAssumption ==
  MaxConnections \in Int /\ MaxHttp \in Nat /\ DrainTicks \in Nat
ASSUME SlotsAssumption == IsFiniteSet(Slots)

VARIABLES pc,            \* where the task of each connection is
          app,           \* the app found for it
          registered,    \* app -> its connections in the adapter
          connected,     \* metrics.connected
          appConnected,  \* metrics.per_app[app].connected
          usage,         \* real memory usage: "low" or over the threshold
          cachedUsage,   \* memory_percent_bits
          metricsEnabled,
          timer,         \* the stats task, or the memory sampler
          snapshot,      \* cached_stats: whether it says that the server is closing
          phase,         \* of the process
          elapsed,       \* intervals of the drain period that have passed
          http           \* HTTP requests in flight

connVars   == <<pc, app, registered>>
countVars  == <<connected, appConnected>>
timerVars  == <<cachedUsage, timer, snapshot>>
phaseVars  == <<phase, elapsed>>
envVars    == <<usage, metricsEnabled, http>>
vars == <<connVars, countVars, timerVars, phaseVars, envVars>>

Pcs == {"none", "checked", "admitting", "admitted", "counted", "greeting", "failed",
        "open", "closing", "uncounting", "appUncounting", "dropped"}

TypeOK ==
  /\ pc \in [Slots -> Pcs]
  /\ app \in [Slots -> Apps]
  /\ registered \in [Apps -> SUBSET Slots]
  /\ connected \in Nat
  /\ appConnected \in [Apps -> Nat]
  /\ usage \in {"low", "high"} /\ cachedUsage \in {"low", "high"}
  /\ metricsEnabled \in BOOLEAN
  /\ timer \in {"waiting", "due", "sampling", "publishing", "done"}
  /\ snapshot \in BOOLEAN
  /\ phase \in {"serving", "draining", "grace", "stopped"}
  /\ elapsed \in 0..DrainTicks
  /\ http \in 0..MaxHttp

\* AppState::new_with_cache; interval.tick() completes at once the first time.
Init ==
  /\ pc = [s \in Slots |-> "none"]
  /\ app \in {[s \in Slots |-> a] : a \in Apps}
  /\ registered = [a \in Apps |-> {}]
  /\ connected = 0 /\ appConnected = [a \in Apps |-> 0]
  /\ usage \in {"low", "high"} /\ cachedUsage = "low"
  /\ metricsEnabled \in BOOLEAN
  /\ timer = "due"
  /\ snapshot = FALSE
  /\ phase = "serving" /\ elapsed = 0
  /\ http = 0

\* AppState::is_closing
Closing == phase # "serving"
Running == phase # "stopped"

----------------------------------------------------------------------------
(* A connection: handle_socket, run_connection *)

Goto(s, from, to) ==
  /\ Running
  /\ pc[s] = from
  /\ pc' = [pc EXCEPT ![s] = to]

\* The upgrade of a client whose key and origin are accepted, for an enabled
\* app.  All other clients are answered with an error frame and change nothing.
Connect(s, a) ==
  /\ ~ Closing
  /\ Goto(s, "none", "checked")
  /\ app' = [app EXCEPT ![s] = a]
  /\ UNCHANGED <<registered, countVars, timerVars, phaseVars, envVars>>

CheckMemory(s) ==
  /\ Goto(s, "checked", IF cachedUsage = "high" THEN "none" ELSE "admitting")
  /\ UNCHANGED <<app, registered, countVars, timerVars, phaseVars, envVars>>

HasRoom(a) == MaxConnections < 0 \/ Cardinality(registered[a]) < MaxConnections

Admit(s) ==
  LET a == app[s] IN
  /\ Goto(s, "admitting", IF HasRoom(a) THEN "admitted" ELSE "none")
  /\ registered' = IF HasRoom(a) THEN [registered EXCEPT ![a] = @ \cup {s}] ELSE registered
  /\ UNCHANGED <<app, countVars, timerVars, phaseVars, envVars>>

\* Metrics::on_connect: the global counter, then the one of the app
CountConnect(s) ==
  /\ Goto(s, "admitted", "counted")
  /\ connected' = connected + 1
  /\ UNCHANGED <<app, registered, appConnected, timerVars, phaseVars, envVars>>

CountAppConnect(s) ==
  /\ Goto(s, "counted", "greeting")
  /\ appConnected' = [appConnected EXCEPT ![app[s]] = @ + 1]
  /\ UNCHANGED <<app, registered, connected, timerVars, phaseVars, envVars>>

Greet(s) ==
  /\ \E to \in {"open", "failed"} : Goto(s, "greeting", to)
  /\ UNCHANGED <<app, registered, countVars, timerVars, phaseVars, envVars>>

Unregister(s) == registered' = [registered EXCEPT ![app[s]] = @ \ {s}]

\* Mutant: the early return without on_disconnect.
ReturnUncounted(s) ==
  /\ Goto(s, "failed", "none")
  /\ Unregister(s)
  /\ UNCHANGED <<app, countVars, timerVars, phaseVars, envVars>>

\* The greeting could not be sent: remove_socket, without on_close.
RemoveFailed(s) ==
  /\ Goto(s, "failed", "uncounting")
  /\ Unregister(s)
  /\ UNCHANGED <<app, countVars, timerVars, phaseVars, envVars>>

\* The connection loop ends; nothing in it looks at the closing flag.
LoopEnds(s) ==
  /\ Goto(s, "open", "closing")
  /\ UNCHANGED <<app, registered, countVars, timerVars, phaseVars, envVars>>

\* on_close, which ends with remove_socket
OnClose(s) ==
  /\ Goto(s, "closing", "uncounting")
  /\ Unregister(s)
  /\ UNCHANGED <<app, countVars, timerVars, phaseVars, envVars>>

\* Metrics::on_disconnect
CountDisconnect(s) ==
  /\ Goto(s, "uncounting", "appUncounting")
  /\ connected' = connected - 1
  /\ UNCHANGED <<app, registered, appConnected, timerVars, phaseVars, envVars>>

CountAppDisconnect(s) ==
  /\ Goto(s, "appUncounting", "none")
  /\ appConnected' = [appConnected EXCEPT ![app[s]] = @ - 1]
  /\ UNCHANGED <<app, registered, connected, timerVars, phaseVars, envVars>>

TaskStep(s) ==
  \/ CheckMemory(s) \/ Admit(s) \/ CountConnect(s) \/ CountAppConnect(s) \/ Greet(s)
  \/ RemoveFailed(s) \/ OnClose(s) \/ CountDisconnect(s) \/ CountAppDisconnect(s)

----------------------------------------------------------------------------
(* The stats task (metrics enabled), or the memory sampler (disabled) *)

\* Two seconds pass.  Computing a snapshot takes far less.
Elapse ==
  /\ Running
  /\ timer \in {"waiting", "done"}
  /\ timer' = IF timer = "waiting" THEN "due" ELSE "done"
  /\ elapsed' = IF phase = "draining" /\ elapsed < DrainTicks THEN elapsed + 1 ELSE elapsed
  /\ UNCHANGED <<connVars, countVars, cachedUsage, snapshot, phase, envVars>>

\* interval.tick() returns; both tasks end once the server is closing.
Tick ==
  /\ Running
  /\ timer = "due"
  /\ timer' = IF Closing THEN "done" ELSE "sampling"
  /\ UNCHANGED <<connVars, countVars, cachedUsage, snapshot, phaseVars, envVars>>

AfterSample == IF metricsEnabled THEN "publishing" ELSE "waiting"

\* Mutant: only the sampler task stores the sample.
SampleForSampler ==
  /\ Running
  /\ timer = "sampling"
  /\ cachedUsage' = IF metricsEnabled THEN cachedUsage ELSE usage
  /\ timer' = AfterSample
  /\ UNCHANGED <<connVars, countVars, snapshot, phaseVars, envVars>>

\* memory_usage_percent in spawn_blocking, then set_memory_percent
SampleMemory ==
  /\ Running
  /\ timer = "sampling"
  /\ cachedUsage' = usage
  /\ timer' = AfterSample
  /\ UNCHANGED <<connVars, countVars, snapshot, phaseVars, envVars>>

\* /proc could not be read, or the blocking task failed.
SampleFails ==
  /\ Running
  /\ timer = "sampling"
  /\ timer' = AfterSample
  /\ UNCHANGED <<connVars, countVars, cachedUsage, snapshot, phaseVars, envVars>>

\* The rest of compute_stats, of which only is_closing is kept, and
\* cached_stats_tx.send
Publish ==
  /\ Running
  /\ timer = "publishing"
  /\ snapshot' = Closing
  /\ timer' = "waiting"
  /\ UNCHANGED <<connVars, countVars, cachedUsage, phaseVars, envVars>>

TimerStep == Elapse \/ Tick \/ Publish

----------------------------------------------------------------------------
(* The environment, and the two-phase shutdown of server::run *)

MemoryChanges ==
  /\ Running
  /\ usage' \in {"low", "high"} \ {usage}
  /\ UNCHANGED <<connVars, countVars, timerVars, phaseVars, metricsEnabled, http>>

\* New requests are taken until graceful_shutdown; a client may keep one open.
HttpBegins ==
  /\ phase \in {"serving", "draining"} /\ http < MaxHttp
  /\ http' = http + 1
  /\ UNCHANGED <<connVars, countVars, timerVars, phaseVars, usage, metricsEnabled>>

HttpEnds ==
  /\ Running /\ http > 0
  /\ http' = http - 1
  /\ UNCHANGED <<connVars, countVars, timerVars, phaseVars, usage, metricsEnabled>>

\* SIGTERM or ctrl-c: set_closing, then the drain period
Signal ==
  /\ phase = "serving"
  /\ phase' = "draining"
  /\ UNCHANGED <<connVars, countVars, timerVars, elapsed, envVars>>

\* graceful_shutdown(Some(grace_period))
DrainEnds ==
  /\ phase = "draining" /\ elapsed = DrainTicks
  /\ phase' = "grace"
  /\ UNCHANGED <<connVars, countVars, timerVars, elapsed, envVars>>

\* serve returns, main returns and the runtime drops every task where it is.
\* An upgraded connection is not one the HTTP server waits for.
Exit ==
  /\ phase' = "stopped"
  /\ pc' = [s \in Slots |-> IF pc[s] = "none" THEN "none" ELSE "dropped"]
  /\ UNCHANGED <<app, registered, countVars, timerVars, elapsed, envVars>>

RequestsDone == phase = "grace" /\ http = 0 /\ Exit

\* Mutant: graceful_shutdown(None).
NoGraceLimit == phase = "grace" /\ http = 0 /\ Exit

GraceExpires == phase = "grace" /\ Exit

ShutdownStep == DrainEnds \/ RequestsDone \/ GraceExpires

----------------------------------------------------------------------------

Client ==
  \/ \E s \in Slots, a \in Apps : Connect(s, a)
  \/ \E s \in Slots : LoopEnds(s)
  \/ HttpBegins \/ HttpEnds

Next ==
  \/ \E s \in Slots : TaskStep(s)
  \/ TimerStep \/ SampleMemory \/ SampleFails
  \/ Client \/ MemoryChanges \/ Signal \/ ShutdownStep

Spec == Init /\ [][Next]_vars

\* The runtime polls tasks that can run and its timers fire; a sample that is
\* taken again and again succeeds at some point.
Fairness ==
  /\ \A s \in Slots : WF_vars(TaskStep(s))
  /\ WF_vars(TimerStep) /\ WF_vars(SampleMemory \/ SampleFails) /\ SF_vars(SampleMemory)
  /\ WF_vars(ShutdownStep)

FairSpec == Spec /\ Fairness

----------------------------------------------------------------------------

\* on_connect and on_disconnect bracket the registration on every path of
\* run_connection: when no task is between the two, /stats' "current" and
\* "connected" agree with the adapter's live connections.
CountersMatchRegistry ==
  (\A s \in Slots : pc[s] \in {"none", "open"}) =>
    /\ \A a \in Apps : appConnected[a] = Cardinality(registered[a])
    /\ connected = Cardinality(UNION {registered[a] : a \in Apps})

\* The threshold is tested against a sample: when usage stays high, sampling
\* catches up with it and from then on no connection gets past the test
\* (README.md:257), in either of the two timer tasks.
MemoryRefuses ==
  <>[](usage = "high") => <>[](\A s \in Slots : pc[s] # "admitting")

\* A signal ends the process, whatever the clients of open connections and of
\* requests in flight do (server.rs:137-155).
ServerStops == Closing ~> phase = "stopped"

----------------------------------------------------------------------------
(* What the documentation says and the code does not do *)

\* "Stats are computed every 2 seconds in a background task" (README.md:491):
\* after a drain period of several intervals the snapshot knows of it.
StatsKeepUp == metricsEnabled /\ phase \in {"grace", "stopped"} => snapshot

\* "configurable drain and grace periods to close connections cleanly"
\* (README.md:67): no connection is dropped without on_close.
ClosedCleanly == \A s \in Slots : pc[s] # "dropped"

=============================================================================
