----------------------------- MODULE ServerProofs -----------------------------
(***************************************************************************)
(* Proofs about Server, for any finite number of connections, any apps and *)
(* any limits.                                                             *)
(*                                                                         *)
(* CountersMatchRegistry only speaks of moments when no connection is      *)
(* between two of its steps.  Counts says at every moment which tasks each *)
(* counter stands for; it holds until the process ends under a task.       *)
(***************************************************************************)
EXTENDS Server, FiniteSetTheorems, TLAPS

\* The tasks counted in connected, those of an app counted in appConnected,
\* and those of an app that are registered.
Connected ==
  {s \in Slots : pc[s] \in {"counted", "greeting", "failed", "open", "closing", "uncounting"}}
AppConnected(a) ==
  {s \in Slots : /\ app[s] = a
                 /\ pc[s] \in {"greeting", "failed", "open", "closing", "uncounting",
                               "appUncounting"}}
Registered(a) ==
  {s \in Slots : /\ app[s] = a
                 /\ pc[s] \in {"admitted", "counted", "greeting", "failed", "open", "closing"}}

Counts ==
  /\ connected = Cardinality(Connected)
  /\ \A a \in Apps : /\ appConnected[a] = Cardinality(AppConnected(a))
                     /\ registered[a] = Registered(a)

Dropped == \E s \in Slots : pc[s] = "dropped"

Inv ==
  /\ TypeOK
  /\ Dropped => phase = "stopped"
  /\ Dropped \/ Counts

\* One more and one less, for the sets above.
LEMMA CountUp ==
  ASSUME NEW S, IsFiniteSet(S), NEW s, s \notin S
  PROVE  Cardinality(S \cup {s}) = Cardinality(S) + 1 /\ Cardinality(S) \in Nat
  BY FS_AddElement, FS_CardinalityType

\* A task that leaves a set of places takes one off its cardinality.
LEMMA CountDown ==
  ASSUME NEW S, IsFiniteSet(S), NEW s \in S
  PROVE  Cardinality(S \ {s}) = Cardinality(S) - 1 /\ Cardinality(S) - 1 \in Nat
<1>1. IsFiniteSet(S \ {s}) /\ Cardinality(S \ {s}) = Cardinality(S) - 1
  BY FS_RemoveElement
<1>2. Cardinality(S \ {s}) \in Nat
  BY <1>1, FS_CardinalityType
<1> QED BY <1>1, <1>2

\* The sets of tasks that are counted are finite.
LEMMA FiniteTasks ==
  /\ IsFiniteSet(Connected)
  /\ \A a : IsFiniteSet(AppConnected(a))
<1>1. Connected \subseteq Slots /\ \A a : AppConnected(a) \subseteq Slots
  BY DEF Connected, AppConnected
<1> QED BY <1>1, SlotsAssumption, FS_Subset

\* The invariant holds initially.
LEMMA InitInv == Init => Inv
<1> SUFFICES ASSUME Init PROVE Inv
  OBVIOUS
<1>1. TypeOK
  <2>1. 0 \in 0..DrainTicks /\ 0 \in 0..MaxHttp
    BY ServerAssumption
  <2>2. app \in [Slots -> Apps]
    BY DEF Init
  <2> QED BY <2>1, <2>2 DEF Init, TypeOK, Pcs
<1>2. Connected = {} /\ \A a \in Apps : AppConnected(a) = {} /\ Registered(a) = {}
  BY DEF Init, Connected, AppConnected, Registered
<1>3. Counts
  BY <1>2, FS_EmptySet DEF Init, Counts
<1>4. ~ Dropped
  BY DEF Init, Dropped
<1> QED BY <1>1, <1>3, <1>4 DEF Inv

\* What a step of a task leaves of the invariant to show.
LEMMA RunningCounts ==
  ASSUME Inv, Running PROVE TypeOK /\ Counts /\ ~ Dropped
  BY DEF Inv, Running

\* Steps of a task that leave the two counters alone: what is registered
\* changes with the task's place.
LEMMA PlacePreserves ==
  ASSUME Inv, NEW s \in Slots,
         \/ \E a \in Apps : Connect(s, a)
         \/ CheckMemory(s) \/ Admit(s) \/ Greet(s)
         \/ RemoveFailed(s) \/ LoopEnds(s) \/ OnClose(s)
  PROVE  Inv'
<1>1. TypeOK /\ Counts /\ ~ Dropped
  BY RunningCounts DEF Connect, CheckMemory, Admit, Greet, RemoveFailed, LoopEnds, OnClose, Goto
<1>2. UNCHANGED <<countVars, timerVars, phaseVars, envVars>>
  BY DEF Connect, CheckMemory, Admit, Greet, RemoveFailed, LoopEnds, OnClose
<1>3. pc' \in [Slots -> Pcs] /\ app' \in [Slots -> Apps] /\ registered' \in [Apps -> SUBSET Slots]
  BY <1>1 DEF Connect, CheckMemory, Admit, Greet, RemoveFailed, LoopEnds, OnClose, Goto, Unregister,
              TypeOK, Pcs
<1>4. TypeOK'
  BY <1>1, <1>2, <1>3 DEF TypeOK, countVars, timerVars, phaseVars, envVars
<1>5. ~ Dropped'
  BY <1>1 DEF Dropped, Connect, CheckMemory, Admit, Greet, RemoveFailed, LoopEnds, OnClose, Goto,
              TypeOK
<1>6. Connected' = Connected /\ \A a \in Apps : AppConnected(a)' = AppConnected(a)
  BY <1>1 DEF Connected, AppConnected, Connect, CheckMemory, Admit, Greet, RemoveFailed, LoopEnds,
              OnClose, Goto, TypeOK
<1>7. \A a \in Apps : registered'[a] = Registered(a)'
  <2> USE <1>1 DEF TypeOK, Counts, Registered, Goto
  <2>1. CASE \E a \in Apps : Connect(s, a)
    BY <2>1 DEF Connect
  <2>2. CASE CheckMemory(s)
    BY <2>2 DEF CheckMemory
  <2>3. CASE Admit(s)
    BY <2>3 DEF Admit
  <2>4. CASE Greet(s)
    BY <2>4 DEF Greet
  <2>5. CASE LoopEnds(s)
    BY <2>5 DEF LoopEnds
  <2>6. CASE RemoveFailed(s) \/ OnClose(s)
    BY <2>6 DEF RemoveFailed, OnClose, Unregister
  <2> QED BY <2>1, <2>2, <2>3, <2>4, <2>5, <2>6
<1> QED BY <1>1, <1>2, <1>4, <1>5, <1>6, <1>7 DEF Inv, Counts, countVars

\* on_connect and on_disconnect, each in its two steps.
LEMMA CountersPreserve ==
  ASSUME Inv, NEW s \in Slots,
         CountConnect(s) \/ CountAppConnect(s) \/ CountDisconnect(s) \/ CountAppDisconnect(s)
  PROVE  Inv'
<1>1. TypeOK /\ Counts /\ ~ Dropped
  BY RunningCounts DEF CountConnect, CountAppConnect, CountDisconnect, CountAppDisconnect, Goto
<1>2. UNCHANGED <<app, registered, timerVars, phaseVars, envVars>>
  BY DEF CountConnect, CountAppConnect, CountDisconnect, CountAppDisconnect
<1>3. pc' \in [Slots -> Pcs] /\ ~ Dropped'
  BY <1>1 DEF CountConnect, CountAppConnect, CountDisconnect, CountAppDisconnect, Goto, TypeOK, Pcs,
              Dropped
<1>4. \A a \in Apps : Registered(a)' = Registered(a)
  BY <1>1, <1>2 DEF CountConnect, CountAppConnect, CountDisconnect, CountAppDisconnect, Goto, TypeOK,
                    Registered
<1>5. app[s] \in Apps
  BY <1>1 DEF TypeOK
<1>6. /\ connected' \in Nat /\ connected' = Cardinality(Connected')
      /\ appConnected' \in [Apps -> Nat]
      /\ \A a \in Apps : appConnected'[a] = Cardinality(AppConnected(a)')
  <2> DEFINE A == AppConnected(app[s])
  <2>1. CASE CountConnect(s)
    <3>1. Connected' = Connected \cup {s} /\ s \notin Connected
      BY <1>1, <2>1 DEF CountConnect, Goto, TypeOK, Connected
    <3>2. \A a \in Apps : AppConnected(a)' = AppConnected(a)
      BY <1>1, <2>1 DEF CountConnect, Goto, TypeOK, AppConnected
    <3> QED
      BY <1>1, <2>1, <3>1, <3>2, FiniteTasks, CountUp DEF CountConnect, Counts, TypeOK
  <2>2. CASE CountDisconnect(s)
    <3>1. Connected' = Connected \ {s} /\ s \in Connected
      BY <1>1, <2>2 DEF CountDisconnect, Goto, TypeOK, Connected
    <3>2. \A a \in Apps : AppConnected(a)' = AppConnected(a)
      BY <1>1, <2>2 DEF CountDisconnect, Goto, TypeOK, AppConnected
    <3> QED
      BY <1>1, <2>2, <3>1, <3>2, FiniteTasks, CountDown DEF CountDisconnect, Counts, TypeOK
  <2>3. CASE CountAppConnect(s)
    <3>1. AppConnected(app[s])' = A \cup {s} /\ s \notin A
      BY <1>1, <2>3 DEF CountAppConnect, Goto, TypeOK, AppConnected
    <3>2. \A a \in Apps \ {app[s]} : AppConnected(a)' = AppConnected(a)
      BY <1>1, <2>3 DEF CountAppConnect, Goto, TypeOK, AppConnected
    <3>3. Connected' = Connected
      BY <1>1, <2>3 DEF CountAppConnect, Goto, TypeOK, Connected
    <3>4. Cardinality(AppConnected(app[s])') = appConnected[app[s]] + 1
      BY <1>1, <1>5, <3>1, FiniteTasks, CountUp DEF Counts
    <3> QED BY <1>1, <1>5, <2>3, <3>2, <3>3, <3>4 DEF CountAppConnect, Counts, TypeOK
  <2>4. CASE CountAppDisconnect(s)
    <3>1. AppConnected(app[s])' = A \ {s} /\ s \in A
      BY <1>1, <2>4 DEF CountAppDisconnect, Goto, TypeOK, AppConnected
    <3>2. \A a \in Apps \ {app[s]} : AppConnected(a)' = AppConnected(a)
      BY <1>1, <2>4 DEF CountAppDisconnect, Goto, TypeOK, AppConnected
    <3>3. Connected' = Connected
      BY <1>1, <2>4 DEF CountAppDisconnect, Goto, TypeOK, Connected
    <3>4. /\ Cardinality(AppConnected(app[s])') = appConnected[app[s]] - 1
          /\ appConnected[app[s]] - 1 \in Nat
      BY <1>1, <1>5, <3>1, FiniteTasks, CountDown DEF Counts
    <3> QED BY <1>1, <1>5, <2>4, <3>2, <3>3, <3>4 DEF CountAppDisconnect, Counts, TypeOK
  <2> QED BY <2>1, <2>2, <2>3, <2>4
<1>7. TypeOK'
  BY <1>1, <1>2, <1>3, <1>6 DEF TypeOK, timerVars, phaseVars, envVars
<1> QED BY <1>1, <1>2, <1>3, <1>4, <1>6, <1>7 DEF Inv, Counts

\* The timer, the environment and the shutdown up to the exit touch neither a
\* task nor a counter.
LEMMA OthersPreserve ==
  ASSUME Inv, TimerStep \/ SampleMemory \/ SampleFails \/ HttpBegins \/ HttpEnds
              \/ MemoryChanges \/ Signal \/ DrainEnds
  PROVE  Inv'
<1>1. UNCHANGED <<connVars, countVars>> /\ phase # "stopped"
  BY DEF TimerStep, Elapse, Tick, Publish, SampleMemory, SampleFails, HttpBegins, HttpEnds,
         MemoryChanges, Signal, DrainEnds, Running
<1>2. TypeOK'
  <2>1. TypeOK
    BY DEF Inv
  <2>2. /\ usage' \in {"low", "high"} /\ cachedUsage' \in {"low", "high"}
        /\ metricsEnabled' \in BOOLEAN
        /\ timer' \in {"waiting", "due", "sampling", "publishing", "done"}
        /\ snapshot' \in BOOLEAN
        /\ phase' \in {"serving", "draining", "grace", "stopped"}
    BY <2>1 DEF TypeOK, TimerStep, Elapse, Tick, Publish, SampleMemory, SampleFails, HttpBegins,
                HttpEnds, MemoryChanges, Signal, DrainEnds, AfterSample, Closing, timerVars,
                phaseVars, envVars
  <2>3. elapsed' \in 0..DrainTicks /\ http' \in 0..MaxHttp
    BY <2>1, ServerAssumption DEF TypeOK, TimerStep, Elapse, Tick, Publish, SampleMemory, SampleFails,
                HttpBegins, HttpEnds, MemoryChanges, Signal, DrainEnds, phaseVars, envVars
  <2> QED BY <1>1, <2>1, <2>2, <2>3 DEF TypeOK, connVars, countVars
<1>3. Dropped' = Dropped /\ Counts' = Counts
  BY <1>1 DEF Dropped, Counts, Connected, AppConnected, Registered, connVars, countVars
<1>4. ~ Dropped
  BY <1>1 DEF Inv
<1> QED BY <1>2, <1>3, <1>4 DEF Inv

\* At the exit a task is dropped, or there was none and the counters are 0.
LEMMA ExitPreserves == ASSUME Inv, Exit, phase # "stopped" PROVE Inv'
<1>1. TypeOK'
  BY DEF Inv, TypeOK, Exit, Pcs, countVars, timerVars, envVars
<1>2. CASE \E s \in Slots : pc[s] # "none"
  <2>1. Dropped'
    BY <1>2 DEF Exit, Dropped
  <2> QED BY <1>1, <2>1 DEF Inv, Exit
<1>3. CASE \A s \in Slots : pc[s] = "none"
  <2>1. pc' = pc
    BY <1>3 DEF Exit, Inv, TypeOK
  <2>2. Counts' = Counts
    BY <2>1 DEF Exit, Counts, Connected, AppConnected, Registered, countVars
  <2> QED BY <1>1, <2>2 DEF Inv, Exit
<1> QED BY <1>2, <1>3

\* The invariant behind what follows.
THEOREM ServerInvariant == Spec => []Inv
<1>1. Inv /\ [Next]_vars => Inv'
  <2> SUFFICES ASSUME Inv, [Next]_vars PROVE Inv'
    OBVIOUS
  <2>1. CASE UNCHANGED vars
    BY <2>1 DEF vars, connVars, countVars, timerVars, phaseVars, envVars, Inv, TypeOK, Dropped, Counts,
                Connected, AppConnected, Registered
  <2>2. ASSUME NEW s \in Slots, TaskStep(s) PROVE Inv'
    BY <2>2, PlacePreserves, CountersPreserve DEF TaskStep
  <2>3. CASE Client
    BY <2>3, PlacePreserves, OthersPreserve DEF Client
  <2>4. CASE ShutdownStep
    BY <2>4, OthersPreserve, ExitPreserves DEF ShutdownStep, RequestsDone, GraceExpires
  <2>5. CASE TimerStep \/ SampleMemory \/ SampleFails \/ MemoryChanges \/ Signal
    BY <2>5, OthersPreserve
  <2> QED BY <2>1, <2>2, <2>3, <2>4, <2>5 DEF Next
<1> QED BY InitInv, <1>1, PTL DEF Spec

\* Type correctness: no counter ever falls below zero.
THEOREM TypeCorrect == Spec => []TypeOK
<1>1. Inv => TypeOK
  BY DEF Inv
<1> QED BY <1>1, ServerInvariant, PTL

\* When no task is between two of its steps, the counters agree with the
\* adapter's live connections, of every app and of all apps together.
THEOREM CountersMatch == Spec => []CountersMatchRegistry
<1>1. Inv => CountersMatchRegistry
  <2> SUFFICES ASSUME Inv, \A s \in Slots : pc[s] \in {"none", "open"}
               PROVE  /\ \A a \in Apps : appConnected[a] = Cardinality(registered[a])
                      /\ connected = Cardinality(UNION {registered[a] : a \in Apps})
    BY DEF CountersMatchRegistry
  <2>1. Counts /\ TypeOK
    BY DEF Inv, Dropped
  <2>2. \A a \in Apps : AppConnected(a) = registered[a]
    BY <2>1 DEF Counts, AppConnected, Registered
  <2>3. Connected = UNION {registered[a] : a \in Apps}
    BY <2>1 DEF Counts, Connected, Registered, TypeOK
  <2> QED BY <2>1, <2>2, <2>3 DEF Counts
<1> QED BY <1>1, ServerInvariant, PTL

=============================================================================
