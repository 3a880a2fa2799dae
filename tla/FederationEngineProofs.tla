----------------------- MODULE FederationEngineProofs -----------------------
(***************************************************************************)
(* The engine process and the plugin that supervises it.  The engine never  *)
(* goes on without its publisher, for any threshold, any number of messages *)
(* and of signals; the plugin never has two engines, for any restart budget.*)
(* The two components have no state in common.                              *)
(***************************************************************************)
EXTENDS FederationEngine, PluginSupervisor, TLAPS

\* The failure counter exceeds no threshold: at the threshold the drain thread replaces the
\* connection, or has none and publishes nothing any more.
Counted ==
  /\ fails = Threshold =>
       \/ drain \in {"reconnect", "give_up", "off"}
       \/ pub = "none" /\ drain \in {"select", "pop", "dropped", "done"}
  /\ drain = "give_up" => pub = "none"
  /\ drain = "publish" => left # 0
  /\ main \in {"connect", "start", "spawn"} => drain = "off" /\ fails = 0

\* From connect() on, a connection is missing only if giving it up was followed by a stop.
Told ==
  main \in {"start", "spawn", "consume", "run"} /\ pub = "none" =>
    drain = "give_up" \/ stop \/ early

Placed == Places /\ Counted /\ Told

IInv == Flags /\ Placed

LEMMA InitIInv == Init => IInv
<1> SUFFICES ASSUME Init PROVE IInv
  OBVIOUS
<1>1. Flags
  BY Zenon DEF Init, Flags
<1>2. Placed
  BY EngineAssumption DEF Init, Placed, Places, Link, Counted, Told
<1> QED
  BY <1>1, <1>2 DEF IInv

LEMMA FlagsNext == Flags /\ [Next]_vars => Flags'
<1> SUFFICES ASSUME Flags, [Next]_vars PROVE Flags'
  OBVIOUS
<1> USE DEF Flags
<1>1. CASE LoseConnection \/ Signal \/ LateHangUp
  BY <1>1, Zenon DEF LoseConnection, Signal, LateHangUp
<1>2. CASE Connect \/ Start \/ Spawn \/ start_consuming \/ Run
  BY <1>2, Zenon DEF Connect, Start, Spawn, start_consuming, Run
<1>3. CASE SetStop \/ StopManager \/ JoinDrain \/ CloseBus \/ Exit \/ _sigterm_handler
  BY <1>3, Zenon DEF SetStop, StopManager, JoinDrain, CloseBus, Exit, _sigterm_handler
<1>4. CASE GroupsLoop
  BY <1>4, Zenon DEF GroupsLoop
<1>5. CASE Select \/ Pop \/ Dropped \/ Publish \/ Succeed \/ Fail \/ _reconnect_pub
  BY <1>5, Zenon DEF Select, Pop, Dropped, Publish, Succeed, Fail, _reconnect_pub
<1>6. CASE GiveUp
  BY <1>6, Zenon DEF GiveUp
<1>7. CASE UNCHANGED vars
  BY <1>7, Zenon DEF vars
<1> QED
  BY <1>1, <1>2, <1>3, <1>4, <1>5, <1>6, <1>7, Zenon DEF Next, MainStep, DrainStep

LEMMA EnvironmentKeeps ==
  ASSUME Placed, LoseConnection \/ Signal \/ LateHangUp PROVE Placed'
<1> USE EngineAssumption DEF Placed, Places, Link, Counted, Told
<1>1. CASE LoseConnection
  BY <1>1 DEF LoseConnection
<1>2. CASE Signal
  BY <1>2 DEF Signal
<1>3. CASE LateHangUp
  BY <1>3 DEF LateHangUp
<1> QED
  BY <1>1, <1>2, <1>3

LEMMA MainKeeps == ASSUME Placed, MainStep PROVE Placed'
<1> USE EngineAssumption DEF Placed, Places, Link, Counted, Told, Main
<1>1. CASE Connect
  BY <1>1 DEF Connect
<1>2. CASE Start
  BY <1>2 DEF Start
<1>3. CASE Spawn
  BY <1>3 DEF Spawn
<1>4. CASE start_consuming
  BY <1>4 DEF start_consuming
<1>5. CASE Run
  BY <1>5 DEF Run
<1>6. CASE SetStop
  BY <1>6 DEF SetStop
<1>7. CASE StopManager
  BY <1>7 DEF StopManager
<1>8. CASE JoinDrain
  BY <1>8 DEF JoinDrain
<1>9. CASE CloseBus
  BY <1>9 DEF CloseBus
<1>10. CASE Exit
  BY <1>10 DEF Exit
<1>11. CASE _sigterm_handler
  BY <1>11 DEF _sigterm_handler
<1> QED
  BY <1>1, <1>2, <1>3, <1>4, <1>5, <1>6, <1>7, <1>8, <1>9, <1>10, <1>11 DEF MainStep

LEMMA GroupsKeeps == ASSUME Placed, GroupsLoop PROVE Placed'
<1>1. stop => stop'
  BY Zenon DEF GroupsLoop
<1>2. /\ groups' = "done"
      /\ UNCHANGED <<main, exit_code, signals, pub, sub, grp, fails, drain, left, early>>
  BY Zenon DEF GroupsLoop
<1> QED
  BY <1>1, <1>2 DEF Placed, Places, Counted, Told

LEMMA DrainKeeps == ASSUME Placed, DrainStep PROVE Placed'
<1> USE EngineAssumption DEF Placed, Places, Link, Counted, Told, Drain
<1>1. CASE Select
  BY <1>1 DEF Select
<1>2. CASE Pop
  BY <1>2 DEF Pop
<1>3. CASE Dropped
  BY <1>3 DEF Dropped
<1>4. CASE Publish
  BY <1>4 DEF Publish
<1>5. CASE Succeed
  BY <1>5 DEF Succeed
<1>6. CASE Fail
  BY <1>6 DEF Fail
<1>7. CASE _reconnect_pub
  BY <1>7 DEF _reconnect_pub
<1>8. CASE GiveUp
  <2>1. stop' \/ early'
    BY <1>8, Zenon DEF GiveUp
  <2>2. /\ drain = "give_up" /\ drain' = "pop"
        /\ UNCHANGED <<main, exit_code, signals, pub, sub, grp, fails, left, groups>>
    BY <1>8, Zenon DEF GiveUp
  <2> QED
    BY <2>1, <2>2
<1> QED
  BY <1>1, <1>2, <1>3, <1>4, <1>5, <1>6, <1>7, <1>8 DEF DrainStep

LEMMA NextIInv == IInv /\ [Next]_vars => IInv'
<1> SUFFICES ASSUME IInv, [Next]_vars PROVE IInv'
  OBVIOUS
<1>1. CASE UNCHANGED vars
  <2>1. Placed'
    BY <1>1 DEF vars, IInv, Placed, Places, Counted, Told
  <2> QED
    BY <2>1, FlagsNext DEF IInv
<1> QED
  BY <1>1, FlagsNext, EnvironmentKeeps, MainKeeps, GroupsKeeps, DrainKeeps DEF Next, IInv

LEMMA Invariance == Spec => []IInv
  BY InitIInv, NextIInv, PTL DEF Spec

\* TypeOK holds for every threshold: the counter of failed publishes stops at it.
THEOREM TypeCorrect == Spec => []TypeOK
<1>1. IInv => TypeOK
  BY DEF IInv, Placed, TypeOK
<1> QED
  BY <1>1, Invariance, PTL

\* When _reconnect_pub gives up, inject has set the stop event before the main thread is
\* seen consuming without a publisher, unless the bus did not know the event yet.
THEOREM NeverMute == Spec => []NotMute
<1>1. IInv => NotMute
  BY DEF IInv, Placed, Told, NotMute
<1> QED
  BY <1>1, Invariance, PTL
-----------------------------------------------------------------------------
(* The plugin.  The invariant numbers engines: only the one spawned last can *)
(* be running or be tracked, and while the watchdog backs off there is none  *)
(* to track.                                                                 *)

Budget == Len(engine) <= _restart_count + (IF watchdog = "backoff" THEN 0 ELSE 1)

\* Only the engine spawned last may run or be tracked.
LastOnly ==
  /\ \A e \in DOMAIN engine : e # Len(engine) => Exited(e)
  /\ _proc # NoEngine => _proc = Len(engine)

\* Before activate, and during a back-off, no engine runs.
NoneRuns ==
  /\ host = "new" => engine = <<>> /\ watchdog = "idle" /\ ~job
  /\ watchdog = "backoff" => _proc = NoEngine /\ \A e \in DOMAIN engine : Exited(e)

\* What stop() may rely on while it waits.
Target ==
  /\ host = "waiting" => target # NoEngine /\ (Exited(target) \/ _proc = target)
  /\ host \in {"active", "removed", "new"} => target = NoEngine
  /\ host = "stopped" /\ target # NoEngine => Exited(target)

PluginIInv == PluginTypeOK /\ Budget /\ LastOnly /\ NoneRuns /\ Target

LEMMA PluginIInvInit == PluginInit => PluginIInv
<1> SUFFICES ASSUME PluginInit PROVE PluginIInv
  OBVIOUS
<1>1. job \in BOOLEAN /\ failed \in BOOLEAN
  BY Zenon DEF PluginInit
<1>2. PluginTypeOK
  BY <1>1, RestartAssumption DEF PluginInit, PluginTypeOK
<1> QED
  BY <1>2, RestartAssumption DEF PluginInit, PluginIInv, Budget, LastOnly, NoneRuns, Target

\* A spawn from a state without a running engine.
LEMMA SpawnKeeps ==
  ASSUME PluginTypeOK, _spawn_engine, \A e \in DOMAIN engine : Exited(e),
         Len(engine) <= MAX_RESTART_COUNT, _proc = NoEngine
  PROVE  /\ engine' \in Seq({"running", "exited"})
         /\ Len(engine') <= Len(engine) + 1
         /\ _proc' \in DOMAIN engine' \cup {NoEngine}
         /\ failed' \in BOOLEAN
         /\ LastOnly'
         /\ \A e \in DOMAIN engine : Exited(e)' /\ e \in DOMAIN engine'
<1>1. CASE engine' = Append(engine, "running") /\ _proc' = Len(engine') /\ UNCHANGED failed
  BY <1>1, RestartAssumption DEF PluginTypeOK, LastOnly, Exited
<1>2. CASE failed' = TRUE /\ UNCHANGED <<engine, _proc>>
  <2>1. failed' \in BOOLEAN
    BY <1>2, Zenon
  <2> QED
    BY <1>2, <2>1 DEF PluginTypeOK, LastOnly, Exited
<1> QED
  BY <1>1, <1>2 DEF _spawn_engine

LEMMA PluginIInvNext == PluginIInv /\ [PluginNext]_plugin_vars => PluginIInv'
<1> SUFFICES ASSUME PluginIInv, [PluginNext]_plugin_vars PROVE PluginIInv'
  OBVIOUS
<1> USE RestartAssumption
<1>1. CASE activate
  <2>1. engine = <<>> /\ watchdog = "idle" /\ ~job /\ host = "new" /\ _restart_count \in Nat
    BY <1>1 DEF activate, PluginIInv, NoneRuns, PluginTypeOK
  <2>2. _proc = NoEngine /\ target = NoEngine
    BY <2>1 DEF PluginIInv, PluginTypeOK, Target
  <2>3. job' \in BOOLEAN
    BY <1>1, Zenon DEF activate, PluginIInv, PluginTypeOK
  <2>4. CASE _spawn_engine
    <3>1. /\ engine' \in Seq({"running", "exited"}) /\ Len(engine') <= 1
          /\ _proc' \in DOMAIN engine' \cup {NoEngine} /\ failed' \in BOOLEAN /\ LastOnly'
      BY <2>1, <2>2, <2>4, SpawnKeeps DEF PluginIInv
    <3> QED
      BY <1>1, <2>1, <2>2, <2>3, <3>1
      DEF activate, PluginIInv, PluginTypeOK, Budget, NoneRuns, Target
  <2>5. CASE UNCHANGED <<engine, _proc, failed, job>>
    BY <1>1, <2>1, <2>2, <2>5
    DEF activate, PluginIInv, PluginTypeOK, Budget, LastOnly, NoneRuns, Target, Exited
  <2> QED
    BY <1>1, <2>4, <2>5 DEF activate
<1>2. CASE RemoveJob
  <2>1. job' \in BOOLEAN
    BY <1>2, Zenon DEF RemoveJob
  <2> QED
    BY <1>2, <2>1
    DEF RemoveJob, PluginIInv, PluginTypeOK, Budget, LastOnly, NoneRuns, Target, Exited
<1>3. CASE Terminate
  BY <1>3 DEF Terminate, PluginIInv, PluginTypeOK, Budget, LastOnly, NoneRuns, Target, Exited
<1>4. CASE Finish
  <2>1. CASE Exited(target) /\ UNCHANGED engine
    BY <1>4, <2>1 DEF Finish, PluginIInv, PluginTypeOK, Budget, LastOnly, NoneRuns, Target, Exited
  <2>2. CASE ~Exited(target) /\ engine' = [engine EXCEPT ![_proc] = "exited"]
    <3>1. _proc = target /\ target \in DOMAIN engine
      BY <1>4, <2>2 DEF Finish, PluginIInv, Target, PluginTypeOK
    <3> QED
      BY <1>4, <2>2, <3>1
      DEF Finish, PluginIInv, PluginTypeOK, Budget, LastOnly, NoneRuns, Target, Exited
  <2> QED
    BY <1>4, <2>1, <2>2 DEF Finish
<1>5. CASE Trigger
  BY <1>5 DEF Trigger, PluginIInv, PluginTypeOK, Budget, LastOnly, NoneRuns, Target, Exited
<1>6. CASE Poll
  BY <1>6
  DEF Poll, Dead, GivesUp, PluginIInv, PluginTypeOK, Budget, LastOnly, NoneRuns, Target, Exited
<1>7. CASE Respawn
  <2>1. /\ _proc = NoEngine /\ \A e \in DOMAIN engine : Exited(e)
        /\ Len(engine) <= _restart_count /\ _restart_count <= MAX_RESTART_COUNT
        /\ host # "new" /\ target \in DOMAIN engine \cup {NoEngine}
    BY <1>7 DEF Respawn, PluginIInv, NoneRuns, Budget, PluginTypeOK
  <2>2. /\ engine' \in Seq({"running", "exited"}) /\ Len(engine') <= Len(engine) + 1
        /\ _proc' \in DOMAIN engine' \cup {NoEngine} /\ failed' \in BOOLEAN /\ LastOnly'
        /\ \A e \in DOMAIN engine : Exited(e)' /\ e \in DOMAIN engine'
    <3>1. PluginTypeOK /\ _spawn_engine /\ Len(engine) <= MAX_RESTART_COUNT
      BY <1>7, <2>1 DEF Respawn, PluginIInv, PluginTypeOK
    <3> QED
      BY <2>1, <3>1, SpawnKeeps
  <2> QED
    BY <1>7, <2>1, <2>2 DEF Respawn, PluginIInv, PluginTypeOK, Budget, NoneRuns, Target
<1>8. ASSUME NEW e \in DOMAIN engine, EngineExits(e) PROVE PluginIInv'
  BY <1>8 DEF EngineExits, PluginIInv, PluginTypeOK, Budget, LastOnly, NoneRuns, Target, Exited
<1>9. CASE UNCHANGED plugin_vars
  BY <1>9 DEF plugin_vars, PluginIInv, PluginTypeOK, Budget, LastOnly, NoneRuns, Target, Exited
<1> QED
  BY <1>1, <1>2, <1>3, <1>4, <1>5, <1>6, <1>7, <1>8, <1>9 DEF PluginNext

LEMMA PluginInvariance == PluginSpec => []PluginIInv
  BY PluginIInvInit, PluginIInvNext, PTL DEF PluginSpec

\* PluginTypeOK holds for every restart budget: engine_main is started at most once and
\* MAX_RESTART_COUNT times again, counting starts that race with stop().
THEOREM PluginTypeCorrect == PluginSpec => []PluginTypeOK
<1>1. PluginIInv => PluginTypeOK
  BY DEF PluginIInv
<1> QED
  BY <1>1, PluginInvariance, PTL

\* _watchdog, activate and stop never have two engines running at the same time.
THEOREM OneEngineAtATime == PluginSpec => []OneEngine
<1>1. PluginIInv => OneEngine
  BY DEF PluginIInv, LastOnly, OneEngine, Running
<1> QED
  BY <1>1, PluginInvariance, PTL

\* The engine stop() signalled is gone when it returns.
THEOREM StopIsFinal == PluginSpec => []StopEndsTarget
<1>1. PluginIInv => StopEndsTarget
  BY DEF PluginIInv, Target, StopEndsTarget
<1> QED
  BY <1>1, PluginInvariance, PTL
=============================================================================
