-------------------------- MODULE PluginSupervisor --------------------------
(***************************************************************************)
(* The engine child process and the two actors that manage it (plugin.py):  *)
(* the host application, which activates the plugin once and later stops    *)
(* it, and the APScheduler watchdog job, which restarts an engine that has  *)
(* exited.  The scheduler runs one instance of the job at a time; removing  *)
(* the job does not recall a run that has been handed to the executor.      *)
(*                                                                          *)
(* Engines are numbered in the order they are spawned.  An engine may exit  *)
(* at any time and need not obey SIGTERM.                                   *)
(***************************************************************************)
EXTENDS Naturals, Sequences

CONSTANT
  MAX_RESTART_COUNT,
  NoEngine   \* None, as the value of _proc

ASSUME RestartAssumption == MAX_RESTART_COUNT \in Nat /\ NoEngine \notin Nat

VARIABLES
  engine,         \* engine number -> "running" or "exited"
  _proc,          \* the engine the plugin tracks
  _restart_count,
  job,            \* the watchdog job is scheduled
  watchdog,       \* where the watchdog is
  host,           \* where the host is
  target,         \* the engine stop() has sent SIGTERM to
  failed          \* history: a Popen has raised

plugin_vars == <<engine, _proc, _restart_count, job, watchdog, host, target, failed>>

PluginInit ==
  /\ engine = <<>> /\ _proc = NoEngine /\ _restart_count = 0
  /\ job = FALSE /\ watchdog = "idle"
  /\ host = "new" /\ target = NoEngine
  /\ failed = FALSE

Exited(e) == engine[e] = "exited"

\* Popen returns a new process, or raises and leaves _proc as it was.
_spawn_engine ==
  \/ /\ engine' = Append(engine, "running")
     /\ _proc' = Len(engine')
     /\ UNCHANGED failed
  \/ /\ failed' = TRUE
     /\ UNCHANGED <<engine, _proc>>
-----------------------------------------------------------------------------
(* The host.                                                               *)

\* activate, enabled or not, with or without a configuration file.  Registering the job
\* may fail too.
activate ==
  /\ host = "new" /\ host' = "active"
  /\ \/ _spawn_engine /\ job' \in BOOLEAN
     \/ UNCHANGED <<engine, _proc, failed, job>>
  /\ UNCHANGED <<_restart_count, watchdog, target>>

\* stop: cancel the watchdog ...
RemoveJob ==
  /\ host = "active" /\ host' = "removed"
  /\ job' = FALSE
  /\ UNCHANGED <<engine, _proc, _restart_count, watchdog, target, failed>>

\* ... return if no engine is tracked, or send SIGTERM ...
Terminate ==
  /\ host = "removed"
  /\ IF _proc = NoEngine
     THEN host' = "stopped" /\ UNCHANGED target
     ELSE host' = "waiting" /\ target' = _proc
  /\ UNCHANGED <<engine, _proc, _restart_count, job, watchdog, failed>>

\* Mutant: the time-out ends the wait without SIGKILL.
M_Finish ==
  /\ host = "waiting" /\ host' = "stopped"
  /\ _proc' = NoEngine
  /\ UNCHANGED <<engine, _restart_count, job, watchdog, target, failed>>

\* ... and wait for the engine; when the wait times out, SIGKILL the tracked engine, which
\* is still that one, since the watchdog gives up only an engine that has exited.
Finish ==
  /\ host = "waiting" /\ host' = "stopped"
  /\ \/ Exited(target) /\ UNCHANGED engine
     \/ ~Exited(target) /\ engine' = [engine EXCEPT ![_proc] = "exited"]
  /\ _proc' = NoEngine
  /\ UNCHANGED <<_restart_count, job, watchdog, target, failed>>
-----------------------------------------------------------------------------
(* The watchdog.                                                           *)

\* The scheduler hands a run of the job to its executor.
Trigger ==
  /\ job /\ watchdog = "idle" /\ watchdog' = "due"
  /\ UNCHANGED <<engine, _proc, _restart_count, job, host, target, failed>>

\* Mutant: one restart too many.
M_GivesUp == _restart_count > MAX_RESTART_COUNT

GivesUp == _restart_count >= MAX_RESTART_COUNT

\* Mutant: the exit status is not looked at.
M_Dead == _proc # NoEngine

\* poll() on the tracked engine.
Dead == _proc # NoEngine /\ Exited(_proc)

\* _watchdog as far as the back-off.
Poll ==
  /\ watchdog = "due"
  /\ IF Dead
     THEN /\ _proc' = NoEngine
          /\ IF GivesUp
             THEN watchdog' = "idle" /\ UNCHANGED _restart_count
             ELSE watchdog' = "backoff" /\ _restart_count' = _restart_count + 1
     ELSE watchdog' = "idle" /\ UNCHANGED <<_proc, _restart_count>>
  /\ UNCHANGED <<engine, job, host, target, failed>>

\* Mutant: the job ends with the back-off.
M_Respawn ==
  /\ watchdog = "backoff" /\ watchdog' = "idle"
  /\ UNCHANGED <<engine, _proc, _restart_count, job, host, target, failed>>

Respawn ==
  /\ watchdog = "backoff" /\ watchdog' = "idle"
  /\ _spawn_engine
  /\ UNCHANGED <<_restart_count, job, host, target>>
-----------------------------------------------------------------------------
EngineExits(e) ==
  /\ ~Exited(e)
  /\ engine' = [engine EXCEPT ![e] = "exited"]
  /\ UNCHANGED <<_proc, _restart_count, job, watchdog, host, target, failed>>

PluginNext ==
  \/ activate \/ RemoveJob \/ Terminate \/ Finish
  \/ Trigger \/ Poll \/ Respawn
  \/ \E e \in DOMAIN engine : EngineExits(e)

PluginSpec == PluginInit /\ [][PluginNext]_plugin_vars

\* The scheduler goes on triggering the job, a run of the job goes on, and stop() returns.
\* The host need not call anything and engines need not exit.
PluginFairness ==
  /\ WF_plugin_vars(Trigger)
  /\ WF_plugin_vars(Poll \/ Respawn)
  /\ WF_plugin_vars(Terminate \/ Finish)

PluginFairSpec == PluginSpec /\ PluginFairness
-----------------------------------------------------------------------------
(* Properties.                                                             *)

Running == {e \in DOMAIN engine : ~Exited(e)}

\* TYPE, and the restart budget: over its whole life the plugin starts the engine no more
\* often than once and MAX_RESTART_COUNT times again.
PluginTypeOK ==
  /\ engine \in Seq({"running", "exited"})
  /\ Len(engine) <= MAX_RESTART_COUNT + 1
  /\ _proc \in DOMAIN engine \cup {NoEngine}
  /\ _restart_count \in 0..MAX_RESTART_COUNT
  /\ job \in BOOLEAN
  /\ watchdog \in {"idle", "due", "backoff"}
  /\ host \in {"new", "active", "removed", "waiting", "stopped"}
  /\ target \in DOMAIN engine \cup {NoEngine}
  /\ failed \in BOOLEAN

\* ONE ENGINE.  However a stop, a watchdog run and exits interleave, two engines never run
\* at the same time: they would consume the same queues and federate under one identity.
OneEngine == \A d, e \in Running : d = e

\* STOPPED.  When stop() returns, the engine it signalled is gone, even one that ignored
\* SIGTERM, and even when a watchdog run gave that engine up meanwhile.
StopEndsTarget == (host = "stopped" /\ target # NoEngine) => Exited(target)

\* RESTARTED.  While the job is scheduled, an engine that has exited is replaced as long
\* as restarts are left, unless a Popen has raised.
Restarted ==
  \A e \in 1..MAX_RESTART_COUNT :
    (job /\ e = Len(engine) /\ Exited(e))
      ~> (e < Len(engine) \/ failed \/ ~job)
=============================================================================
