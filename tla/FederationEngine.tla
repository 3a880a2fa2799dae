-------------------------- MODULE FederationEngine --------------------------
(***************************************************************************)
(* The life of the engine process (engine_main.py): start, the threads that *)
(* use the three RabbitMQ connections of OtsRmqBus, and shutdown through    *)
(* the one stop_event they share.                                           *)
(*   - the main thread connects, starts the manager, consumes the firehose, *)
(*     and takes everything down;                                           *)
(*   - EudGroupCacheSub consumes the 'groups' exchange;                     *)
(*   - FedBridgeDrain publishes what peers sent.                            *)
(* A connection may be lost at any time and a reconnect may fail.  What is  *)
(* published is in OtsRelay; here an event is the number of messages it is  *)
(* published in, none for a directed event that reaches nobody.  The        *)
(* database answers the queries of the main thread.                         *)
(*                                                                          *)
(* A signal is handled in the main thread between two of its steps.         *)
(* Event.set() holds a lock that is not reentrant: a handler that runs      *)
(* while the main thread is inside set(), or inside another handler, waits  *)
(* for it for ever.                                                         *)
(***************************************************************************)
EXTENDS Naturals

CONSTANTS
  Threshold,    \* pub_fail_threshold
  MaxMessages,  \* bound on the messages of one event
  MaxSignals    \* bound on the signals the process is sent

ASSUME EngineAssumption ==
  Threshold \in Nat \ {0} /\ MaxMessages \in Nat \ {0} /\ MaxSignals \in Nat

VARIABLES
  main,        \* where the main thread is
  exit_code,
  stop,        \* stop_event is set
  signals,     \* signals received so far
  handling,    \* a signal handler is inside set()
  wedged,      \* a handler waits for a lock of its own thread
  pub, sub, grp,   \* the connections: "none", "open" or "dead"
  ref,         \* the bus knows the stop event
  fails,       \* _pub_fail_count
  drain,       \* where the drain thread is
  left,        \* messages of the event in hand
  groups,      \* where the groups thread is
  polling,     \* a worker of the inbound server polls a stream nobody can end
  early        \* history: a reconnect failed before the bus knew the stop event

vars == <<main, exit_code, stop, signals, handling, wedged, pub, sub, grp, ref, fails, drain, left,
          groups, polling, early>>

Init ==
  /\ main = "connect" /\ exit_code = 0
  /\ stop = FALSE /\ signals = 0 /\ handling = FALSE /\ wedged = FALSE
  /\ pub = "none" /\ sub = "none" /\ grp = "none"
  /\ ref = FALSE /\ fails = 0
  /\ drain = "off" /\ left = 0 /\ groups = "off"
  /\ polling = FALSE /\ early = FALSE

\* The main thread takes a step of its own, from a to b.
Main(a, b) == ~handling /\ ~wedged /\ main = a /\ main' = b
-----------------------------------------------------------------------------
(* The environment.                                                        *)

LoseConnection ==
  /\ \/ pub = "open" /\ pub' = "dead" /\ UNCHANGED <<sub, grp>>
     \/ sub = "open" /\ sub' = "dead" /\ UNCHANGED <<pub, grp>>
     \/ grp = "open" /\ grp' = "dead" /\ UNCHANGED <<pub, sub>>
  /\ UNCHANGED <<main, exit_code, stop, signals, handling, wedged, ref, fails, drain, left,
                 groups, polling, early>>

\* SIGTERM or SIGINT.  It may find the lock of stop_event taken by the thread it interrupts.
Signal ==
  /\ main # "gone" /\ ~wedged /\ signals < MaxSignals
  /\ signals' = signals + 1
  /\ \/ ~handling /\ main # "set" /\ handling' = TRUE /\ UNCHANGED wedged
     \/ (handling \/ main = "set") /\ wedged' = TRUE /\ UNCHANGED handling
  /\ UNCHANGED <<main, exit_code, stop, pub, sub, grp, ref, fails, drain, left,
                 groups, polling, early>>

_sigterm_handler ==
  /\ handling /\ ~wedged
  /\ stop' = TRUE /\ handling' = FALSE
  /\ UNCHANGED <<main, exit_code, signals, wedged, pub, sub, grp, ref, fails, drain, left,
                 groups, polling, early>>

\* A stranger hangs up before its handler has added the completion callback: the handler
\* polls a link that is in no table (FederationServer).
LateHangUp ==
  /\ main \in {"spawn", "consume", "run", "set"} /\ ~polling
  /\ polling' = TRUE
  /\ UNCHANGED <<main, exit_code, stop, signals, handling, wedged, pub, sub, grp, ref,
                 fails, drain, left,
                 groups, early>>
-----------------------------------------------------------------------------
(* The main thread: start.                                                 *)

\* bus.connect() opens all three, or raises and the process exits.
Connect ==
  /\ \/ /\ Main("connect", "start")
        /\ pub' = "open" /\ sub' = "open" /\ grp' = "open"
        /\ UNCHANGED exit_code
     \/ /\ Main("connect", "exit")
        /\ exit_code' = 1
        /\ UNCHANGED <<pub, sub, grp>>
  /\ UNCHANGED <<stop, signals, handling, wedged, ref, fails, drain, left, groups, polling,
                 early>>

\* manager.start() starts a thread for each peer and then the inbound server.  When that
\* raises, the bus is closed and the process exits with the threads of the peers.
Start ==
  /\ \/ Main("start", "spawn") /\ UNCHANGED <<pub, sub, grp, exit_code>>
     \/ /\ Main("start", "exit")
        /\ pub' = "none" /\ sub' = "none" /\ grp' = "none"
        /\ exit_code' = 1
  /\ UNCHANGED <<stop, signals, handling, wedged, ref, fails, drain, left, groups, polling,
                 early>>

\* The groups thread and the drain thread are started.
Spawn ==
  /\ Main("spawn", "consume")
  /\ groups' = "run" /\ drain' = "select"
  /\ UNCHANGED <<exit_code, stop, signals, handling, wedged, pub, sub, grp, ref, fails,
                 left, polling, early>>

\* start_consuming hands the stop event to the bus and starts to consume.
start_consuming ==
  /\ IF sub = "open"
     THEN Main("consume", "run") /\ UNCHANGED exit_code
     ELSE Main("consume", "set") /\ exit_code' = 1
  /\ ref' = TRUE
  /\ UNCHANGED <<stop, signals, handling, wedged, pub, sub, grp, fails, drain, left,
                 groups, polling, early>>

\* Its loop ends when the event is set, or with an exception of the connection.
Run ==
  /\ \/ stop /\ Main("run", "set") /\ UNCHANGED exit_code
     \/ ~stop /\ sub # "open" /\ Main("run", "set") /\ exit_code' = 1
  /\ UNCHANGED <<stop, signals, handling, wedged, pub, sub, grp, ref, fails, drain, left,
                 groups, polling, early>>
-----------------------------------------------------------------------------
(* The main thread: shutdown.                                              *)

\* finally: stop_event.set().
SetStop ==
  /\ Main("set", "manager")
  /\ stop' = TRUE
  /\ UNCHANGED <<exit_code, signals, handling, wedged, pub, sub, grp, ref, fails, drain, left,
                 groups, polling, early>>

\* manager.stop() waits for the server, the links and the peers' threads, each for a bounded
\* time, and closes the bridge.
StopManager ==
  /\ Main("manager", "join")
  /\ UNCHANGED <<exit_code, stop, signals, handling, wedged, pub, sub, grp, ref, fails,
                 drain, left,
                 groups, polling, early>>

\* bridge_thread.join(timeout) returns whether or not the thread has ended.
JoinDrain ==
  /\ Main("join", "close")
  /\ UNCHANGED <<exit_code, stop, signals, handling, wedged, pub, sub, grp, ref, fails,
                 drain, left,
                 groups, polling, early>>

\* bus.close() does not take the publisher's lock.
CloseBus ==
  /\ Main("close", "exit")
  /\ pub' = "none" /\ sub' = "none" /\ grp' = "none"
  /\ UNCHANGED <<exit_code, stop, signals, handling, wedged, ref, fails, drain, left,
                 groups, polling, early>>

\* The process is gone when the interpreter has joined the workers of the server's pool.
\* The other threads are daemons.
Exit ==
  /\ ~polling
  /\ Main("exit", "gone")
  /\ drain' = "off" /\ groups' = "off"
  /\ UNCHANGED <<exit_code, stop, signals, handling, wedged, pub, sub, grp, ref, fails,
                 left, polling, early>>
-----------------------------------------------------------------------------
(* EudGroupCacheSub.                                                       *)

\* Mutant: the loop ends without a word.
M_GroupsLoop ==
  /\ groups = "run" /\ (stop \/ grp # "open")
  /\ groups' = "done"
  /\ UNCHANGED <<main, exit_code, stop, signals, handling, wedged, pub, sub, grp, ref,
                 fails, drain, left,
                 polling, early>>

\* _groups_subscribe_loop ends with the event, and sets it when the connection fails.
GroupsLoop ==
  /\ groups = "run" /\ (stop \/ grp # "open")
  /\ groups' = "done"
  /\ stop' = (stop \/ grp # "open")
  /\ UNCHANGED <<main, exit_code, signals, handling, wedged, pub, sub, grp, ref, fails,
                 drain, left,
                 polling, early>>
-----------------------------------------------------------------------------
(* FedBridgeDrain: _bridge_drain_loop and inject.                          *)

Drain(a, b) == drain = a /\ drain' = b

\* The event is looked at between two drains only.
Select ==
  /\ Drain("select", IF stop THEN "done" ELSE "pop")
  /\ UNCHANGED <<main, exit_code, stop, signals, handling, wedged, pub, sub, grp, ref,
                 fails, left,
                 groups, polling, early>>

\* The next event, if any: it is dropped when there is no channel, and published otherwise.
Pop ==
  /\ \/ Drain("pop", "select") /\ UNCHANGED left
     \/ pub = "none" /\ Drain("pop", "dropped") /\ UNCHANGED left
     \/ /\ pub # "none"
        /\ \E k \in 0..MaxMessages :
             Drain("pop", IF k = 0 THEN "void" ELSE "publish") /\ left' = k
  /\ UNCHANGED <<main, exit_code, stop, signals, handling, wedged, pub, sub, grp, ref, fails,
                 groups, polling, early>>

Dropped ==
  /\ Drain("dropped", "pop")
  /\ UNCHANGED <<main, exit_code, stop, signals, handling, wedged, pub, sub, grp, ref,
                 fails, left,
                 groups, polling, early>>

\* basic_publish, once for each message; a failure leaves the rest unpublished.
Publish ==
  /\ IF pub = "open"
     THEN Drain("publish", IF left = 1 THEN "done1" ELSE "publish") /\ left' = left - 1
     ELSE Drain("publish", "failed") /\ left' = 0
  /\ UNCHANGED <<main, exit_code, stop, signals, handling, wedged, pub, sub, grp, ref, fails,
                 groups, polling, early>>

\* The counter is reset, also when there was nothing to publish.
Succeed ==
  /\ \/ Drain("done1", "pop") \/ Drain("void", "pop")
  /\ fails' = 0
  /\ UNCHANGED <<main, exit_code, stop, signals, handling, wedged, pub, sub, grp, ref, left,
                 groups, polling, early>>

\* Mutant: the counter is never high enough.
M_Fail ==
  /\ Drain("failed", "pop") /\ fails' = (fails + 1) % Threshold
  /\ UNCHANGED <<main, exit_code, stop, signals, handling, wedged, pub, sub, grp, ref, left,
                 groups, polling, early>>

\* The counter goes up; at the threshold the connection is replaced.
Fail ==
  /\ \/ fails + 1 < Threshold /\ Drain("failed", "pop") /\ fails' = fails + 1
     \/ fails + 1 >= Threshold /\ Drain("failed", "reconnect") /\ fails' = fails + 1
  /\ UNCHANGED <<main, exit_code, stop, signals, handling, wedged, pub, sub, grp, ref, left,
                 groups, polling, early>>

\* _reconnect_pub.
_reconnect_pub ==
  /\ \/ Drain("reconnect", "pop") /\ pub' = "open" /\ fails' = 0
     \/ Drain("reconnect", "give_up") /\ pub' = "none" /\ UNCHANGED fails
  /\ UNCHANGED <<main, exit_code, stop, signals, handling, wedged, sub, grp, ref, left,
                 groups, polling, early>>

\* Mutant: the engine is left running without its publisher.
M_GiveUp ==
  /\ Drain("give_up", "pop")
  /\ early' = (early \/ ~ref)
  /\ UNCHANGED <<main, exit_code, stop, signals, handling, wedged, pub, sub, grp, ref,
                 fails, left,
                 groups, polling>>

\* The stop event is set, if the bus knows it by now.
GiveUp ==
  /\ Drain("give_up", "pop")
  /\ stop' = (stop \/ ref)
  /\ early' = (early \/ ~ref)
  /\ UNCHANGED <<main, exit_code, signals, handling, wedged, pub, sub, grp, ref, fails, left,
                 groups, polling>>
-----------------------------------------------------------------------------
MainStep ==
  \/ Connect \/ Start \/ Spawn \/ start_consuming \/ Run
  \/ SetStop \/ StopManager \/ JoinDrain \/ CloseBus \/ Exit
  \/ _sigterm_handler

DrainStep ==
  Select \/ Pop \/ Dropped \/ Publish \/ Succeed \/ Fail \/ _reconnect_pub \/ GiveUp

Next == LoseConnection \/ Signal \/ LateHangUp \/ MainStep \/ GroupsLoop \/ DrainStep

Spec == Init /\ [][Next]_vars

\* The three threads go on: every wait of theirs has a time-out.
FairSpec == Spec /\ WF_vars(MainStep) /\ WF_vars(GroupsLoop) /\ WF_vars(DrainStep)
-----------------------------------------------------------------------------
(* Properties.                                                             *)

Link == {"none", "open", "dead"}

Flags ==
  /\ stop \in BOOLEAN /\ handling \in BOOLEAN /\ wedged \in BOOLEAN
  /\ ref \in BOOLEAN /\ polling \in BOOLEAN /\ early \in BOOLEAN

Places ==
  /\ main \in {"connect", "start", "spawn", "consume", "run", "set",
               "manager", "join", "close", "exit", "gone"}
  /\ exit_code \in {0, 1}
  /\ signals \in 0..MaxSignals
  /\ pub \in Link /\ sub \in Link /\ grp \in Link
  /\ fails \in 0..Threshold
  /\ drain \in {"off", "select", "pop", "dropped", "void", "publish", "done1",
                "failed", "reconnect", "give_up", "done"}
  /\ left \in 0..MaxMessages
  /\ groups \in {"off", "run", "done"}

TypeOK == Flags /\ Places

\* ENDS.  An engine that is told to stop, or has lost a connection it consumes from, exits:
\* whichever thread notices, and whatever the others are doing.  It stays only if a signal
\* interrupted set(), or if a worker of the server polls a stream nobody can end.
Ends ==
  (stop \/ sub = "dead" \/ grp = "dead") ~> (main = "gone" \/ wedged \/ polling)

\* NOT MUTE.  An engine that has given its publishing connection up does not go on
\* consuming: it has been told to stop, unless the reconnect failed before the bus knew
\* whom to tell.
NotMute == (main = "run" /\ pub = "none" /\ drain # "give_up") => stop \/ early

\* RECOVERS.  A publisher that keeps failing gets a new connection, time and again, unless
\* directed events that reach nobody keep resetting the count.
Recovers ==
  ([]<>(drain = "failed") /\ <>[](drain # "void")) => []<>(pub = "open")
=============================================================================
