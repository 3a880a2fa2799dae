-------------------------- MODULE FederationBridge --------------------------
(***************************************************************************)
(* The wakeup bridge between the gRPC side-threads and the application:     *)
(* FederationBridge (bridge.py) and the thread that drains it               *)
(* (engine_main._bridge_drain_loop).  An enqueue puts the event on a queue  *)
(* and then writes a byte to a socketpair; the drain thread selects on the  *)
(* socket, reads every byte it finds, and then pops until the queue is      *)
(* empty.  Each of these is a step, so that threads interleave between them. *)
(***************************************************************************)
EXTENDS Naturals, Sequences

CONSTANTS
  Thread,     \* gRPC side-threads that call enqueue
  Event,
  Capacity,   \* wakeup bytes the socketpair's buffer holds
  MaxPuts     \* BOUND: events enqueued

ASSUME CapacityAssumption == Capacity \in Nat \ {0}
ASSUME MaxPutsAssumption == MaxPuts \in Nat

VARIABLES
  inbound_q,  \* the queue.Queue
  bytes,      \* unread wakeup bytes
  closed,     \* the socketpair is closed
  stop,       \* the engine's stop_event
  waking,     \* threads between inbound_q.put and tx_fd.send
  drain,      \* where the drain thread is
  injected    \* history: events taken off the queue and passed to bus.inject

vars == <<inbound_q, bytes, closed, stop, waking, drain, injected>>

Init ==
  /\ inbound_q = <<>> /\ injected = <<>>
  /\ bytes = 0 /\ closed = FALSE
  /\ stop = FALSE
  /\ waking = {}
  /\ drain = "select"
-----------------------------------------------------------------------------
(* enqueue, on a side-thread.                                              *)
\* Mutant: a stack instead of a queue.
M_Put(t, e) ==
  /\ t \notin waking
  /\ Len(injected) + Len(inbound_q) < MaxPuts
  /\ inbound_q' = <<e>> \o inbound_q
  /\ waking' = waking \cup {t}
  /\ UNCHANGED <<bytes, closed, stop, drain, injected>>

Put(t, e) ==
  /\ t \notin waking
  /\ Len(injected) + Len(inbound_q) < MaxPuts
  /\ inbound_q' = Append(inbound_q, e)
  /\ waking' = waking \cup {t}
  /\ UNCHANGED <<bytes, closed, stop, drain, injected>>

\* send fails, and is ignored, when the buffer is full or the socket is closed.
Wake(t) ==
  /\ t \in waking
  /\ waking' = waking \ {t}
  /\ bytes' = IF closed \/ bytes = Capacity THEN bytes ELSE bytes + 1
  /\ UNCHANGED <<inbound_q, closed, stop, drain, injected>>
-----------------------------------------------------------------------------
(* The drain thread.                                                       *)

\* Mutant: select without a timeout.
M_Select ==
  /\ drain = "select" /\ bytes > 0
  /\ drain' = IF stop THEN "exited" ELSE "recv"
  /\ UNCHANGED <<inbound_q, bytes, closed, stop, waking, injected>>

\* The loop head and select together: nothing is read between them.  A select that
\* times out, or that raises because the socket is closed, returns to the loop head.
Select ==
  /\ drain = "select"
  /\ \/ stop /\ drain' = "exited"
     \/ ~stop /\ bytes > 0 /\ drain' = "recv"
  /\ UNCHANGED <<inbound_q, bytes, closed, stop, waking, injected>>

\* recv(4096) takes any number of the bytes there are; when there are none it raises
\* BlockingIOError, which ends the loop.  On a closed socket drain gives up.
Recv ==
  /\ drain = "recv"
  /\ \/ closed /\ drain' = "select" /\ UNCHANGED bytes
     \/ ~closed /\ bytes > 0 /\ bytes' \in 0..(bytes - 1) /\ UNCHANGED drain
     \/ ~closed /\ bytes = 0 /\ drain' = "pop" /\ UNCHANGED bytes
  /\ UNCHANGED <<inbound_q, closed, stop, waking, injected>>

\* Mutant: an exception raised by inject ends the drain.
M_Pop ==
  /\ drain = "pop"
  /\ \/ /\ inbound_q # <<>>
        /\ injected' = Append(injected, Head(inbound_q))
        /\ inbound_q' = Tail(inbound_q)
        /\ drain' \in {"pop", "select"}
     \/ /\ inbound_q = <<>>
        /\ drain' = "select"
        /\ UNCHANGED <<inbound_q, injected>>
  /\ UNCHANGED <<bytes, closed, stop, waking>>

\* get_nowait, then bus.inject.  An exception inject raises is logged and the loop goes on.
Pop ==
  /\ drain = "pop"
  /\ \/ /\ inbound_q # <<>>
        /\ injected' = Append(injected, Head(inbound_q))
        /\ inbound_q' = Tail(inbound_q)
        /\ UNCHANGED drain
     \/ /\ inbound_q = <<>>
        /\ drain' = "select"
        /\ UNCHANGED <<inbound_q, injected>>
  /\ UNCHANGED <<bytes, closed, stop, waking>>
-----------------------------------------------------------------------------
(* engine_main.main: SIGTERM sets the stop event; FederationManager.stop     *)
(* closes the bridge later, whether or not the drain thread has noticed.     *)
RequestStop ==
  /\ ~stop
  /\ stop' = TRUE
  /\ UNCHANGED <<inbound_q, bytes, closed, waking, drain, injected>>

Close ==
  /\ stop /\ ~closed
  /\ closed' = TRUE
  /\ UNCHANGED <<inbound_q, bytes, stop, waking, drain, injected>>

Next ==
  \/ \E t \in Thread : Wake(t) \/ \E e \in Event : Put(t, e)
  \/ Select \/ Recv \/ Pop
  \/ RequestStop \/ Close

Spec == Init /\ [][Next]_vars

\* The operating system runs every thread: an enqueue that has put its event goes on to
\* its send, and the drain thread takes its next step.
Fairness ==
  /\ \A t \in Thread : WF_vars(Wake(t))
  /\ WF_vars(Select \/ Recv \/ Pop)

FairSpec == Spec /\ Fairness
-----------------------------------------------------------------------------
(* Properties.                                                             *)

\* TYPE.
TypeOK ==
  /\ inbound_q \in Seq(Event) /\ injected \in Seq(Event)
  /\ bytes \in 0..Capacity
  /\ closed \in BOOLEAN /\ stop \in BOOLEAN
  /\ waking \subseteq Thread
  /\ drain \in {"select", "recv", "pop", "exited"}

\* NO LOST WAKEUP.  The drain thread never goes to sleep in select on a queue that holds
\* an event unless a byte is there to wake it or the thread that put the event is about
\* to write one; a full buffer and a batch of bytes read at once make no difference.
NoLostWakeup ==
  (drain = "select" /\ inbound_q # <<>> /\ ~closed) => bytes > 0 \/ waking # {}

\* REFINEMENT.  The bridge is a first-in first-out mailbox that hands every event over
\* once, and all of them while the engine is not told to stop.
Promise == INSTANCE Mailbox WITH pending <- inbound_q, handed <- injected, stopped <- stop
ImplementsMailbox == Promise!FairSpec

\* STOP.  The drain thread ends once the engine is told to, however the bridge is closed
\* under it.
DrainExits == stop ~> drain = "exited"
=============================================================================
