--------------------------- MODULE GroupResolver ---------------------------
(***************************************************************************)
(* _run_query of the group resolver (group_resolver.py), behind resolve and *)
(* resolve_by_callsign.  The main thread calls the first for events of the  *)
(* firehose, the bridge-drain thread the second for directed events, and    *)
(* both use the one connection _conn, which no lock protects.  An attempt   *)
(* reads _conn several times; its handler closes whatever _conn holds then. *)
(*                                                                          *)
(* The database goes down and comes back at any time; connections open at   *)
(* that moment are dead, which a client notices when it uses them.  A query *)
(* takes effect at one moment.  A call in progress returns in the end,      *)
(* which the code leaves to the driver: only the connect has a time-out.    *)
(***************************************************************************)
EXTENDS Naturals, FiniteSets

CONSTANTS
  Threads,
  Handles,      \* names for connections; one nobody refers to is used again
  None

ASSUME ResolverAssumption ==
  /\ None \notin Handles
  /\ IsFiniteSet(Threads) /\ IsFiniteSet(Handles)
  /\ Cardinality(Handles) > Cardinality(Threads)

VARIABLES
  up,        \* the database accepts connections
  state,     \* Handles -> "good", "dead" (not noticed yet) or "closed"
  _conn,
  pc,        \* Threads -> where the call is
  attempt,
  cur,       \* Threads -> the connection of its cursor
  outage,    \* history: the database was down during the call, or its connection dead
  cut        \* history: another thread's handler ran during the call

resolver_vars == <<up, state, _conn, pc, attempt, cur, outage, cut>>

ResolverInit ==
  /\ up \in BOOLEAN
  /\ state = [h \in Handles |-> "closed"]
  /\ _conn = None
  /\ pc = [t \in Threads |-> "idle"]
  /\ attempt = [t \in Threads |-> 1]
  /\ cur = [t \in Threads |-> None]
  /\ outage = [t \in Threads |-> FALSE]
  /\ cut = [t \in Threads |-> FALSE]

Idle(t) == pc[t] \in {"idle", "answered", "raised"}

Goto(t, l) == pc' = [pc EXCEPT ![t] = l]

Unused == Handles \ ({_conn} \cup {cur[t] : t \in Threads})
-----------------------------------------------------------------------------
(* The database.                                                           *)

Down ==
  /\ up /\ up' = FALSE
  /\ state' = [h \in Handles |-> IF state[h] = "good" THEN "dead" ELSE state[h]]
  /\ outage' = [t \in Threads |-> TRUE]
  /\ UNCHANGED <<_conn, pc, attempt, cur, cut>>

Up ==
  /\ ~up /\ up' = TRUE
  /\ UNCHANGED <<state, _conn, pc, attempt, cur, outage, cut>>
-----------------------------------------------------------------------------
(* A call.                                                                 *)

\* resolve or resolve_by_callsign.
Call(t) ==
  /\ Idle(t) /\ Goto(t, "check")
  /\ attempt' = [attempt EXCEPT ![t] = 1]
  /\ outage' = [outage EXCEPT ![t] = ~up]
  /\ cut' = [cut EXCEPT ![t] = FALSE]
  /\ UNCHANGED <<up, state, _conn, cur>>

\* No connection, or one known to be closed?
Check(t) ==
  /\ pc[t] = "check"
  /\ Goto(t, IF _conn = None \/ state[_conn] = "closed" THEN "connect" ELSE "cursor")
  /\ UNCHANGED <<up, state, _conn, attempt, cur, outage, cut>>

\* _connect replaces _conn, even by a thread that did so meanwhile.
_connect(t) ==
  /\ pc[t] = "connect"
  /\ IF up
     THEN \E h \in Unused :
            /\ state' = [state EXCEPT ![h] = "good"]
            /\ _conn' = h
            /\ Goto(t, "cursor")
     ELSE Goto(t, "failed") /\ UNCHANGED <<state, _conn>>
  /\ UNCHANGED <<up, attempt, cur, outage, cut>>

\* _conn is read again; None has no cursor().
Cursor(t) ==
  /\ pc[t] = "cursor"
  /\ IF _conn = None
     THEN Goto(t, "failed") /\ UNCHANGED cur
     ELSE Goto(t, "query") /\ cur' = [cur EXCEPT ![t] = _conn]
  /\ UNCHANGED <<up, state, _conn, attempt, outage, cut>>

\* execute and fetchall.
Query(t) ==
  /\ pc[t] = "query"
  /\ IF state[cur[t]] = "good"
     THEN Goto(t, "answered") /\ UNCHANGED state
     ELSE Goto(t, "failed") /\ state' = [state EXCEPT ![cur[t]] = "closed"]
  /\ cur' = [cur EXCEPT ![t] = None]
  /\ UNCHANGED <<up, _conn, attempt, outage, cut>>

\* The handler: is there a connection to close?
Handle(t) ==
  /\ pc[t] = "failed"
  /\ Goto(t, IF _conn = None THEN "clear" ELSE "close")
  /\ UNCHANGED <<up, state, _conn, attempt, cur, outage, cut>>

\* History: t works on what the others use.
CutOthers(t) == cut' = [o \in Threads |-> cut[o] \/ o # t]

\* It is read once more to be closed; if another thread has cleared it, that raises.
Close(t) ==
  /\ pc[t] = "close"
  /\ IF _conn = None
     THEN Goto(t, "abandon") /\ UNCHANGED <<state, cut>>
     ELSE /\ state' = [state EXCEPT ![_conn] = "closed"]
          /\ Goto(t, "clear")
          /\ CutOthers(t)
  /\ UNCHANGED <<up, _conn, attempt, cur, outage>>

\* Mutant: the second attempt is given up too early.
M_Clear(t) ==
  /\ pc[t] = "clear"
  /\ _conn' = None
  /\ Goto(t, "raised")
  /\ CutOthers(t)
  /\ UNCHANGED <<up, state, attempt, cur, outage>>

\* finally: _conn = None, then the second attempt, or GroupResolveError after it.
Clear(t) ==
  /\ pc[t] = "clear"
  /\ _conn' = None
  /\ IF attempt[t] = 2
     THEN Goto(t, "raised") /\ UNCHANGED attempt
     ELSE Goto(t, "check") /\ attempt' = [attempt EXCEPT ![t] = 2]
  /\ CutOthers(t)
  /\ UNCHANGED <<up, state, cur, outage>>

\* The finally clause all the same, and the AttributeError ends the call.
Abandon(t) ==
  /\ pc[t] = "abandon"
  /\ _conn' = None
  /\ Goto(t, "raised")
  /\ CutOthers(t)
  /\ UNCHANGED <<up, state, attempt, cur, outage>>

Step(t) ==
  \/ Check(t) \/ _connect(t) \/ Cursor(t) \/ Query(t)
  \/ Handle(t) \/ Close(t) \/ Clear(t) \/ Abandon(t)

ResolverNext == Down \/ Up \/ \E t \in Threads : Call(t) \/ Step(t)

ResolverSpec == ResolverInit /\ [][ResolverNext]_resolver_vars
-----------------------------------------------------------------------------
(* Properties.                                                             *)

ResolverTypeOK ==
  /\ up \in BOOLEAN
  /\ state \in [Handles -> {"good", "dead", "closed"}]
  /\ _conn \in Handles \cup {None}
  /\ pc \in [Threads -> {"idle", "check", "connect", "cursor", "query",
                         "failed", "close", "clear", "abandon", "answered", "raised"}]
  /\ attempt \in [Threads -> {1, 2}]
  /\ cur \in [Threads -> Handles \cup {None}]
  /\ outage \in [Threads -> BOOLEAN]
  /\ cut \in [Threads -> BOOLEAN]

\* SERVED.  A call fails only if the database was down during it or the handler of another
\* call ran during it: a connection that died before the call costs the first attempt only,
\* and nothing an earlier call left behind fails a later one.
FailsForAReason == \A t \in Threads : pc[t] = "raised" => outage[t] \/ cut[t]
=============================================================================
