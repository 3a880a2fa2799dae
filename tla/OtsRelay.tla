------------------------------ MODULE OtsRelay ------------------------------
(***************************************************************************)
(* The engine's two paths through OpenTAKServer (ots_bus.py), with the loop *)
(* filter (loop_filter.py) and the cache of group memberships               *)
(* (eud_group_cache.py) they share.  Three threads of the engine take part: *)
(*   - the main thread reads the firehose, decides for each event whether   *)
(*     and under which groups it leaves, and calls on_outbound;             *)
(*   - EudGroupCacheSub reads the 'groups' exchange into the cache;         *)
(*   - FedBridgeDrain injects what peers sent.                              *)
(* OpenTAKServer and its database are external: a device's event goes to    *)
(* the firehose and, for each group the device holds, to the 'groups'       *)
(* exchange; an event put on cot_parser is routed the same way under        *)
(* __ANON__, or to the addressed callsigns.                                 *)
(*                                                                          *)
(* An event keeps its uid, the server ids its provenance stamps name,       *)
(* whether it parses and, as history, who made it.  A device answers to one *)
(* callsign, its uid here.  Publishing succeeds (FederationEngine has the   *)
(* failures).  The dedup window of the filter is left out: the engine       *)
(* leaves it at 0, which disables it.                                       *)
(***************************************************************************)
EXTENDS Naturals, Sequences

CONSTANTS
  Uids,           \* devices (EUDs)
  Groups,         \* ACL groups of OpenTAKServer
  Anon,           \* __ANON__, the group of events without a user
  ServerId,       \* this server's id
  PeerId,         \* another server's id
  Miss,           \* no cache entry
  Admitted,       \* the group sets the inbound policy gives to events
  MaxSent,        \* bound on the events of devices
  MaxInjected,    \* bound on the events of peers
  MaxChanges      \* bound on the changes of memberships

ASSUME RelayAssumption ==
  /\ Anon \notin Groups
  /\ ServerId # PeerId
  /\ Admitted \subseteq (SUBSET Groups) \ {{}}
  /\ MaxSent \in Nat /\ MaxInjected \in Nat /\ MaxChanges \in Nat

VARIABLES
  db,                 \* uid -> the OUT groups its user holds
  inject_cot_parser,  \* the option of that name
  firehose,           \* the queue bound to the firehose exchange
  pending,            \* updates in the queue bound to the 'groups' exchange
  parsing,            \* events in the cot_parser queue
  cache,              \* uid -> EudGroupCache entry
  reading,            \* the event whose groups the main thread looks up, or Miss
  rows,               \* the database's answer, or Miss
  injecting,          \* the directed event in hand in the drain thread, or Miss
  sent, injected, changes,
  relayed,            \* history: the calls of on_outbound
  delivered,          \* history: directed deliveries, with the groups held then
  lost,               \* history: events dropped because the database failed
  held,               \* history: groups a device held since its entry was made
  learnt              \* history: groups injected events of that uid were given

ots    == <<firehose, pending, parsing>>
counts == <<sent, injected, changes>>
past   == <<relayed, delivered, lost>>
vars == <<db, inject_cot_parser, ots, cache, reading, rows, injecting,
          counts, past, held, learnt>>

ServerIds == {ServerId, PeerId}
AllGroups == Groups \cup {Anon}

Event ==
  [n : Nat, uid : Uids, prov : SUBSET ServerIds, parses : BOOLEAN,
   by : {"device", "peer", "contact"}, dests : SUBSET Uids, groups : SUBSET Groups]

\* An update of the cache, and whose event it is about.
Update ==
  [uid : Uids, group : Groups, by : {"device"}]
    \cup [uid : Uids, group : AllGroups, by : {"peer"}]

Entry == [groups : SUBSET AllGroups, expired : BOOLEAN]

Init ==
  /\ db \in [Uids -> SUBSET Groups]
  /\ inject_cot_parser \in BOOLEAN
  /\ firehose = <<>> /\ pending = {} /\ parsing = {}
  /\ cache = [u \in Uids |-> Miss]
  /\ reading = Miss /\ rows = Miss /\ injecting = Miss
  /\ sent = 0 /\ injected = 0 /\ changes = 0
  /\ relayed = {} /\ delivered = {} /\ lost = {}
  /\ held = db
  /\ learnt = [u \in Uids |-> {}]
-----------------------------------------------------------------------------
(* The loop filter.                                                        *)

\* Mutant: our id is looked for in the chain of earlier servers only.
M_stamp_inbound(prov, seen) == prov \cup seen

\* <_fedprov> with our id and the chain of servers the event has passed.
stamp_inbound(prov, seen) == prov \cup seen \cup {ServerId}

\* An event that does not parse counts as local.
should_relay_outbound(e) == e.parses => ServerId \notin e.prov

clean_for_relay(e) == IF e.parses THEN [e EXCEPT !.prov = {}] ELSE e
-----------------------------------------------------------------------------
(* The cache.  update() does not look at the age of the entry: it adds to   *)
(* the groups of an expired one and makes them all young again.             *)

update(c, u, g) ==
  [c EXCEPT ![u] = [groups  |-> {g} \cup IF c[u] = Miss THEN {} ELSE c[u].groups,
                    expired |-> FALSE]]

set_groups(c, u, gs) == [c EXCEPT ![u] = [groups |-> gs, expired |-> FALSE]]

Hit(u) == cache[u] # Miss /\ ~cache[u].expired

\* Mutant: an expired entry is reported as a miss and stays.
M_Evict(c, u) == c

\* get_groups deletes what it finds expired.
Evict(c, u) == [c EXCEPT ![u] = Miss]

\* _ttl seconds pass without an update for u.
Expire(u) ==
  /\ Hit(u)
  /\ cache' = [cache EXCEPT ![u].expired = TRUE]
  /\ UNCHANGED <<db, inject_cot_parser, ots, reading, rows, injecting,
                 counts, past, held, learnt>>
-----------------------------------------------------------------------------
(* OpenTAKServer.                                                          *)

\* A device sends an event of its own, or sends again one it has received, stamps and all.
DeviceSends(u, prov, parses) ==
  /\ sent < MaxSent /\ sent' = sent + 1
  /\ PeerId \in prov \/ prov = {}
  /\ parses \/ prov = {}
  /\ firehose' = Append(firehose,
       [n |-> sent', uid |-> u, prov |-> prov, parses |-> parses,
        by |-> IF ServerId \in prov THEN "peer" ELSE "device",
        dests |-> {}, groups |-> {}])
  /\ pending' = pending \cup {[uid |-> u, group |-> g, by |-> "device"] : g \in db[u]}
  /\ UNCHANGED <<db, inject_cot_parser, parsing, cache, reading, rows, injecting,
                 injected, changes, past, held, learnt>>

\* An administrator changes the groups of a device's user.
Administer(u, gs) ==
  /\ changes < MaxChanges /\ changes' = changes + 1
  /\ gs # db[u]
  /\ db' = [db EXCEPT ![u] = gs]
  /\ held' = [held EXCEPT ![u] = @ \cup gs]
  /\ UNCHANGED <<inject_cot_parser, ots, cache, reading, rows, injecting,
                 sent, injected, past, learnt>>

\* cot_parser routes an event that has no user.
route_cot(e) ==
  /\ e \in parsing
  /\ parsing' = parsing \ {e}
  /\ firehose' = Append(firehose, e)
  /\ IF e.dests = {}
     THEN /\ pending' = pending \cup {[uid |-> e.uid, group |-> Anon, by |-> "peer"]}
          /\ learnt' = [learnt EXCEPT ![e.uid] = @ \cup {Anon}]
          /\ UNCHANGED delivered
     ELSE /\ delivered' = delivered \cup
               {[to |-> c, among |-> e.groups, then |-> db[c]] : c \in e.dests}
          /\ UNCHANGED <<pending, learnt>>
  /\ UNCHANGED <<db, inject_cot_parser, cache, reading, rows, injecting,
                 counts, relayed, lost, held>>
-----------------------------------------------------------------------------
(* FedBridgeDrain: inject.                                                 *)

\* What the bridge holds: events the inbound policy admitted, with their provenance, and
\* contact entries turned into events, which have neither groups nor provenance.
FromPeer ==
  {e \in [n : {MaxSent + injected + 1}, uid : Uids, prov : {{}}, parses : {TRUE},
          by : {"peer", "contact"}, dests : SUBSET Uids, groups : Admitted \cup {{}}] :
     /\ e.by = "peer" => e.groups # {}
     /\ e.by = "contact" => e.groups = {} /\ e.dests = {}}

Stamped(e) ==
  IF e.by = "contact" THEN e ELSE [e EXCEPT !.prov = stamp_inbound(@, {PeerId})]

Parse(e) == parsing' = IF inject_cot_parser \/ e.groups = {} THEN parsing \cup {e} ELSE parsing

\* inject of an event nobody is addressed in: once to the exchange for each group.
InjectToGroups(e) ==
  /\ injecting = Miss /\ injected < MaxInjected
  /\ e.dests = {}
  /\ injected' = injected + 1
  /\ pending' = pending \cup {[uid |-> e.uid, group |-> g, by |-> "peer"] : g \in e.groups}
  /\ learnt' = [learnt EXCEPT ![e.uid] = @ \cup e.groups]
  /\ Parse(Stamped(e))
  /\ UNCHANGED <<db, inject_cot_parser, firehose, cache, reading, rows, injecting,
                 sent, changes, past, held>>

\* inject of a directed event takes it in hand ...
InjectDirected(e) ==
  /\ injecting = Miss /\ injected < MaxInjected
  /\ e.dests # {}
  /\ injected' = injected + 1
  /\ injecting' = [evt |-> Stamped(e), todo |-> e.dests]
  /\ UNCHANGED <<db, inject_cot_parser, ots, cache, reading, rows,
                 sent, changes, past, held, learnt>>

\* Mutant: a callsign whose groups cannot be resolved passes.
M_dm_reachable(c, gs) == {db[c] \cap gs # {}, TRUE}

\* What _dm_reachable may answer: the query may raise, which closes the gate.
_dm_reachable(c, gs) == {db[c] \cap gs # {}, FALSE}

\* ... asks for each callsign before it publishes to dms ...
Address(c) ==
  /\ injecting # Miss /\ c \in injecting.todo
  /\ \E ok \in _dm_reachable(c, injecting.evt.groups) :
       delivered' = IF ok
                    THEN delivered \cup
                           {[to |-> c, among |-> injecting.evt.groups, then |-> db[c]]}
                    ELSE delivered
  /\ injecting' = [injecting EXCEPT !.todo = @ \ {c}]
  /\ UNCHANGED <<db, inject_cot_parser, ots, cache, reading, rows,
                 counts, relayed, lost, held, learnt>>

\* ... and may leave a copy with cot_parser.
FinishDirected ==
  /\ injecting # Miss /\ injecting.todo = {}
  /\ Parse(injecting.evt)
  /\ injecting' = Miss
  /\ UNCHANGED <<db, inject_cot_parser, firehose, pending, cache, reading, rows,
                 counts, past, held, learnt>>
-----------------------------------------------------------------------------
(* EudGroupCacheSub.                                                       *)

_on_groups_message(p) ==
  /\ p \in pending
  /\ pending' = pending \ {p}
  /\ cache' = update(cache, p.uid, p.group)
  /\ UNCHANGED <<db, inject_cot_parser, firehose, parsing, reading, rows, injecting,
                 counts, past, held, learnt>>
-----------------------------------------------------------------------------
(* The main thread: _on_firehose_message.                                  *)

on_outbound(e, gs) ==
  relayed' = relayed \cup {[n |-> e.n, uid |-> e.uid, by |-> e.by, groups |-> gs]}

Announced(u, by) == {p.group : p \in {q \in pending : q.uid = u /\ q.by = by}}

\* History: at a miss nothing older than the database and the queue can come back.
Forget(u) ==
  /\ held' = [held EXCEPT ![u] = db[u] \cup Announced(u, "device")]
  /\ learnt' = [learnt EXCEPT ![u] = Announced(u, "peer")]

\* Filter, clean, parse and look the uid up in the cache.
Consume ==
  /\ reading = Miss /\ firehose # <<>>
  /\ firehose' = Tail(firehose)
  /\ LET e == clean_for_relay(Head(firehose)) IN
       IF ~should_relay_outbound(Head(firehose)) \/ ~e.parses
       THEN UNCHANGED <<cache, reading, relayed, held, learnt>>
       ELSE IF Hit(e.uid)
       THEN /\ on_outbound(e, cache[e.uid].groups)
            /\ UNCHANGED <<cache, reading, held, learnt>>
       ELSE /\ cache' = Evict(cache, e.uid)
            /\ Forget(e.uid)
            /\ reading' = e
            /\ UNCHANGED relayed
  /\ UNCHANGED <<db, inject_cot_parser, pending, parsing, rows, injecting,
                 counts, delivered, lost>>

\* On a miss, ask the database.  The event is dropped when that fails, and when the device
\* holds no group.
Resolve ==
  /\ reading # Miss /\ rows = Miss
  /\ \/ /\ db[reading.uid] # {}
        /\ rows' = db[reading.uid]
        /\ UNCHANGED <<reading, lost>>
     \/ /\ db[reading.uid] = {}
        /\ reading' = Miss
        /\ UNCHANGED <<rows, lost>>
     \/ /\ lost' = lost \cup {reading.n}
        /\ reading' = Miss
        /\ UNCHANGED rows
  /\ UNCHANGED <<db, inject_cot_parser, ots, cache, injecting,
                 counts, relayed, delivered, held, learnt>>

\* Mutant: the answer fills the cache for the next event only.
M_Relay ==
  /\ rows # Miss
  /\ cache' = set_groups(cache, reading.uid, rows)
  /\ reading' = Miss /\ rows' = Miss
  /\ UNCHANGED <<db, inject_cot_parser, ots, injecting, counts, past, held, learnt>>

\* The answer replaces the entry, whatever arrived meanwhile, and the event leaves.
Relay ==
  /\ rows # Miss
  /\ cache' = set_groups(cache, reading.uid, rows)
  /\ on_outbound(reading, rows)
  /\ reading' = Miss /\ rows' = Miss
  /\ UNCHANGED <<db, inject_cot_parser, ots, injecting,
                 counts, delivered, lost, held, learnt>>
-----------------------------------------------------------------------------
Next ==
  \/ \E u \in Uids : Expire(u)
  \/ \E u \in Uids, prov \in SUBSET ServerIds, parses \in BOOLEAN : DeviceSends(u, prov, parses)
  \/ \E u \in Uids, gs \in SUBSET Groups : Administer(u, gs)
  \/ \E e \in parsing : route_cot(e)
  \/ \E e \in FromPeer : InjectToGroups(e) \/ InjectDirected(e)
  \/ \E c \in Uids : Address(c)
  \/ FinishDirected
  \/ \E p \in pending : _on_groups_message(p)
  \/ Consume \/ Resolve \/ Relay

Spec == Init /\ [][Next]_vars

\* The main thread keeps reading its queue; a query returns or raises.
FairSpec == Spec /\ WF_vars(Consume \/ Resolve \/ Relay)
-----------------------------------------------------------------------------
(* Properties.                                                             *)

TypeOK ==
  /\ db \in [Uids -> SUBSET Groups]
  /\ inject_cot_parser \in BOOLEAN
  /\ firehose \in Seq(Event) /\ pending \subseteq Update /\ parsing \subseteq Event
  /\ cache \in [Uids -> Entry \cup {Miss}]
  /\ reading \in Event \cup {Miss}
  /\ rows \in (SUBSET Groups) \cup {Miss}
  /\ injecting \in [evt : Event, todo : SUBSET Uids] \cup {Miss}
  /\ sent \in 0..MaxSent /\ injected \in 0..MaxInjected /\ changes \in 0..MaxChanges
  /\ relayed \subseteq [n : Nat, uid : Uids, by : {"device", "peer", "contact"},
                        groups : SUBSET AllGroups]
  /\ delivered \subseteq [to : Uids, among : SUBSET Groups, then : SUBSET Groups]
  /\ lost \subseteq Nat
  /\ held \in [Uids -> SUBSET Groups]
  /\ learnt \in [Uids -> SUBSET AllGroups]

\* NO ECHO.  An event of a peer never leaves again by way of OpenTAKServer, whether
\* cot_parser or a device sends it back: the peers would get it as a local event, without
\* the provenance that stops it.  Contacts are the exception: they are injected unstamped.
NoneRelayedBack == \A r \in relayed : r.by # "peer"

\* SHARED AS HELD.  An event leaves only under groups its device has held since its cache
\* entry was made, or that events of peers with the same uid were given meanwhile: a
\* membership does not outlive the expiry of the entry, although updates do not look at it.
SharedAsHeld ==
  [][\A r \in relayed' \ relayed :
       r.groups # {} /\ r.groups \subseteq held[r.uid] \cup learnt[r.uid]]_vars

\* What "Cache is an optimization layer" over "OTS's authoritative DB" promises: the groups
\* an event leaves under are groups its device has held.
SharedOnlyAsHeld ==
  [][\A r \in relayed' \ relayed : r.groups \subseteq held[r.uid]]_vars

\* DIRECTED.  A peer's event addressed to a callsign reaches it only if, when it was
\* delivered, the callsign held one of the groups the event was admitted to, as long as
\* cot_parser does not get a copy.
DirectedInGroups ==
  ~inject_cot_parser => \A d \in delivered : d.then \cap d.among # {}

\* RELAYED.  A device's event leaves, unless it carries our stamp or does not parse, the
\* database fails, or the device is found without a group.
Waiting(n, u) ==
  \E i \in DOMAIN firehose :
    firehose[i].n = n /\ firehose[i].uid = u /\ firehose[i].parses /\ firehose[i].by = "device"

LocalEventsLeave ==
  \A n \in 1..MaxSent, u \in Uids :
    Waiting(n, u) ~> (n \in lost \/ db[u] = {} \/ \E r \in relayed : r.n = n)
=============================================================================
