--------------------------- MODULE OtsRelayProofs ---------------------------
(***************************************************************************)
(* The OpenTAKServer bus: no echo, directed events and shared groups, for   *)
(* any devices, groups and admissions and any number of events; and the     *)
(* group resolver it asks, whose calls fail only for a reason, for any      *)
(* number of threads and connections.  The two have no state in common.     *)
(***************************************************************************)
EXTENDS OtsRelay, GroupResolver, SequenceTheorems, TLAPS

\* What a peer made carries our stamp wherever OpenTAKServer keeps it, and is never in the
\* hands of the main thread.
Stamps ==
  /\ \A i \in 1..Len(firehose) : firehose[i].by = "peer" => ServerId \in firehose[i].prov
  /\ \A e \in parsing : e.by = "peer" => ServerId \in e.prov
  /\ injecting # Miss /\ injecting.evt.by = "peer" => ServerId \in injecting.evt.prov
  /\ reading # Miss => reading.by # "peer"
  /\ NoneRelayedBack

\* A directed event has groups, and reaches cot_parser by the option only.
Directed ==
  /\ injecting # Miss => injecting.evt.groups # {}
  /\ ~inject_cot_parser => \A e \in parsing : e.dests = {}
  /\ DirectedInGroups

\* Entries, updates on their way and answers hold what the device held or its uid was given.
Shares ==
  /\ \A u \in Uids : db[u] \subseteq held[u]
  /\ \A u \in Uids : cache[u] # Miss =>
       cache[u].groups # {} /\ cache[u].groups \subseteq held[u] \cup learnt[u]
  /\ \A p \in pending :
       p.group \in IF p.by = "device" THEN held[p.uid] ELSE learnt[p.uid]
  /\ rows # Miss => reading # Miss /\ rows # {} /\ rows \subseteq held[reading.uid]
-----------------------------------------------------------------------------
(* Types.                                                                  *)

LEMMA StampedIsEvent ==
  ASSUME NEW e \in FromPeer, injected \in Nat
  PROVE  Stamped(e) \in Event /\ e \in Event
<1>1. e \in Event
  <2>1. MaxSent + injected + 1 \in Nat
    BY RelayAssumption
  <2>2. Admitted \cup {{}} \subseteq SUBSET Groups
    BY RelayAssumption
  <2>3. /\ e \in [n : {MaxSent + injected + 1}, uid : Uids, prov : {{}}, parses : {TRUE},
                  by : {"peer", "contact"}, dests : SUBSET Uids, groups : Admitted \cup {{}}]
    BY DEF FromPeer
  <2> QED
    BY <2>1, <2>2, <2>3 DEF Event
<1>2. stamp_inbound(e.prov, {PeerId}) \in SUBSET ServerIds
  BY <1>1 DEF stamp_inbound, ServerIds, Event
<1> QED
  BY <1>1, <1>2 DEF Stamped, Event

LEMMA CleanIsEvent ==
  ASSUME NEW e \in Event
  PROVE  /\ clean_for_relay(e) \in Event
         /\ clean_for_relay(e).by = e.by
         /\ clean_for_relay(e).parses => e.parses
  BY DEF clean_for_relay, Event

LEMMA TypeInit == Init => TypeOK
<1> SUFFICES ASSUME Init PROVE TypeOK
  OBVIOUS
<1>1. firehose \in Seq(Event)
  BY EmptySeq DEF Init
<1>2. inject_cot_parser \in BOOLEAN
  BY Zenon DEF Init
<1>3. held \in [Uids -> SUBSET Groups] /\ cache \in [Uids -> Entry \cup {Miss}]
  BY DEF Init
<1> QED
  BY <1>1, <1>2, <1>3, RelayAssumption DEF Init, TypeOK

LEMMA TypeNext == TypeOK /\ Shares /\ [Next]_vars => TypeOK'
<1> SUFFICES ASSUME TypeOK, Shares, [Next]_vars PROVE TypeOK'
  OBVIOUS
<1> USE RelayAssumption DEF TypeOK, ots, counts, past
<1>1. ASSUME NEW u \in Uids, Expire(u) PROVE TypeOK'
  <2>1. cache[u] \in Entry
    BY <1>1 DEF Expire, Hit
  <2>2. [cache[u] EXCEPT !.expired = TRUE] \in Entry
    BY <2>1 DEF Entry
  <2> QED
    BY <1>1, <2>2 DEF Expire
<1>2. ASSUME NEW u \in Uids, NEW prov \in SUBSET ServerIds, NEW parses \in BOOLEAN,
             DeviceSends(u, prov, parses)
      PROVE  TypeOK'
  <2>1. [n |-> sent', uid |-> u, prov |-> prov, parses |-> parses,
         by |-> IF ServerId \in prov THEN "peer" ELSE "device",
         dests |-> {}, groups |-> {}] \in Event
    BY <1>2 DEF DeviceSends, Event
  <2>2. firehose' \in Seq(Event)
    BY <1>2, <2>1, AppendProperties DEF DeviceSends
  <2>3. pending' \subseteq Update
    BY <1>2 DEF DeviceSends, Update, AllGroups
  <2> QED
    BY <1>2, <2>2, <2>3 DEF DeviceSends
<1>3. ASSUME NEW u \in Uids, NEW gs \in SUBSET Groups, Administer(u, gs) PROVE TypeOK'
  BY <1>3 DEF Administer
<1>4. ASSUME NEW e \in parsing, route_cot(e) PROVE TypeOK'
  <2>1. firehose' \in Seq(Event)
    BY <1>4, AppendProperties DEF route_cot
  <2>2. e \in Event /\ e.uid \in Uids /\ e.dests \subseteq Uids /\ e.groups \subseteq Groups
    BY DEF Event
  <2>3. CASE e.dests = {}
    <3>1. [uid |-> e.uid, group |-> Anon, by |-> "peer"] \in Update
      BY <2>2 DEF Update, AllGroups
    <3>2. pending' \subseteq Update
      BY <1>4, <2>3, <3>1 DEF route_cot
    <3>3. learnt' \in [Uids -> SUBSET AllGroups]
      BY <1>4, <2>2, <2>3 DEF route_cot, AllGroups
    <3> QED
      BY <1>4, <2>1, <2>3, <3>2, <3>3 DEF route_cot
  <2>4. CASE e.dests # {}
    BY <1>4, <2>1, <2>2, <2>4 DEF route_cot
  <2> QED
    BY <2>3, <2>4
<1>5. ASSUME NEW e \in FromPeer, InjectToGroups(e) PROVE TypeOK'
  <2>1. Stamped(e) \in Event /\ e \in Event
    BY StampedIsEvent
  <2>2. pending' \subseteq Update /\ learnt' \in [Uids -> SUBSET AllGroups]
    BY <1>5, <2>1 DEF InjectToGroups, Update, AllGroups, Event
  <2>3. parsing' \subseteq Event
    BY <1>5, <2>1 DEF InjectToGroups, Parse
  <2> QED
    BY <1>5, <2>2, <2>3 DEF InjectToGroups
<1>6. ASSUME NEW e \in FromPeer, InjectDirected(e) PROVE TypeOK'
  <2>1. Stamped(e) \in Event /\ e.dests \subseteq Uids
    BY StampedIsEvent DEF Event
  <2> QED
    BY <1>6, <2>1 DEF InjectDirected
<1>7. ASSUME NEW c \in Uids, Address(c) PROVE TypeOK'
  <2>1. injecting \in [evt : Event, todo : SUBSET Uids] /\ injecting.evt.groups \subseteq Groups
    BY <1>7 DEF Address, Event
  <2>2. injecting' \in [evt : Event, todo : SUBSET Uids]
    BY <1>7, <2>1 DEF Address
  <2>3. delivered' \subseteq [to : Uids, among : SUBSET Groups, then : SUBSET Groups]
    BY <1>7, <2>1 DEF Address
  <2> QED
    BY <1>7, <2>2, <2>3 DEF Address
<1>8. CASE FinishDirected
  <2>1. parsing' \subseteq Event
    BY <1>8 DEF FinishDirected, Parse
  <2> QED
    BY <1>8, <2>1 DEF FinishDirected
<1>9. ASSUME NEW p \in pending, _on_groups_message(p) PROVE TypeOK'
  <2>1. cache' \in [Uids -> Entry \cup {Miss}]
    <3>1. p.uid \in Uids /\ p.group \in AllGroups
      BY DEF Update, AllGroups
    <3>2. [groups |-> {p.group} \cup IF cache[p.uid] = Miss THEN {} ELSE cache[p.uid].groups,
           expired |-> FALSE] \in Entry
      BY <3>1 DEF Entry
    <3> QED
      BY <1>9, <3>1, <3>2 DEF _on_groups_message, update
  <2> QED
    BY <1>9, <2>1 DEF _on_groups_message
<1>10. CASE Consume
  <2> DEFINE e == clean_for_relay(Head(firehose))
  <2>1. Head(firehose) \in Event /\ firehose' \in Seq(Event)
    BY <1>10, HeadTailProperties DEF Consume
  <2>2. e \in Event /\ e.n \in Nat /\ e.uid \in Uids /\ e.by \in {"device", "peer", "contact"}
    BY <2>1, CleanIsEvent DEF Event
  <2> HIDE DEF e
  <2>3. CASE UNCHANGED <<cache, reading, relayed, held, learnt>>
    BY <1>10, <2>1, <2>3 DEF Consume
  <2>4. CASE /\ on_outbound(e, cache[e.uid].groups) /\ Hit(e.uid)
             /\ UNCHANGED <<cache, reading, held, learnt>>
    BY <1>10, <2>1, <2>2, <2>4 DEF Consume, on_outbound, Hit, Entry
  <2>5. CASE /\ cache' = Evict(cache, e.uid) /\ Forget(e.uid)
             /\ reading' = e /\ UNCHANGED relayed
    <3>1. cache' \in [Uids -> Entry \cup {Miss}]
      BY <2>2, <2>5 DEF Evict
    <3>2. Announced(e.uid, "peer") \subseteq AllGroups
      BY DEF Announced, Update, AllGroups
    <3>3. Announced(e.uid, "device") \subseteq Groups
      BY DEF Announced, Update
    <3>4. held' \in [Uids -> SUBSET Groups] /\ learnt' \in [Uids -> SUBSET AllGroups]
      BY <2>2, <2>5, <3>2, <3>3 DEF Forget
    <3> QED
      BY <1>10, <2>1, <2>2, <2>5, <3>1, <3>4 DEF Consume
  <2> QED
    BY <1>10, <2>3, <2>4, <2>5 DEF Consume, e
<1>11. CASE Resolve
  <2>1. reading \in Event /\ reading.n \in Nat /\ reading.uid \in Uids
    BY <1>11 DEF Resolve, Event
  <2>2. rows' \in (SUBSET Groups) \cup {Miss}
    BY <1>11, <2>1 DEF Resolve
  <2>3. reading' \in Event \cup {Miss}
    BY <1>11, <2>1 DEF Resolve
  <2>4. lost' \subseteq Nat
    BY <1>11, <2>1 DEF Resolve
  <2> QED
    BY <1>11, <2>2, <2>3, <2>4 DEF Resolve
<1>12. CASE Relay
  <2>1. reading \in Event /\ rows \in SUBSET AllGroups
    BY <1>12 DEF Relay, Shares, AllGroups
  <2>2. cache' \in [Uids -> Entry \cup {Miss}]
    BY <1>12, <2>1 DEF Relay, set_groups, Entry
  <2>3. relayed' \subseteq [n : Nat, uid : Uids, by : {"device", "peer", "contact"},
                          groups : SUBSET AllGroups]
    BY <1>12, <2>1 DEF Relay, on_outbound, Event
  <2> QED
    BY <1>12, <2>2, <2>3 DEF Relay
<1>13. CASE UNCHANGED vars
  BY <1>13 DEF vars
<1> HIDE RelayAssumption DEF TypeOK, ots, counts, past
<1> QED
  BY <1>1, <1>2, <1>3, <1>4, <1>5, <1>6, <1>7, <1>8, <1>9, <1>10, <1>11, <1>12, <1>13
  DEF Next
-----------------------------------------------------------------------------
(* No echo.                                                                *)

LEMMA StampedByUs ==
  ASSUME NEW e \in FromPeer, injected \in Nat
  PROVE  Stamped(e).by = "peer" => ServerId \in Stamped(e).prov
<1>1. e \in Event
  BY StampedIsEvent
<1>2. CASE e.by = "contact"
  BY <1>2 DEF Stamped
<1>3. CASE e.by # "contact"
  <2>1. Stamped(e) = [e EXCEPT !.prov = stamp_inbound(e.prov, {PeerId})]
    BY <1>3 DEF Stamped
  <2>2. ServerId \in stamp_inbound(e.prov, {PeerId})
    BY DEF stamp_inbound
  <2> QED
    BY <1>1, <2>1, <2>2 DEF Event
<1> QED
  BY <1>2, <1>3

LEMMA StampsNext == TypeOK /\ Shares /\ Stamps /\ [Next]_vars => Stamps'
<1> SUFFICES ASSUME TypeOK, Shares, Stamps, [Next]_vars PROVE Stamps'
  OBVIOUS
<1> USE DEF Stamps, NoneRelayedBack, ots, past
<1>1. injected \in Nat /\ firehose \in Seq(Event)
  BY RelayAssumption DEF TypeOK
<1>2. ASSUME UNCHANGED <<firehose, parsing, injecting, reading, relayed>> PROVE Stamps'
  BY <1>2
<1>3. ASSUME NEW u \in Uids, Expire(u) PROVE Stamps'
  BY <1>2, <1>3 DEF Expire
<1>4. ASSUME NEW u \in Uids, NEW prov \in SUBSET ServerIds, NEW parses \in BOOLEAN,
             DeviceSends(u, prov, parses)
      PROVE  Stamps'
  <2> DEFINE e == [n |-> sent', uid |-> u, prov |-> prov, parses |-> parses,
                   by |-> IF ServerId \in prov THEN "peer" ELSE "device",
                   dests |-> {}, groups |-> {}]
  <2>1. e.by = "peer" => ServerId \in e.prov
    OBVIOUS
  <2>2. firehose' = Append(firehose, e) /\ UNCHANGED <<parsing, injecting, reading, relayed>>
    BY <1>4 DEF DeviceSends
  <2> HIDE DEF e
  <2>3. Len(firehose') = Len(firehose) + 1
        /\ \A i \in 1..Len(firehose') :
             firehose'[i] = IF i <= Len(firehose) THEN firehose[i] ELSE e
    BY <1>1, <2>2
  <2> QED
    BY <1>1, <2>1, <2>2, <2>3
<1>5. ASSUME NEW u \in Uids, NEW gs \in SUBSET Groups, Administer(u, gs) PROVE Stamps'
  BY <1>2, <1>5 DEF Administer
<1>6. ASSUME NEW e \in parsing, route_cot(e) PROVE Stamps'
  <2>1. firehose' = Append(firehose, e) /\ parsing' \subseteq parsing
        /\ UNCHANGED <<injecting, reading, relayed>>
    BY <1>6 DEF route_cot
  <2>2. Len(firehose') = Len(firehose) + 1
        /\ \A i \in 1..Len(firehose') :
             firehose'[i] = IF i <= Len(firehose) THEN firehose[i] ELSE e
    BY <1>1, <2>1
  <2> QED
    BY <1>1, <2>1, <2>2
<1>7. ASSUME NEW e \in FromPeer, InjectToGroups(e) PROVE Stamps'
  BY <1>1, <1>7, StampedByUs DEF InjectToGroups, Parse
<1>8. ASSUME NEW e \in FromPeer, InjectDirected(e) PROVE Stamps'
  BY <1>1, <1>8, StampedByUs DEF InjectDirected
<1>9. ASSUME NEW c \in Uids, Address(c) PROVE Stamps'
  <2>1. injecting' = [injecting EXCEPT !.todo = @ \ {c}] /\ injecting # Miss
        /\ UNCHANGED <<firehose, parsing, reading, relayed>>
    BY <1>9 DEF Address
  <2>2. injecting'.evt = injecting.evt
    BY <2>1 DEF TypeOK
  <2> QED
    BY <2>1, <2>2
<1>10. CASE FinishDirected
  BY <1>10 DEF FinishDirected, Parse
<1>11. ASSUME NEW p \in pending, _on_groups_message(p) PROVE Stamps'
  BY <1>2, <1>11 DEF _on_groups_message
<1>12. CASE Consume
  <2> DEFINE h == Head(firehose)
             e == clean_for_relay(h)
  <2>1. /\ h \in Event
        /\ h.by = "peer" => ServerId \in h.prov
        /\ Len(firehose') = Len(firehose) - 1
        /\ \A i \in 1..Len(firehose') : firehose'[i] = firehose[i + 1]
    BY <1>1, <1>12, HeadTailProperties DEF Consume
  <2>2. \A i \in 1..Len(firehose') : firehose'[i].by = "peer" => ServerId \in firehose'[i].prov
    BY <1>1, <2>1
  <2>3. UNCHANGED <<parsing, injecting>>
    BY <1>12 DEF Consume
  <2>4. CASE ~should_relay_outbound(h) \/ ~e.parses
    BY <1>12, <2>2, <2>3, <2>4 DEF Consume
  <2>5. CASE should_relay_outbound(h) /\ e.parses
    <3>1. e.by # "peer"
      <4> HIDE DEF h
      <4>1. e.by = h.by /\ (e.parses => h.parses)
        BY <2>1, CleanIsEvent
      <4> QED
        BY <2>1, <2>5, <4>1 DEF should_relay_outbound
    <3>2. \/ on_outbound(e, cache[e.uid].groups) /\ UNCHANGED reading
          \/ reading' = e /\ UNCHANGED relayed
      BY <1>12, <2>5 DEF Consume
    <3> HIDE DEF e
    <3> QED
      BY <2>2, <2>3, <3>1, <3>2 DEF on_outbound
  <2> QED
    BY <2>4, <2>5
<1>13. CASE Resolve
  BY <1>13 DEF Resolve
<1>14. CASE Relay
  BY <1>14 DEF Relay, on_outbound, Shares
<1>15. CASE UNCHANGED vars
  BY <1>2, <1>15 DEF vars
<1> HIDE DEF Stamps
<1> QED
  BY <1>3, <1>4, <1>5, <1>6, <1>7, <1>8, <1>9, <1>10, <1>11, <1>12, <1>13, <1>14, <1>15 DEF Next
-----------------------------------------------------------------------------
(* Directed events.                                                        *)

LEMMA FromPeerDirected ==
  ASSUME NEW e \in FromPeer, injected \in Nat, e.dests # {}
  PROVE  Stamped(e).groups # {} /\ Stamped(e).dests = e.dests
  BY StampedIsEvent DEF FromPeer, Stamped, Event

LEMMA DirectedNext == TypeOK /\ Directed /\ [Next]_vars => Directed'
<1> SUFFICES ASSUME TypeOK, Directed, [Next]_vars PROVE Directed'
  OBVIOUS
<1> USE DEF Directed, DirectedInGroups, ots, past, counts
<1>1. injected \in Nat
  BY RelayAssumption DEF TypeOK
<1>2. ASSUME UNCHANGED <<inject_cot_parser, parsing, injecting, delivered>> PROVE Directed'
  BY <1>2
<1>3. ASSUME NEW u \in Uids, Expire(u) PROVE Directed'
  BY <1>2, <1>3 DEF Expire
<1>4. ASSUME NEW u \in Uids, NEW prov \in SUBSET ServerIds, NEW parses \in BOOLEAN,
             DeviceSends(u, prov, parses)
      PROVE  Directed'
  BY <1>2, <1>4 DEF DeviceSends
<1>5. ASSUME NEW u \in Uids, NEW gs \in SUBSET Groups, Administer(u, gs) PROVE Directed'
  BY <1>2, <1>5 DEF Administer
<1>6. ASSUME NEW e \in parsing, route_cot(e) PROVE Directed'
  BY <1>6 DEF route_cot
<1>7. ASSUME NEW e \in FromPeer, InjectToGroups(e) PROVE Directed'
  <2>1. Stamped(e).dests = {}
    BY <1>1, <1>7, StampedIsEvent DEF InjectToGroups, Stamped, Event
  <2>2. parsing' \subseteq parsing \cup {Stamped(e)}
        /\ UNCHANGED <<inject_cot_parser, injecting, delivered>>
    BY <1>7 DEF InjectToGroups, Parse
  <2> QED
    BY <2>1, <2>2
<1>8. ASSUME NEW e \in FromPeer, InjectDirected(e) PROVE Directed'
  <2>1. Stamped(e).groups # {}
    BY <1>1, <1>8, FromPeerDirected DEF InjectDirected
  <2>2. injecting'.evt = Stamped(e) /\ UNCHANGED <<inject_cot_parser, parsing, delivered>>
    BY <1>8 DEF InjectDirected
  <2> QED
    BY <2>1, <2>2
<1>9. ASSUME NEW c \in Uids, Address(c) PROVE Directed'
  <2>1. injecting' = [injecting EXCEPT !.todo = @ \ {c}] /\ injecting # Miss
        /\ UNCHANGED <<inject_cot_parser, parsing>>
    BY <1>9 DEF Address
  <2>2. injecting'.evt = injecting.evt
    BY <2>1 DEF TypeOK
  <2>3. \A d \in delivered' : d \in delivered \/ d.then \cap d.among # {}
    <3> DEFINE gs == injecting.evt.groups
               one == [to |-> c, among |-> gs, then |-> db[c]]
    <3>1. PICK ok \in _dm_reachable(c, gs) :
            delivered' = IF ok THEN delivered \cup {one} ELSE delivered
      BY <1>9 DEF Address
    <3>2. ok => db[c] \cap gs # {}
      BY Zenon DEF _dm_reachable
    <3>3. one.then = db[c] /\ one.among = gs
      OBVIOUS
    <3> HIDE DEF gs, one
    <3> QED
      BY <3>1, <3>2, <3>3
  <2> QED
    BY <2>1, <2>2, <2>3
<1>10. CASE FinishDirected
  BY <1>10 DEF FinishDirected, Parse
<1>11. ASSUME NEW p \in pending, _on_groups_message(p) PROVE Directed'
  BY <1>2, <1>11 DEF _on_groups_message
<1>12. CASE Consume \/ Resolve \/ Relay
  BY <1>2, <1>12 DEF Consume, Resolve, Relay
<1>13. CASE UNCHANGED vars
  BY <1>2, <1>13 DEF vars
<1> HIDE DEF Directed
<1> QED
  BY <1>3, <1>4, <1>5, <1>6, <1>7, <1>8, <1>9, <1>10, <1>11, <1>12, <1>13 DEF Next
-----------------------------------------------------------------------------
(* Shared groups.                                                          *)

\* What the history says of uid u may only grow while it has an entry.
LEMMA SharesGrow ==
  ASSUME TypeOK, Shares, UNCHANGED <<cache, rows, reading>>,
         held' \in [Uids -> SUBSET Groups], learnt' \in [Uids -> SUBSET AllGroups],
         \A u \in Uids : held[u] \subseteq held'[u] /\ learnt[u] \subseteq learnt'[u],
         \A u \in Uids : db'[u] \subseteq held'[u],
         \A p \in pending' : p \in pending
           \/ p.group \in IF p.by = "device" THEN held'[p.uid] ELSE learnt'[p.uid]
  PROVE  Shares'
<1>1. \A p \in pending : p.uid \in Uids
  BY DEF TypeOK, Update
<1>2. rows # Miss => reading.uid \in Uids
  BY DEF TypeOK, Shares, Event
<1> QED
  BY <1>1, <1>2 DEF Shares

LEMMA SharesNext == TypeOK /\ Shares /\ [Next]_vars => Shares'
<1> SUFFICES ASSUME TypeOK, Shares, [Next]_vars PROVE Shares'
  OBVIOUS
<1> USE DEF ots, past, counts
<1>1. injected \in Nat /\ firehose \in Seq(Event)
  BY RelayAssumption DEF TypeOK
<1>2. ASSUME UNCHANGED <<db, pending, cache, reading, rows, held, learnt>> PROVE Shares'
  BY <1>2 DEF Shares
<1>3. ASSUME NEW u \in Uids, Expire(u) PROVE Shares'
  <2>1. cache[u] \in Entry
    BY <1>3 DEF Expire, Hit, TypeOK
  <2>2. [cache[u] EXCEPT !.expired = TRUE].groups = cache[u].groups
    BY <2>1 DEF Entry
  <2>3. \A v \in Uids : cache'[v] # Miss => cache[v] # Miss /\ cache'[v].groups = cache[v].groups
    BY <1>3, <2>2 DEF Expire, Hit, TypeOK
  <2> QED
    BY <1>3, <2>3 DEF Expire, Shares
<1>4. ASSUME NEW u \in Uids, NEW prov \in SUBSET ServerIds, NEW parses \in BOOLEAN,
             DeviceSends(u, prov, parses)
      PROVE  Shares'
  <2>1. UNCHANGED <<db, cache, rows, reading, held, learnt>>
    BY <1>4 DEF DeviceSends
  <2>2. \A p \in pending' : p \in pending \/ (p.by = "device" /\ p.uid = u /\ p.group \in db[u])
    BY <1>4 DEF DeviceSends
  <2>3. db[u] \subseteq held[u]
    BY DEF Shares
  <2> QED
    BY <2>1, <2>2, <2>3 DEF Shares
<1>5. ASSUME NEW u \in Uids, NEW gs \in SUBSET Groups, Administer(u, gs) PROVE Shares'
  <2>1. UNCHANGED <<cache, rows, reading, learnt, pending>>
    BY <1>5 DEF Administer
  <2>2. /\ held' \in [Uids -> SUBSET Groups]
        /\ \A v \in Uids : held[v] \subseteq held'[v] /\ db'[v] \subseteq held'[v]
    BY <1>5 DEF Administer, TypeOK, Shares
  <2> QED
    BY <2>1, <2>2, SharesGrow DEF TypeOK
<1>6. ASSUME NEW e \in parsing, route_cot(e) PROVE Shares'
  <2>1. UNCHANGED <<db, cache, rows, reading, held>> /\ e.uid \in Uids
    BY <1>6 DEF route_cot, TypeOK, Event
  <2>2. /\ learnt' \in [Uids -> SUBSET AllGroups]
        /\ \A v \in Uids : learnt[v] \subseteq learnt'[v]
        /\ \A p \in pending' : p \in pending
              \/ (p.by # "device" /\ p.uid = e.uid /\ p.group \in learnt'[e.uid])
    <3>1. CASE e.dests = {}
      <4>1. /\ pending' = pending \cup {[uid |-> e.uid, group |-> Anon, by |-> "peer"]}
            /\ learnt' = [learnt EXCEPT ![e.uid] = @ \cup {Anon}]
        BY <1>6, <3>1 DEF route_cot
      <4>2. learnt \in [Uids -> SUBSET AllGroups] /\ Anon \in AllGroups
        BY DEF TypeOK, AllGroups
      <4>3. /\ learnt' \in [Uids -> SUBSET AllGroups]
            /\ \A v \in Uids : learnt[v] \subseteq learnt'[v]
            /\ Anon \in learnt'[e.uid]
        BY <2>1, <4>1, <4>2
      <4> QED
        BY <4>1, <4>3
    <3>2. CASE e.dests # {}
      BY <1>6, <2>1, <3>2 DEF route_cot, TypeOK
    <3> QED
      BY <3>1, <3>2
  <2>3. \A v \in Uids : held[v] \subseteq held'[v] /\ db'[v] \subseteq held'[v]
    BY <2>1 DEF Shares
  <2> QED
    BY <2>1, <2>2, <2>3, SharesGrow DEF TypeOK
<1>7. ASSUME NEW e \in FromPeer, InjectToGroups(e) PROVE Shares'
  <2>1. UNCHANGED <<db, cache, rows, reading, held>> /\ e.uid \in Uids /\ e.groups \subseteq Groups
    BY <1>1, <1>7, StampedIsEvent DEF InjectToGroups, Event
  <2>2. /\ learnt' \in [Uids -> SUBSET AllGroups]
        /\ \A v \in Uids : learnt[v] \subseteq learnt'[v]
        /\ e.groups \subseteq learnt'[e.uid]
    BY <1>7, <2>1 DEF InjectToGroups, TypeOK, AllGroups
  <2>3. \A p \in pending' : p \in pending
              \/ (p.by = "peer" /\ p.uid = e.uid /\ p.group \in e.groups)
    BY <1>7 DEF InjectToGroups
  <2>4. \A v \in Uids : held[v] \subseteq held'[v] /\ db'[v] \subseteq held'[v]
    BY <2>1 DEF Shares
  <2> QED
    BY <2>1, <2>2, <2>3, <2>4, SharesGrow DEF TypeOK
<1>8. ASSUME NEW e \in FromPeer, InjectDirected(e) PROVE Shares'
  BY <1>2, <1>8 DEF InjectDirected
<1>9. ASSUME NEW c \in Uids, Address(c) PROVE Shares'
  BY <1>2, <1>9 DEF Address
<1>10. CASE FinishDirected
  BY <1>2, <1>10 DEF FinishDirected
<1>11. ASSUME NEW p \in pending, _on_groups_message(p) PROVE Shares'
  <2>1. p.uid \in Uids /\ p.group \in held[p.uid] \cup learnt[p.uid]
    BY DEF TypeOK, Update, Shares
  <2>2. \A v \in Uids \ {p.uid} : cache'[v] = cache[v]
    BY <1>11, <2>1 DEF _on_groups_message, update, TypeOK
  <2>3. cache'[p.uid].groups =
         {p.group} \cup IF cache[p.uid] = Miss THEN {} ELSE cache[p.uid].groups
    BY <1>11, <2>1 DEF _on_groups_message, update, TypeOK
  <2>4. UNCHANGED <<db, rows, reading, held, learnt>> /\ pending' \subseteq pending
    BY <1>11 DEF _on_groups_message
  <2>5. cache'[p.uid].groups # {} /\ cache'[p.uid].groups \subseteq held[p.uid] \cup learnt[p.uid]
    BY <2>1, <2>3 DEF Shares
  <2> QED
    BY <2>1, <2>2, <2>4, <2>5 DEF Shares
<1>12. CASE Consume
  <2> DEFINE u == clean_for_relay(Head(firehose)).uid
  <2>1. u \in Uids
    <3>1. Head(firehose) \in Event
      BY <1>1, <1>12, HeadTailProperties DEF Consume
    <3> QED
      BY <3>1, CleanIsEvent DEF Event
  <2>2. CASE UNCHANGED <<cache, reading, held, learnt>>
    BY <1>2, <1>12, <2>2 DEF Consume
  <2>3. CASE cache' = Evict(cache, u) /\ Forget(u)
    <3> HIDE DEF u
    <3>1. reading = Miss /\ UNCHANGED <<db, pending, rows>>
      BY <1>12 DEF Consume
    <3>2. rows' = Miss
      BY <3>1 DEF Shares
    <3>3. /\ \A v \in Uids \ {u} :
               cache'[v] = cache[v] /\ held'[v] = held[v] /\ learnt'[v] = learnt[v]
          /\ cache'[u] = Miss
          /\ held'[u] = db[u] \cup Announced(u, "device")
          /\ learnt'[u] = Announced(u, "peer")
      BY <2>1, <2>3 DEF Evict, Forget, TypeOK
    <3>4. \A p \in pending : p.uid \in Uids /\ p.by \in {"device", "peer"}
      BY DEF TypeOK, Update
    <3>5. \A p \in pending : p.group \in IF p.by = "device" THEN held'[p.uid] ELSE learnt'[p.uid]
      BY <3>3, <3>4 DEF Announced, Shares
    <3> QED
      BY <2>1, <3>1, <3>2, <3>3, <3>5 DEF Shares
  <2> QED
    BY <1>12, <2>2, <2>3 DEF Consume
<1>13. CASE Resolve
  BY <1>13 DEF Resolve, Shares, TypeOK, Event
<1>14. CASE Relay
  <2>1. reading.uid \in Uids /\ rows # {} /\ rows \subseteq held[reading.uid] /\ rows' = Miss
    BY <1>14 DEF Relay, Shares, TypeOK, Event
  <2>2. cache'[reading.uid].groups = rows /\ \A v \in Uids \ {reading.uid} : cache'[v] = cache[v]
    BY <1>14, <2>1 DEF Relay, set_groups, TypeOK
  <2> QED
    BY <1>14, <2>1, <2>2 DEF Relay, Shares
<1>15. CASE UNCHANGED vars
  BY <1>2, <1>15 DEF vars
<1> QED
  BY <1>3, <1>4, <1>5, <1>6, <1>7, <1>8, <1>9, <1>10, <1>11, <1>12, <1>13, <1>14, <1>15 DEF Next
-----------------------------------------------------------------------------
IInv == TypeOK /\ Stamps /\ Directed /\ Shares

LEMMA InitIInv == Init => IInv
<1> SUFFICES ASSUME Init PROVE IInv
  OBVIOUS
<1>1. TypeOK
  BY TypeInit
<1>2. Len(firehose) = 0
  BY DEF Init
<1> QED
  BY <1>1, <1>2
  DEF Init, IInv, Stamps, NoneRelayedBack, Directed, DirectedInGroups, Shares

LEMMA Invariance == Spec => []IInv
<1>1. IInv /\ [Next]_vars => IInv'
  BY TypeNext, StampsNext, DirectedNext, SharesNext DEF IInv
<1> QED
  BY <1>1, InitIInv, PTL DEF Spec

\* TypeOK holds for any devices, groups and admissions.
THEOREM TypeCorrect == Spec => []TypeOK
<1>1. IInv => TypeOK
  BY DEF IInv
<1> QED
  BY <1>1, Invariance, PTL

\* stamp_inbound on the way in and should_relay_outbound on the way out: what a peer made is
\* never handed to on_outbound again, whoever returns it and in whatever order.
THEOREM NoEcho == Spec => []NoneRelayedBack
<1>1. IInv => NoneRelayedBack
  BY DEF IInv, Stamps
<1> QED
  BY <1>1, Invariance, PTL

\* inject publishes a directed event only to callsigns whose groups it resolved.
THEOREM DirectedGated == Spec => []DirectedInGroups
<1>1. IInv => DirectedInGroups
  BY DEF IInv, Directed
<1> QED
  BY <1>1, Invariance, PTL

\* EudGroupCache and the database query: whatever the main thread hands to on_outbound goes
\* out under groups the device has held since its entry was made, or its uid was given.
THEOREM SharesHeld == Spec => SharedAsHeld
<1>1. IInv /\ [Next]_vars =>
        [\A r \in relayed' \ relayed :
           r.groups # {} /\ r.groups \subseteq held[r.uid] \cup learnt[r.uid]]_vars
  <2> SUFFICES ASSUME IInv, Next, NEW r \in relayed' \ relayed
               PROVE  r.groups # {} /\ r.groups \subseteq held[r.uid] \cup learnt[r.uid]
    OBVIOUS
  <2> USE DEF IInv, past, on_outbound
  <2>1. CASE Consume
    <3> DEFINE e == clean_for_relay(Head(firehose))
    <3>1. e \in Event
      BY <2>1, HeadTailProperties, CleanIsEvent DEF Consume, TypeOK
    <3>2. e.uid \in Uids
      BY <3>1 DEF Event
    <3>3. on_outbound(e, cache[e.uid].groups) /\ Hit(e.uid)
      BY <2>1 DEF Consume
    <3> HIDE DEF e
    <3>4. r.uid = e.uid /\ r.groups = cache[e.uid].groups
      BY <3>3
    <3> QED
      BY <3>2, <3>3, <3>4 DEF Hit, Shares
  <2>2. CASE Relay
    BY <2>2 DEF Relay, Shares, TypeOK, Event
  <2>3. relayed' = relayed \/ Consume \/ Relay
    BY DEF Next, Expire, DeviceSends, Administer, route_cot, InjectToGroups, InjectDirected,
       Address, FinishDirected, _on_groups_message, Resolve
  <2> QED
    BY <2>1, <2>2, <2>3
<1> QED
  BY <1>1, Invariance, PTL DEF Spec, SharedAsHeld
-----------------------------------------------------------------------------
(* The resolver.  A call is clean while the database has been up and no      *)
(* other call's handler has run since it began; the invariant says that a    *)
(* clean call can fail in its first attempt only, and that in the second     *)
(* attempt whatever _conn holds works.                                       *)

Clean(t) == ~Idle(t) /\ ~outage[t] /\ ~cut[t]

\* What the handler finds in a clean call.
FirstFails(t) ==
  /\ pc[t] \in {"failed", "close", "clear"} => attempt[t] = 1
  /\ pc[t] = "close" => _conn # None

\* What the second attempt of a clean call finds.
SecondWorks(t) ==
  attempt[t] = 2 =>
    /\ pc[t] \in {"check", "connect", "cursor", "query"}
    /\ _conn = None \/ state[_conn] = "good"
    /\ pc[t] = "cursor" => _conn # None
    /\ pc[t] = "query" => state[cur[t]] = "good"

Served(t) ==
  /\ Clean(t) => up /\ FirstFails(t) /\ SecondWorks(t)
  /\ pc[t] \in {"abandon", "raised"} => outage[t] \/ cut[t]
  /\ pc[t] = "query" => cur[t] \in Handles

ResolverIInv == ResolverTypeOK /\ \A t \in Threads : Served(t)

LEMMA ResolverIInvInit == ResolverInit => ResolverIInv
  BY Zenon, SMT
  DEF ResolverInit, ResolverIInv, ResolverTypeOK, Served, Clean, FirstFails, SecondWorks, Idle

LEMMA DownKeeps == ASSUME ResolverIInv, Down PROVE ResolverIInv'
<1>1. ResolverTypeOK'
  BY DEF ResolverIInv, Down, ResolverTypeOK
<1>2. ASSUME NEW t \in Threads PROVE Served(t)'
  BY <1>2 DEF ResolverIInv, ResolverTypeOK, Down, Served, Clean, FirstFails, SecondWorks, Idle
<1> QED
  BY <1>1, <1>2 DEF ResolverIInv

LEMMA UpKeeps == ASSUME ResolverIInv, Up PROVE ResolverIInv'
<1>1. ResolverTypeOK'
  BY DEF ResolverIInv, Up, ResolverTypeOK
<1>2. ASSUME NEW t \in Threads PROVE Served(t)'
  BY <1>2 DEF ResolverIInv, ResolverTypeOK, Up, Served, Clean, FirstFails, SecondWorks, Idle
<1> QED
  BY <1>1, <1>2 DEF ResolverIInv

LEMMA CallKeeps == ASSUME ResolverIInv, NEW c \in Threads, Call(c) PROVE ResolverIInv'
<1>1. ResolverTypeOK'
  BY DEF ResolverIInv, Call, Goto, ResolverTypeOK
<1>2. ASSUME NEW t \in Threads, t # c PROVE Served(t)'
  <2>1. UNCHANGED <<up, state, _conn, cur, pc[t], attempt[t], cut[t]>>
    BY <1>2 DEF ResolverIInv, ResolverTypeOK, Call, Goto
  <2>2. outage'[t] = outage[t]
    <3>1. outage \in [Threads -> BOOLEAN] /\ c # t
      BY <1>2 DEF ResolverIInv, ResolverTypeOK
    <3>2. outage' = [outage EXCEPT ![c] = ~up]
      BY Zenon DEF Call
    <3>3. \A v : [outage EXCEPT ![c] = v][t] = outage[t]
      BY <3>1
    <3> QED
      BY <3>2, <3>3, Zenon
  <2> QED
    BY <1>2, <2>1, <2>2 DEF ResolverIInv, Served, Clean, FirstFails, SecondWorks, Idle
<1>3. Served(c)'
  <2>1. pc'[c] = "check" /\ attempt'[c] = 1 /\ up' = up
    BY DEF ResolverIInv, ResolverTypeOK, Call, Goto
  <2>2. outage'[c] = ~up
    BY Zenon DEF ResolverIInv, ResolverTypeOK, Call
  <2>3. ~outage'[c] => up'
    BY <2>1, <2>2, Zenon
  <2> QED
    BY <2>1, <2>3 DEF Served, Clean, FirstFails, SecondWorks, Idle
<1> QED
  BY <1>1, <1>2, <1>3 DEF ResolverIInv

LEMMA StepKeeps == ASSUME ResolverIInv, NEW c \in Threads, Step(c) PROVE ResolverIInv'
<1> USE ResolverAssumption DEF ResolverIInv, ResolverTypeOK, Goto
<1>1. CASE Check(c)
  <2>1. ResolverTypeOK'
    BY <1>1 DEF Check
  <2>2. ASSUME NEW t \in Threads PROVE Served(t)'
    BY <1>1, <2>2 DEF Check, Served, Clean, FirstFails, SecondWorks, Idle
  <2> QED
    BY <2>1, <2>2
<1>2. CASE _connect(c)
  <2>1. CASE ~up
    <3>1. ResolverTypeOK'
      BY <1>2, <2>1 DEF _connect
    <3>2. ASSUME NEW t \in Threads PROVE Served(t)'
      BY <1>2, <2>1, <3>2 DEF _connect, Served, Clean, FirstFails, SecondWorks, Idle
    <3> QED
      BY <3>1, <3>2
  <2>2. CASE up
    <3>1. PICK h \in Unused : /\ state' = [state EXCEPT ![h] = "good"]
                              /\ _conn' = h /\ pc' = [pc EXCEPT ![c] = "cursor"]
      BY <1>2, <2>2 DEF _connect
    <3>2. h \in Handles /\ h # None /\ \A t \in Threads : h # cur[t]
      BY DEF Unused
    <3>3. UNCHANGED <<up, attempt, cur, outage, cut>> /\ pc[c] = "connect"
      BY <1>2 DEF _connect
    <3>4. ResolverTypeOK'
      BY <3>1, <3>2, <3>3
    <3>5. ASSUME NEW t \in Threads PROVE Served(t)'
      BY <3>1, <3>2, <3>3, <3>5 DEF Served, Clean, FirstFails, SecondWorks, Idle
    <3> QED
      BY <3>4, <3>5
  <2> QED
    BY <2>1, <2>2
<1>3. CASE Cursor(c)
  <2>1. ResolverTypeOK'
    BY <1>3 DEF Cursor
  <2>2. ASSUME NEW t \in Threads PROVE Served(t)'
    BY <1>3, <2>2 DEF Cursor, Served, Clean, FirstFails, SecondWorks, Idle
  <2> QED
    BY <2>1, <2>2
<1>4. CASE Query(c)
  <2>1. ResolverTypeOK'
    BY <1>4 DEF Query
  <2>2. ASSUME NEW t \in Threads PROVE Served(t)'
    BY <1>4, <2>2 DEF Query, Served, Clean, FirstFails, SecondWorks, Idle
  <2> QED
    BY <2>1, <2>2
<1>5. CASE Handle(c)
  <2>1. ResolverTypeOK'
    BY <1>5 DEF Handle
  <2>2. ASSUME NEW t \in Threads PROVE Served(t)'
    BY <1>5, <2>2 DEF Handle, Served, Clean, FirstFails, SecondWorks, Idle
  <2> QED
    BY <2>1, <2>2
<1>6. CASE Close(c)
  <2>1. ResolverTypeOK'
    <3>1. cut' \in [Threads -> BOOLEAN]
      BY <1>6, Zenon DEF Close, CutOthers
    <3>2. /\ state' \in [Handles -> {"good", "dead", "closed"}]
         /\ UNCHANGED <<up, _conn, attempt, cur, outage>>
      BY <1>6 DEF Close
    <3>3. pc' \in [Threads -> {"idle", "check", "connect", "cursor", "query",
                              "failed", "close", "clear", "abandon", "answered", "raised"}]
      BY <1>6 DEF Close
    <3> QED
      BY <3>1, <3>2, <3>3
  <2>2. ASSUME NEW t \in Threads PROVE Served(t)'
    BY <1>6, <2>2 DEF Close, CutOthers, Served, Clean, FirstFails, SecondWorks, Idle
  <2> QED
    BY <2>1, <2>2
<1>7. CASE Clear(c)
  <2>1. ResolverTypeOK'
    BY <1>7 DEF Clear, CutOthers
  <2>2. ASSUME NEW t \in Threads PROVE Served(t)'
    BY <1>7, <2>2 DEF Clear, CutOthers, Served, Clean, FirstFails, SecondWorks, Idle
  <2> QED
    BY <2>1, <2>2
<1>8. CASE Abandon(c)
  <2>1. ResolverTypeOK'
    BY <1>8 DEF Abandon, CutOthers
  <2>2. ASSUME NEW t \in Threads PROVE Served(t)'
    BY <1>8, <2>2 DEF Abandon, CutOthers, Served, Clean, FirstFails, SecondWorks, Idle
  <2> QED
    BY <2>1, <2>2
<1> QED
  BY <1>1, <1>2, <1>3, <1>4, <1>5, <1>6, <1>7, <1>8 DEF Step

LEMMA ResolverIInvNext == ResolverIInv /\ [ResolverNext]_resolver_vars => ResolverIInv'
<1> SUFFICES ASSUME ResolverIInv, [ResolverNext]_resolver_vars PROVE ResolverIInv'
  OBVIOUS
<1>1. CASE UNCHANGED resolver_vars
  BY <1>1
  DEF resolver_vars, ResolverIInv, ResolverTypeOK, Served, Clean, FirstFails, SecondWorks, Idle
<1> QED
  BY <1>1, DownKeeps, UpKeeps, CallKeeps, StepKeeps DEF ResolverNext

LEMMA ResolverInvariance == ResolverSpec => []ResolverIInv
  BY ResolverIInvInit, ResolverIInvNext, PTL DEF ResolverSpec

\* ResolverTypeOK holds for every set of threads and connections.
THEOREM ResolverTypeCorrect == ResolverSpec => []ResolverTypeOK
<1>1. ResolverIInv => ResolverTypeOK
  BY DEF ResolverIInv
<1> QED
  BY <1>1, ResolverInvariance, PTL

\* _run_query raises only if the database was down during the call or another thread's
\* handler closed or cleared the shared connection: whatever died before the call is
\* replaced by the second attempt, however many threads there are.
THEOREM CallsAreServed == ResolverSpec => []FailsForAReason
<1>1. ResolverIInv => FailsForAReason
  BY DEF ResolverIInv, Served, FailsForAReason
<1> QED
  BY <1>1, ResolverInvariance, PTL
=============================================================================
