------------------------ MODULE FederationMeshProofs ------------------------
(* Relaying in a network of any size and shape, with any limits, any group   *)
(* policies and any number of sessions lost and reopened: provenance is a    *)
(* simple path, no copy outlives a limit of a node that relayed it, an event *)
(* is delivered into the groups the policies along its path make of its own, *)
(* and a settled network delivers it over every path that lets it through.   *)
EXTENDS FederationMesh, SequenceTheorems, FiniteSetTheorems, WellFoundedInduction, TLAPS

\* What is true of every copy in flight.  Neither half is inductive alone: the hop guard
\* bounds the number of nodes only because hops counts them.
Sound(c) == CopyOK(c) /\ SimplePath(c) /\ WithinCeilings(c)

LEMMA LimitsAreNumbers == Limits \subseteq Int
  BY HopsAssumption DEF Limits

LEMMA LinkEnds ==
  ASSUME NEW l \in Link
  PROVE  sender(l) \in Node /\ receiver(l) \in Node /\ default_max_hops(l) \in Limits
<1>1. l.dial \in Dial /\ l.dial \in Node \X Node
  BY DialAssumption DEF Link
<1>2. sender(l) \in Node /\ receiver(l) \in Node
  BY <1>1 DEF sender, receiver
<1> QED
  BY <1>1, <1>2 DEF default_max_hops, Limits

\* The budget a receiver goes on with: one of the limits, and, when its own limit or the
\* received budget is positive, positive and above neither of the positive ones.
LEMMA ResolvedBudget ==
  ASSUME NEW wire \in Int, NEW local \in Int
  PROVE  /\ _resolve_max_hops(wire, local) \in {wire, local}
         /\ local > 0 => _resolve_max_hops(wire, local) \in 1..local
         /\ wire > 0 => _resolve_max_hops(wire, local) \in 1..wire
  BY DEF _resolve_max_hops

\* The groups node n shares an event with its peer m under.
SharedWith(n, m, groups) == map_outbound_groups(Registry[n], m, groups)

\* What a copy made by send_event over link l is.
LEMMA Prepared ==
  ASSUME NEW uid, NEW fed_meta, NEW groups, NEW l,
         NEW x \in prepare_outbound_event(uid, fed_meta, groups, l)
  PROVE  /\ ~LoopGuard(sender(l), fed_meta) /\ ~HopGuard(fed_meta)
         /\ x.uid = uid /\ x.link = l
         /\ x.groups = SharedWith(sender(l), receiver(l), groups)
         /\ x.groups # {}
         /\ x.seen = Stamp(sender(l), fed_meta, default_max_hops(l)).seen
         /\ x.hops = Stamp(sender(l), fed_meta, default_max_hops(l)).hops
         /\ x.max = Stamp(sender(l), fed_meta, default_max_hops(l)).max
<1> DEFINE shared == SharedWith(sender(l), receiver(l), groups)
<1>1. /\ ~LoopGuard(sender(l), fed_meta) /\ ~HopGuard(fed_meta) /\ shared # {}
      /\ x = [uid |-> uid, link |-> l,
              seen |-> Stamp(sender(l), fed_meta, default_max_hops(l)).seen,
              hops |-> Stamp(sender(l), fed_meta, default_max_hops(l)).hops,
              max |-> Stamp(sender(l), fed_meta, default_max_hops(l)).max,
              groups |-> shared]
  BY Zenon DEF prepare_outbound_event, SharedWith
<1> HIDE DEF shared
<1> QED
  BY <1>1 DEF shared

\* What on_outbound adds was prepared for one of the node's own links.
LEMMA FannedOut ==
  ASSUME NEW n, NEW src, NEW uid, NEW fed_meta, NEW groups,
         NEW x \in on_outbound(n, src, uid, fed_meta, groups)
  PROVE  /\ x.link \in Link /\ sender(x.link) = n
         /\ x \in prepare_outbound_event(uid, fed_meta, groups, x.link)
<1>1. PICK l \in active_links(n) : x \in prepare_outbound_event(uid, fed_meta, groups, l)
  BY DEF on_outbound
<1>2. x.link = l
  BY <1>1, Prepared
<1> QED
  BY <1>1, <1>2 DEF active_links

\* The copies of a local event.
LEMMA Originated ==
  ASSUME NEW n, NEW uid, NEW groups,
         NEW x \in on_outbound(n, None, uid, None, groups)
  PROVE  /\ x.link \in Link /\ sender(x.link) = n /\ x.uid = uid
         /\ x.groups = SharedWith(n, receiver(x.link), groups)
         /\ x.groups # {}
         /\ x.seen = <<n>> /\ x.hops = 1 /\ x.max = default_max_hops(x.link)
<1>1. /\ x.link \in Link /\ sender(x.link) = n
      /\ x \in prepare_outbound_event(uid, None, groups, x.link)
  BY FannedOut
<1>2. /\ x.uid = uid /\ x.groups # {}
      /\ x.groups = SharedWith(n, receiver(x.link), groups)
      /\ x.seen = Stamp(n, None, default_max_hops(x.link)).seen
      /\ x.hops = Stamp(n, None, default_max_hops(x.link)).hops
      /\ x.max = Stamp(n, None, default_max_hops(x.link)).max
  BY <1>1, Prepared
<1> QED
  BY <1>1, <1>2 DEF Stamp

\* The hop budget node n goes on with when it receives c.
Budget(c, n) == _resolve_max_hops(c.max, MaxHops[n])

\* What a receiver decodes from a sound copy.
LEMMA Decoded ==
  ASSUME NEW c, Sound(c), NEW n, n = receiver(c.link)
  PROVE  /\ n \in Node /\ MaxHops[n] \in Int /\ MaxHops[n] \in Limits
         /\ c.link \in Link
         /\ c.seen \in Seq(Node) /\ c.hops = Len(c.seen) /\ c.hops \in Nat \ {0}
         /\ c.seen[c.hops] = sender(c.link)
         /\ c.max \in Limits /\ c.max \in Int
         /\ Budget(c, n) \in Limits \cap Int
         /\ decode_fed_meta(c, n)
              = [seen |-> c.seen, hops |-> c.hops, max |-> Budget(c, n)]
         /\ decode_fed_meta(c, n) # None
<1> DEFINE meta == decode_fed_meta(c, n)
           budget == Budget(c, n)
<1>1. /\ c.link \in Link
      /\ c.seen \in Seq(Node) /\ c.hops = Len(c.seen) /\ c.hops \in Nat \ {0}
      /\ c.seen[c.hops] = sender(c.link)
      /\ c.max \in Limits /\ c.max \in Int
  <2>1. c.link \in Link /\ c.seen \in Seq(Node) /\ c.hops \in Nat /\ c.max \in Limits
    BY DEF Sound, CopyOK
  <2>2. c.hops = Len(c.seen) /\ c.hops > 0 /\ c.seen[c.hops] = sender(c.link)
    BY DEF Sound, SimplePath
  <2>3. c.max \in Int
    BY <2>1, LimitsAreNumbers
  <2>4. c.hops \in Nat \ {0}
    BY <2>1, <2>2
  <2> QED
    BY <2>1, <2>2, <2>3, <2>4
<1>2. n \in Node /\ MaxHops[n] \in Int /\ MaxHops[n] \in Limits
  BY <1>1, LinkEnds, HopsAssumption DEF Limits
<1>3. budget \in Int /\ budget \in Limits
  BY <1>1, <1>2, ResolvedBudget DEF Budget
<1>4. meta = [seen |-> c.seen, hops |-> c.hops, max |-> budget]
  BY DEF decode_fed_meta, Budget
<1>5. meta # None
  <2>1. meta \in FedMeta
    BY <1>1, <1>3, <1>4 DEF FedMeta
  <2> QED
    BY <2>1, NoneAssumption
<1> HIDE DEF meta, budget
<1> QED
  BY <1>1, <1>2, <1>3, <1>4, <1>5 DEF meta, budget

\* The copies a node relays of one it received.
LEMMA Relayed ==
  ASSUME NEW c, Sound(c), NEW n, n = receiver(c.link), NEW src, NEW locals,
         NEW x \in on_outbound(n, src, c.uid, decode_fed_meta(c, n), locals)
  PROVE  /\ x.link \in Link /\ sender(x.link) = n /\ x.uid = c.uid
         /\ x.groups = SharedWith(n, receiver(x.link), locals)
         /\ x.groups # {}
         /\ ~LoopGuard(n, decode_fed_meta(c, n)) /\ ~HopGuard(decode_fed_meta(c, n))
         /\ x.hops = c.hops + 1 /\ x.max = Budget(c, n)
<1> DEFINE meta == decode_fed_meta(c, n)
           budget == Budget(c, n)
<1>1. meta = [seen |-> c.seen, hops |-> c.hops, max |-> budget] /\ meta # None
  BY Decoded
<1> HIDE DEF meta, budget
<1>2. /\ x.link \in Link /\ sender(x.link) = n
      /\ x \in prepare_outbound_event(c.uid, meta, locals, x.link)
  BY FannedOut DEF meta
<1>3. /\ ~LoopGuard(n, meta) /\ ~HopGuard(meta) /\ x.uid = c.uid /\ x.groups # {}
      /\ x.groups = SharedWith(n, receiver(x.link), locals)
      /\ x.seen = Stamp(n, meta, default_max_hops(x.link)).seen
      /\ x.hops = Stamp(n, meta, default_max_hops(x.link)).hops
      /\ x.max = Stamp(n, meta, default_max_hops(x.link)).max
  BY <1>2, Prepared
<1>4. x.hops = c.hops + 1 /\ x.max = budget
  BY <1>1, <1>3 DEF Stamp
<1> QED
  BY <1>2, <1>3, <1>4 DEF meta, budget

LEMMA RelayedSeen ==
  ASSUME NEW c, Sound(c), NEW n, n = receiver(c.link), NEW src, NEW locals,
         NEW x \in on_outbound(n, src, c.uid, decode_fed_meta(c, n), locals)
  PROVE  x.seen = Append(c.seen, n)
<1> DEFINE meta == decode_fed_meta(c, n)
<1>1. meta.seen = c.seen /\ meta # None
  BY Decoded
<1> HIDE DEF meta
<1>2. /\ x.link \in Link /\ sender(x.link) = n
      /\ x \in prepare_outbound_event(c.uid, meta, locals, x.link)
  BY FannedOut DEF meta
<1>3. x.seen = Stamp(n, meta, default_max_hops(x.link)).seen
  BY <1>2, Prepared
<1> QED
  BY <1>1, <1>3 DEF Stamp

\* A local event leaves with a provenance of one node.
LEMMA OriginatedSound ==
  ASSUME NEW n \in Node, NEW uid, NEW groups,
         NEW x \in on_outbound(n, None, uid, None, groups)
  PROVE  Sound(x) /\ x.uid = uid
<1>1. /\ x.link \in Link /\ sender(x.link) = n /\ x.uid = uid /\ x.groups # {}
      /\ x.seen = <<n>> /\ x.hops = 1 /\ x.max = default_max_hops(x.link)
  BY Originated
<1>2. x.max \in Limits
  BY <1>1, LinkEnds
<1>3. x.seen \in Seq(Node) /\ Len(x.seen) = 1 /\ x.seen[1] = n
  BY <1>1
<1>4. CopyOK(x)
  BY <1>1, <1>2, <1>3 DEF CopyOK
<1>5. SimplePath(x)
  BY <1>1, <1>3 DEF SimplePath
<1>6. WithinCeilings(x)
  BY <1>1 DEF WithinCeilings
<1> QED
  BY <1>1, <1>4, <1>5, <1>6 DEF Sound

\* A relayed copy extends a sound one by a node that was not on its path, within the budget
\* of everyone before it and its own.
LEMMA RelayedSound ==
  ASSUME NEW c, Sound(c), NEW n, n = receiver(c.link), NEW src, NEW locals,
         NEW x \in on_outbound(n, src, c.uid, decode_fed_meta(c, n), locals)
  PROVE  Sound(x) /\ x.uid = c.uid
<1> DEFINE meta == decode_fed_meta(c, n)
           budget == Budget(c, n)
<1>1. /\ c.link \in Link
      /\ c.seen \in Seq(Node) /\ c.hops = Len(c.seen) /\ c.hops \in Nat \ {0}
      /\ c.max \in Limits /\ c.max \in Int
  BY Decoded
<1>2. n \in Node /\ MaxHops[n] \in Int /\ MaxHops[n] \in Limits
  BY Decoded
<1>3. budget \in Int /\ budget \in Limits
  BY Decoded
<1>4. meta = [seen |-> c.seen, hops |-> c.hops, max |-> budget]
  BY Decoded
<1>5. meta # None
  BY Decoded
<1>6. /\ x.link \in Link /\ sender(x.link) = n /\ x.uid = c.uid /\ x.groups # {}
      /\ ~LoopGuard(n, meta) /\ ~HopGuard(meta)
      /\ x.seen = Append(c.seen, n) /\ x.hops = c.hops + 1 /\ x.max = budget
  <2>1. /\ x.link \in Link /\ sender(x.link) = n /\ x.uid = c.uid /\ x.groups # {}
        /\ ~LoopGuard(n, meta) /\ ~HopGuard(meta)
        /\ x.hops = c.hops + 1 /\ x.max = budget
    BY Relayed
  <2>2. x.seen = Append(c.seen, n)
    BY RelayedSeen
  <2> QED
    BY <2>1, <2>2
<1> HIDE DEF meta, budget
<1>7. /\ x.seen \in Seq(Node) /\ Len(x.seen) = c.hops + 1
      /\ \A i \in 1..c.hops : x.seen[i] = c.seen[i] /\ c.seen[i] # n
      /\ x.seen[c.hops + 1] = n
  <2>1. \A i \in 1..Len(c.seen) : c.seen[i] # n
    BY <1>1, <1>4, <1>5, <1>6 DEF LoopGuard
  <2> QED
    BY <1>1, <1>2, <1>6, <2>1
<1>8. CopyOK(x)
  BY <1>1, <1>3, <1>6, <1>7 DEF CopyOK
<1>9. SimplePath(x)
  <2>1. \A i, j \in 1..c.hops : c.seen[i] = c.seen[j] => i = j
    BY <1>1 DEF Sound, SimplePath
  <2>2. \A i, j \in 1..(c.hops + 1) : x.seen[i] = x.seen[j] => i = j
    BY <1>1, <1>7, <2>1
  <2>3. DOMAIN x.seen = 1..(c.hops + 1)
    BY <1>7
  <2> QED
    BY <1>1, <1>6, <1>7, <2>2, <2>3 DEF SimplePath
<1>10. WithinCeilings(x)
  <2> SUFFICES ASSUME NEW i \in 2..(c.hops + 1), MaxHops[x.seen[i]] > 0
               PROVE  x.max \in 1..MaxHops[x.seen[i]] /\ x.hops <= x.max
    BY <1>6 DEF WithinCeilings
  <2>1. budget \in 1..MaxHops[x.seen[i]]
    <3>1. CASE i \in 2..c.hops
      <4>1. c.seen[i] \in Node /\ x.seen[i] = c.seen[i]
        BY <1>1, <1>7, <3>1, ElementOfSeq
      <4>2. c.max \in 1..MaxHops[c.seen[i]] /\ MaxHops[c.seen[i]] \in Int
        BY <3>1, <4>1, HopsAssumption DEF Sound, WithinCeilings
      <4>3. budget \in 1..c.max
        <5>1. c.max > 0
          BY <1>1, <4>2
        <5> QED
          BY <1>1, <1>2, <5>1, ResolvedBudget DEF budget, Budget
      <4> QED
        BY <4>1, <4>2, <4>3
    <3>2. CASE i = c.hops + 1
      BY <1>1, <1>2, <1>7, <3>2, ResolvedBudget DEF budget, Budget
    <3> QED
      BY <1>1, <3>1, <3>2
  <2>2. c.hops < budget
    BY <1>1, <1>3, <1>4, <1>5, <1>6, <2>1 DEF HopGuard
  <2> QED
    BY <1>1, <1>3, <1>6, <2>1, <2>2
<1> QED
  BY <1>6, <1>8, <1>9, <1>10 DEF Sound
-----------------------------------------------------------------------------
AllSound ==
  /\ TypeOK
  /\ \A c \in flight : Sound(c)

LEMMA AllSoundInit == Init => AllSound
<1> SUFFICES ASSUME Init PROVE AllSound
  OBVIOUS
<1>1. up \subseteq Dial /\ flight = {} /\ delivered = {} /\ losses \in 0..MaxLosses
  BY BoundsAssumption DEF Init
<1>2. events \in Seq(Event) /\ Len(events) <= MaxEvents
  BY BoundsAssumption, EmptySeq DEF Init
<1> QED
  BY <1>1, <1>2 DEF AllSound, TypeOK

LEMMA AllSoundOriginate ==
  ASSUME AllSound, NEW n \in Node, NEW groups \in SUBSET LocalGroups[n], Originate(n, groups)
  PROVE  AllSound'
<1> DEFINE new == [node |-> n, groups |-> groups, stable |-> up = Dial /\ losses = MaxLosses]
<1>1. /\ events' = Append(events, new) /\ UNCHANGED <<up, delivered, losses>>
      /\ Len(events) < MaxEvents /\ events \in Seq(Event)
      /\ flight' = flight \cup on_outbound(n, None, Len(events'), None, groups)
  BY DEF Originate, AllSound, TypeOK
<1>2. new \in Event
  <2>1. (up = Dial /\ losses = MaxLosses) \in BOOLEAN
    BY Zenon
  <2>2. groups \in SUBSET UNION {LocalGroups[m] : m \in Node}
    OBVIOUS
  <2> QED
    BY <2>1, <2>2, Zenon DEF Event
<1> HIDE DEF new
<1>3. /\ events' \in Seq(Event) /\ Len(events') = Len(events) + 1
      /\ Len(events) \in Nat /\ Len(events') <= MaxEvents
  BY <1>1, <1>2, BoundsAssumption
<1>4. ASSUME NEW c \in flight' PROVE Sound(c) /\ c.uid \in 1..Len(events')
  <2>1. CASE c \in flight
    BY <1>3, <2>1 DEF AllSound, TypeOK
  <2>2. CASE c \in on_outbound(n, None, Len(events'), None, groups)
    <3>1. Sound(c) /\ c.uid = Len(events')
      BY <2>2, OriginatedSound
    <3> QED
      BY <1>3, <3>1
  <2> QED
    BY <1>1, <2>1, <2>2
<1>5. \A d \in delivered' : d.uid \in 1..Len(events') /\ d.node \in Node /\ d.groups # {}
  BY <1>1, <1>3 DEF AllSound, TypeOK
<1> QED
  BY <1>1, <1>3, <1>4, <1>5 DEF AllSound, TypeOK, Sound

LEMMA AllSoundDeliver ==
  ASSUME AllSound, NEW c \in flight, Deliver(c)
  PROVE  AllSound'
<1> DEFINE n      == receiver(c.link)
           meta   == decode_fed_meta(c, n)
           locals == map_inbound_groups(Registry[n], sender(c.link), c.groups)
           out    == [uid |-> c.uid, node |-> n, seen |-> c.seen, groups |-> locals]
<1>1. /\ UNCHANGED <<up, events, losses>>
      /\ Sound(c) /\ c.uid \in 1..Len(events)
  BY DEF Deliver, AllSound, TypeOK
<1>2. ASSUME NEW x \in flight' PROVE Sound(x) /\ x.uid \in 1..Len(events)
  <2>1. CASE x \in flight
    BY <2>1 DEF AllSound, TypeOK
  <2>2. CASE x \notin flight
    <3>1. x \in on_outbound(n, c.link, c.uid, meta, locals)
      BY <2>2 DEF Deliver
    <3> HIDE DEF locals
    <3>2. Sound(x) /\ x.uid = c.uid
      BY <1>1, <3>1, RelayedSound
    <3> QED
      BY <1>1, <3>2
  <2> QED
    BY <2>1, <2>2
<1>3. ASSUME NEW d \in delivered' PROVE d.uid \in 1..Len(events) /\ d.node \in Node /\ d.groups # {}
  <2>1. CASE d \in delivered
    BY <2>1 DEF AllSound, TypeOK
  <2>2. CASE d \notin delivered
    <3>1. d = out /\ locals # {}
      BY <2>2 DEF Deliver
    <3>2. n \in Node
      BY <1>1, LinkEnds DEF Sound, CopyOK
    <3> QED
      BY <1>1, <3>1, <3>2
  <2> QED
    BY <2>1, <2>2
<1> QED
  BY <1>1, <1>2, <1>3 DEF AllSound, TypeOK, Sound

LEMMA AllSoundNext == AllSound /\ [Next]_vars => AllSound'
<1> SUFFICES ASSUME AllSound, [Next]_vars PROVE AllSound'
  OBVIOUS
<1>1. ASSUME NEW n \in Node, NEW groups \in SUBSET LocalGroups[n], Originate(n, groups)
      PROVE  AllSound'
  BY <1>1, AllSoundOriginate
<1>2. ASSUME NEW c \in flight, Deliver(c) PROVE AllSound'
  BY <1>2, AllSoundDeliver
<1>3. ASSUME NEW d \in Dial, LoseSession(d) PROVE AllSound'
  <2>1. /\ up' \subseteq Dial /\ losses' \in 0..MaxLosses /\ flight' \subseteq flight
        /\ UNCHANGED <<delivered, events>>
    BY <1>3, BoundsAssumption DEF LoseSession, AllSound, TypeOK
  <2> QED
    BY <2>1 DEF AllSound, TypeOK
<1>4. ASSUME NEW d \in Dial, OpenSession(d) PROVE AllSound'
  BY <1>4 DEF OpenSession, AllSound, TypeOK
<1>5. CASE UNCHANGED vars
  BY <1>5 DEF vars, AllSound, TypeOK
<1> QED
  BY <1>1, <1>2, <1>3, <1>4, <1>5 DEF Next

LEMMA AlwaysSound == Spec => []AllSound
  BY AllSoundInit, AllSoundNext, PTL DEF Spec

\* TYPE.  Every copy in flight is well formed and carries groups.
THEOREM TypeCorrect == Spec => []TypeOK
<1>1. AllSound => TypeOK
  BY DEF AllSound
<1> QED
  BY <1>1, AlwaysSound, PTL

\* SIMPLE PATHS.  In any network, no node sends an event on twice along one path, and the
\* hop count of a copy is the number of nodes that sent it.
THEOREM PathsAreSimple == Spec => []SimplePaths
<1>1. AllSound => SimplePaths
  BY DEF AllSound, Sound, SimplePaths
<1> QED
  BY <1>1, AlwaysSound, PTL

\* CEILINGS.  In any network, no copy is ever past a positive max_hops of a node that relayed
\* it, and the budget it carries is within every one of them.
THEOREM CeilingsHold == Spec => []Ceilings
<1>1. AllSound => Ceilings
  BY DEF AllSound, Sound, Ceilings
<1> QED
  BY <1>1, AlwaysSound, PTL
-----------------------------------------------------------------------------
(* What a path does to the groups of an event.                             *)

\* Induction over the naturals as a fact about sets: every non-empty set of them has a least
\* element.
LEMMA NatSetInduction ==
  ASSUME NEW S, 0 \in S, \A n \in Nat : n \in S => n + 1 \in S
  PROVE  Nat \subseteq S
<1> DEFINE T == Nat \ S
<1> SUFFICES ASSUME T # {} PROVE FALSE
  OBVIOUS
<1> HIDE DEF T
<1>1. PICK n \in T : \A k \in T : ~(<<k, n>> \in OpToRel(<, Nat))
  <2>1. T \subseteq Nat
    BY DEF T
  <2> QED
    BY <2>1, NatLessThanWellFounded, WFMin, Zenon
<1>2. n \in Nat /\ n # 0 /\ n - 1 \in Nat /\ n - 1 < n
  BY DEF T
<1>3. n - 1 \notin T
  BY <1>1, <1>2 DEF OpToRel
<1> QED
  BY <1>2, <1>3 DEF T

\* at gives the groups an event has at each node of the first k of a path: the local function
\* of GroupsAlong, cut at k.
IsAlong(at, k, path, groups) ==
  at = [i \in 1..k |-> IF i = 1 THEN groups ELSE Hop(path[i - 1], path[i], at[i - 1])]

\* The local function of GroupsAlong exists, for a path of any length ...
LEMMA AlongExists ==
  ASSUME NEW path, NEW groups, NEW n \in Nat
  PROVE  \E at : IsAlong(at, n, path, groups)
<1> DEFINE S == {k \in Nat : \E at : IsAlong(at, k, path, groups)}
<1>1. 0 \in S
  <2>1. IsAlong([i \in 1..0 |-> groups], 0, path, groups)
    BY DEF IsAlong
  <2> QED
    BY <2>1
<1>2. ASSUME NEW k \in Nat, k \in S PROVE k + 1 \in S
  <2>1. PICK at : IsAlong(at, k, path, groups)
    BY <1>2
  <2> DEFINE next == [i \in 1..(k + 1) |->
                        IF i = 1 THEN groups
                        ELSE Hop(path[i - 1], path[i], at[i - 1])]
  <2>2. \A i \in 1..k : next[i] = at[i]
    BY <2>1 DEF IsAlong
  <2>3. \A i \in 1..(k + 1) : i # 1 => next[i - 1] = at[i - 1]
    BY <2>2
  <2>4. next = [i \in 1..(k + 1) |->
                  IF i = 1 THEN groups ELSE Hop(path[i - 1], path[i], next[i - 1])]
    BY <2>3
  <2> HIDE DEF next
  <2>5. IsAlong(next, k + 1, path, groups)
    BY <2>4 DEF IsAlong
  <2> QED
    BY <2>5
<1> HIDE DEF S
<1>3. Nat \subseteq S
  BY <1>1, <1>2, NatSetInduction
<1> QED
  BY <1>3 DEF S

\* ... and the groups it gives at a node depend only on the path up to that node.
LEMMA AlongUnique ==
  ASSUME NEW p, NEW q, NEW groups, NEW m \in Nat, NEW n \in Nat, m <= n,
         \A i \in 1..m : p[i] = q[i],
         NEW f, IsAlong(f, m, p, groups), NEW g, IsAlong(g, n, q, groups)
  PROVE  \A i \in 1..m : f[i] = g[i]
<1> DEFINE S == {k \in Nat : k \in 1..m => f[k] = g[k]}
<1>1. 0 \in S
  OBVIOUS
<1>2. ASSUME NEW k \in Nat, k \in S PROVE k + 1 \in S
  <2> SUFFICES ASSUME k + 1 \in 1..m PROVE f[k + 1] = g[k + 1]
    OBVIOUS
  <2>1. f[k + 1] = IF k + 1 = 1 THEN groups ELSE Hop(p[k + 1 - 1], p[k + 1], f[k + 1 - 1])
    BY DEF IsAlong
  <2>2. g[k + 1] = IF k + 1 = 1 THEN groups ELSE Hop(q[k + 1 - 1], q[k + 1], g[k + 1 - 1])
    <3>1. k + 1 \in 1..n
      OBVIOUS
    <3> QED
      BY <3>1 DEF IsAlong
  <2>3. k + 1 - 1 = k
    OBVIOUS
  <2>4. CASE k = 0
    BY <2>1, <2>2, <2>4
  <2>5. CASE k # 0
    <3>1. k \in 1..m /\ k + 1 # 1
      BY <2>5
    <3>2. f[k] = g[k] /\ p[k] = q[k] /\ p[k + 1] = q[k + 1]
      BY <1>2, <3>1
    <3> QED
      BY <2>1, <2>2, <2>3, <3>1, <3>2
  <2> QED
    BY <2>4, <2>5
<1> HIDE DEF S
<1>3. Nat \subseteq S
  BY <1>1, <1>2, NatSetInduction
<1> QED
  BY <1>3 DEF S

\* So GroupsAlong is what that function gives at the end of the path.
LEMMA AlongFunction ==
  ASSUME NEW path, NEW groups, Len(path) \in Nat
  PROVE  \E at : /\ IsAlong(at, Len(path), path, groups)
                 /\ GroupsAlong(path, groups) = at[Len(path)]
<1> DEFINE at == CHOOSE at : IsAlong(at, Len(path), path, groups)
<1>1. \E f : IsAlong(f, Len(path), path, groups)
  BY AlongExists
<1>2. IsAlong(at, Len(path), path, groups)
  BY <1>1, Zenon
<1>3. GroupsAlong(path, groups) = at[Len(path)]
  BY Zenon DEF GroupsAlong, IsAlong
<1> QED
  BY <1>2, <1>3, Zenon

LEMMA GroupsAlongOne ==
  ASSUME NEW n \in Node, NEW groups
  PROVE  GroupsAlong(<<n>>, groups) = groups
<1>1. Len(<<n>>) = 1
  OBVIOUS
<1>2. PICK at : IsAlong(at, 1, <<n>>, groups) /\ GroupsAlong(<<n>>, groups) = at[1]
  BY <1>1, AlongFunction
<1> QED
  BY <1>2 DEF IsAlong

\* A path's last step.
LEMMA GroupsAlongStep ==
  ASSUME NEW path, NEW longer, Len(path) \in Nat \ {0}, Len(longer) = Len(path) + 1,
         \A i \in 1..Len(path) : longer[i] = path[i],
         NEW n, n = path[Len(path)], NEW m, m = longer[Len(path) + 1], NEW groups
  PROVE  GroupsAlong(longer, groups) = Hop(n, m, GroupsAlong(path, groups))
<1> DEFINE k == Len(path)
<1>1. k \in Nat \ {0} /\ k + 1 \in Nat /\ k + 1 - 1 = k /\ Len(longer) = k + 1
  OBVIOUS
<1>2. /\ \A i \in 1..k : longer[i] = path[i]
      /\ n = path[k] /\ m = longer[k + 1]
  OBVIOUS
<1>3. PICK f : IsAlong(f, k, path, groups) /\ GroupsAlong(path, groups) = f[k]
  BY AlongFunction
<1> HIDE DEF k
<1>4. PICK g : IsAlong(g, k + 1, longer, groups) /\ GroupsAlong(longer, groups) = g[k + 1]
  BY ONLY <1>1, AlongFunction
<1>5. f[k] = g[k]
  BY ONLY <1>1, <1>2, <1>3, <1>4, AlongUnique
<1>6. g[k + 1] = Hop(longer[k], longer[k + 1], g[k])
  BY ONLY <1>1, <1>4 DEF IsAlong
<1>7. longer[k] = path[k]
  BY <1>1, <1>2
<1> QED
  BY ONLY <1>2, <1>3, <1>4, <1>5, <1>6, <1>7
-----------------------------------------------------------------------------
(* Groups.                                                                 *)

\* CARRIED GROUPS.  A copy carries the groups its sender shares the event under, of those it
\* had there.
Carries(c) ==
  c.groups = SharedWith(sender(c.link), receiver(c.link),
                        GroupsAlong(c.seen, events[c.uid].groups))

\* What a receiver accepts of it is what the event's groups become one hop further on.
LEMMA Arrives ==
  ASSUME NEW c, Sound(c), Carries(c), NEW n, n = receiver(c.link)
  PROVE  map_inbound_groups(Registry[n], sender(c.link), c.groups)
           = GroupsAlong(Append(c.seen, n), events[c.uid].groups)
<1> DEFINE sent   == events[c.uid].groups
           path   == c.seen
           longer == Append(path, n)
           before == GroupsAlong(path, sent)
           from   == sender(c.link)
<1>1. /\ path \in Seq(Node) /\ Len(path) \in Nat \ {0} /\ from = path[Len(path)]
      /\ Len(longer) = Len(path) + 1 /\ n = longer[Len(path) + 1]
      /\ \A i \in 1..Len(path) : longer[i] = path[i]
  BY Decoded
<1>2. c.groups = SharedWith(from, n, before) /\ c.groups # {}
  BY DEF Carries, Sound, CopyOK
<1> HIDE DEF sent, path, longer, from
<1>3. GroupsAlong(longer, sent) = Hop(from, n, before)
  BY <1>1, GroupsAlongStep
<1> HIDE DEF before
<1>4. Hop(from, n, before) = map_inbound_groups(Registry[n], from, c.groups)
  BY <1>2, Zenon DEF Hop, SharedWith
<1>5. map_inbound_groups(Registry[n], from, c.groups) = GroupsAlong(longer, sent)
  BY <1>3, <1>4, Zenon
<1> QED
  BY <1>5, Zenon DEF sent, path, longer, from

AllCarry == (\A c \in flight : Carries(c)) /\ GroupsFollowPolicy

LEMMA AllCarryOriginate ==
  ASSUME AllSound, AllCarry, NEW n \in Node, NEW groups \in SUBSET LocalGroups[n],
         Originate(n, groups)
  PROVE  AllCarry'
<1> DEFINE new == [node |-> n, groups |-> groups, stable |-> up = Dial /\ losses = MaxLosses]
<1>1. /\ events' = Append(events, new) /\ UNCHANGED delivered
      /\ events \in Seq(Event)
      /\ flight' = flight \cup on_outbound(n, None, Len(events'), None, groups)
  BY DEF Originate, AllSound, TypeOK
<1>2. new.groups = groups
  OBVIOUS
<1> HIDE DEF new
<1>3. /\ Len(events') = Len(events) + 1 /\ events'[Len(events')] = new
      /\ \A u \in 1..Len(events) : events'[u] = events[u]
  BY <1>1
<1>4. ASSUME NEW c \in flight PROVE Carries(c)'
  <2>1. c.uid \in 1..Len(events) /\ Carries(c)
    BY DEF AllSound, TypeOK, AllCarry
  <2>2. events'[c.uid] = events[c.uid]
    BY <1>3, <2>1
  <2> QED
    BY <2>1, <2>2 DEF Carries
<1>5. ASSUME NEW c \in on_outbound(n, None, Len(events'), None, groups) PROVE Carries(c)'
  <2>1. /\ sender(c.link) = n /\ c.uid = Len(events') /\ c.seen = <<n>>
        /\ c.groups = SharedWith(n, receiver(c.link), groups)
    BY Originated
  <2>2. GroupsAlong(c.seen, events'[c.uid].groups) = groups
    BY <1>2, <1>3, <2>1, GroupsAlongOne
  <2> QED
    BY <2>1, <2>2 DEF Carries
<1>6. GroupsFollowPolicy'
  <2>1. \A d \in delivered : d.uid \in 1..Len(events)
    BY DEF AllSound, TypeOK
  <2>2. \A d \in delivered : events'[d.uid] = events[d.uid]
    BY <1>3, <2>1
  <2> QED
    BY <1>1, <2>2 DEF AllCarry, GroupsFollowPolicy
<1> QED
  BY <1>1, <1>4, <1>5, <1>6 DEF AllCarry

LEMMA AllCarryDeliver ==
  ASSUME AllSound, AllCarry, NEW c \in flight, Deliver(c)
  PROVE  AllCarry'
<1> DEFINE n      == receiver(c.link)
           meta   == decode_fed_meta(c, n)
           locals == map_inbound_groups(Registry[n], sender(c.link), c.groups)
<1>1. UNCHANGED events /\ Sound(c) /\ Carries(c)
  BY DEF Deliver, AllSound, AllCarry
<1>2. locals = GroupsAlong(Append(c.seen, n), events[c.uid].groups)
  BY <1>1, Arrives
<1>3. ASSUME NEW x \in flight' PROVE Carries(x)'
  <2>1. CASE x \in flight
    BY <1>1, <2>1 DEF AllCarry, Carries
  <2>2. CASE x \notin flight
    <3>1. x \in on_outbound(n, c.link, c.uid, meta, locals)
      BY <2>2 DEF Deliver
    <3> HIDE DEF locals
    <3>2. /\ sender(x.link) = n /\ x.uid = c.uid
          /\ x.groups = SharedWith(n, receiver(x.link), locals)
      BY <1>1, <3>1, Relayed
    <3>3. x.seen = Append(c.seen, n)
      BY <1>1, <3>1, RelayedSeen
    <3> QED
      BY <1>1, <1>2, <3>2, <3>3 DEF Carries
  <2> QED
    BY <2>1, <2>2
<1>4. ASSUME NEW d \in delivered'
      PROVE  d.groups = GroupsAlong(Append(d.seen, d.node), events'[d.uid].groups)
  <2>1. CASE d \in delivered
    BY <1>1, <2>1 DEF AllCarry, GroupsFollowPolicy
  <2>2. CASE d \notin delivered
    <3>1. d = [uid |-> c.uid, node |-> n, seen |-> c.seen, groups |-> locals]
      BY <2>2 DEF Deliver
    <3> HIDE DEF locals, n
    <3> QED
      BY <1>1, <1>2, <3>1
  <2> QED
    BY <2>1, <2>2
<1> QED
  BY <1>3, <1>4 DEF AllCarry, GroupsFollowPolicy

LEMMA AllCarryNext == AllSound /\ AllCarry /\ [Next]_vars => AllCarry'
<1> SUFFICES ASSUME AllSound, AllCarry, [Next]_vars PROVE AllCarry'
  OBVIOUS
<1>1. ASSUME NEW n \in Node, NEW groups \in SUBSET LocalGroups[n], Originate(n, groups)
      PROVE  AllCarry'
  BY <1>1, AllCarryOriginate
<1>2. ASSUME NEW c \in flight, Deliver(c) PROVE AllCarry'
  BY <1>2, AllCarryDeliver
<1>3. ASSUME flight' \subseteq flight, UNCHANGED <<delivered, events>> PROVE AllCarry'
  BY <1>3 DEF AllCarry, Carries, GroupsFollowPolicy
<1>4. ASSUME NEW d \in Dial, LoseSession(d) \/ OpenSession(d) PROVE AllCarry'
  BY <1>3, <1>4 DEF LoseSession, OpenSession
<1>5. CASE UNCHANGED vars
  BY <1>3, <1>5 DEF vars
<1> QED
  BY <1>1, <1>2, <1>4, <1>5 DEF Next

LEMMA AlwaysCarries == Spec => []AllCarry
<1>1. Init => AllCarry
  BY DEF Init, AllCarry, GroupsFollowPolicy
<1> QED
  BY <1>1, AllCarryNext, AlwaysSound, PTL DEF Spec

\* GROUPS.  In any network, with any policies, an event is delivered into exactly the groups its
\* own become along its provenance (map_outbound_groups and map_inbound_groups at every hop).
THEOREM GroupsFollow == Spec => []GroupsFollowPolicy
<1>1. AllCarry => GroupsFollowPolicy
  BY DEF AllCarry
<1> QED
  BY <1>1, AlwaysCarries, PTL
-----------------------------------------------------------------------------
(* Open paths.                                                             *)

LEMMA HopOfNothing ==
  ASSUME NEW n, NEW m
  PROVE  Hop(n, m, {}) = {}
  BY DEF Hop, map_outbound_groups

\* The first j nodes of a path.
Prefix(p, j) == SubSeq(p, 1, j)

LEMMA PrefixFacts ==
  ASSUME NEW p \in Seq(Node), NEW j \in 1..Len(p)
  PROVE  /\ Prefix(p, j) \in Seq(Node) /\ Len(Prefix(p, j)) = j
         /\ \A i \in 1..j : Prefix(p, j)[i] = p[i]
         /\ j = Len(p) => Prefix(p, j) = p
         /\ j < Len(p) => Prefix(p, j + 1) = Append(Prefix(p, j), p[j + 1])
  BY DEF Prefix

LEMMA AlongPrefix ==
  ASSUME NEW p \in Seq(Node), NEW j \in 1..Len(p), j < Len(p), NEW groups,
         NEW n, n = p[j], NEW m, m = p[j + 1]
  PROVE  GroupsAlong(Prefix(p, j + 1), groups)
           = Hop(n, m, GroupsAlong(Prefix(p, j), groups))
<1>1. j + 1 \in 1..Len(p)
  OBVIOUS
<1>2. /\ Len(Prefix(p, j)) = j /\ Len(Prefix(p, j + 1)) = j + 1
      /\ \A i \in 1..j : Prefix(p, j + 1)[i] = Prefix(p, j)[i]
      /\ n = Prefix(p, j)[j] /\ m = Prefix(p, j + 1)[j + 1]
  BY <1>1, PrefixFacts
<1> QED
  BY <1>2, GroupsAlongStep

\* A path that lets an event through to its end lets it through to every node on it.
LEMMA OpenAllAlong ==
  ASSUME NEW p \in Seq(Node), NEW groups, GroupsAlong(p, groups) # {}
  PROVE  \A j \in 1..Len(p) : GroupsAlong(Prefix(p, j), groups) # {}
<1> DEFINE Open(j) == j \in 1..Len(p) => GroupsAlong(Prefix(p, j), groups) # {}
           S == {k \in Nat : Open(Len(p) - k)}
<1>1. Open(Len(p))
  BY PrefixFacts
<1>2. ASSUME NEW j \in 1..Len(p), j < Len(p), Open(j + 1) PROVE Open(j)
  <2>1. j + 1 \in 1..Len(p)
    BY <1>2
  <2>2. GroupsAlong(Prefix(p, j + 1), groups) # {}
    BY <1>2, <2>1
  <2> DEFINE n == p[j]
             m == p[j + 1]
  <2>3. GroupsAlong(Prefix(p, j + 1), groups) = Hop(n, m, GroupsAlong(Prefix(p, j), groups))
    BY <1>2, AlongPrefix
  <2> HIDE DEF n, m
  <2> QED
    BY <2>2, <2>3, HopOfNothing
<1> HIDE DEF Open
<1>3. 0 \in S
  BY <1>1
<1>4. ASSUME NEW k \in Nat, k \in S PROVE k + 1 \in S
  <2> DEFINE j == Len(p) - (k + 1)
  <2>1. j + 1 = Len(p) - k /\ j \in Int /\ j < Len(p)
    OBVIOUS
  <2>2. Open(j + 1)
    BY <1>4, <2>1
  <2>3. Open(j)
    <3>1. CASE j \in 1..Len(p)
      BY <1>2, <2>1, <2>2, <3>1
    <3>2. CASE j \notin 1..Len(p)
      BY <3>2 DEF Open
    <3> QED
      BY <3>1, <3>2
  <2> QED
    BY <2>3
<1> HIDE DEF S
<1>5. Nat \subseteq S
  BY <1>3, <1>4, NatSetInduction
<1>6. ASSUME NEW j \in 1..Len(p) PROVE Open(j)
  <2>1. Len(p) - j \in Nat /\ Len(p) - (Len(p) - j) = j
    OBVIOUS
  <2>2. Len(p) - j \in S
    BY <1>5, <2>1
  <2> QED
    BY <2>1, <2>2 DEF S
<1> QED
  BY <1>6 DEF Open

\* One round of SimpleWalks' local function, and that function up to length n.
Extend(walks, k) ==
  {Append(p, m) : p \in walks, m \in Node}
  \cap {p \in [1..k -> Node] :
          /\ \A i, j \in 1..k : p[i] = p[j] => i = j
          /\ \A i \in 2..k : Adjacent(p[i - 1], p[i])}

Starts == {<<n>> : n \in Node}

IsWalks(from, n) ==
  from = [k \in 1..n |-> IF k = 1 THEN Starts ELSE Extend(from[k - 1], k)]

LEMMA WalksExist ==
  ASSUME NEW n \in Nat
  PROVE  \E from : IsWalks(from, n)
<1> DEFINE S == {k \in Nat : \E from : IsWalks(from, k)}
<1>1. 0 \in S
  <2>1. IsWalks([i \in 1..0 |-> {}], 0)
    BY DEF IsWalks
  <2> QED
    BY <2>1
<1>2. ASSUME NEW k \in Nat, k \in S PROVE k + 1 \in S
  <2>1. PICK from : IsWalks(from, k)
    BY <1>2
  <2> DEFINE next == [j \in 1..(k + 1) |->
                        IF j = 1 THEN Starts ELSE Extend(from[j - 1], j)]
  <2>2. \A i \in 1..k : next[i] = from[i]
    BY <2>1 DEF IsWalks
  <2>3. ASSUME NEW i \in 1..(k + 1), i # 1 PROVE next[i - 1] = from[i - 1]
    <3>1. i - 1 \in 1..k
      BY <2>3
    <3> HIDE DEF next
    <3> QED
      BY <2>2, <3>1
  <2>4. next = [j \in 1..(k + 1) |->
                  IF j = 1 THEN Starts ELSE Extend(next[j - 1], j)]
    BY <2>3
  <2> HIDE DEF next
  <2>5. IsWalks(next, k + 1)
    BY <2>4 DEF IsWalks
  <2> QED
    BY <2>5
<1> HIDE DEF S
<1>3. Nat \subseteq S
  BY <1>1, <1>2, NatSetInduction
<1> QED
  BY <1>3 DEF S

\* A member of SimpleWalks is a walk over distinct nodes, each one adjacent to the next.
LEMMA WalkIsSimple ==
  ASSUME NEW p \in SimpleWalks
  PROVE  /\ p \in Seq(Node) /\ Len(p) >= 2
         /\ \A i, j \in 1..Len(p) : p[i] = p[j] => i = j
         /\ \A i \in 2..Len(p) : Adjacent(p[i - 1], p[i])
<1> DEFINE n == Cardinality(Node)
           from == CHOOSE from : IsWalks(from, n)
<1>1. n \in Nat
  BY NodeAssumption, FS_CardinalityType
<1> HIDE DEF n
<1>2. IsWalks(from, n)
  <2>1. \E f : IsWalks(f, n)
    BY <1>1, WalksExist
  <2> QED
    BY <2>1, Zenon
<1>3. SimpleWalks = UNION {from[k] : k \in 2..n}
  BY DEF SimpleWalks, IsWalks, Extend, Starts, n
<1> HIDE DEF from
<1>4. PICK k \in 2..n : p \in from[k]
  BY <1>3
<1>5. from[k] \subseteq {q \in [1..k -> Node] :
                           /\ \A i, j \in 1..k : q[i] = q[j] => i = j
                           /\ \A i \in 2..k : Adjacent(q[i - 1], q[i])}
  <2>1. k \in 1..n /\ k # 1
    BY <1>1
  <2> QED
    BY <1>2, <2>1 DEF IsWalks, Extend
<1>6. /\ p \in [1..k -> Node] /\ k \in Nat /\ k >= 2
      /\ \A i, j \in 1..k : p[i] = p[j] => i = j
      /\ \A i \in 2..k : Adjacent(p[i - 1], p[i])
  BY <1>1, <1>4, <1>5
<1>7. p \in Seq(Node) /\ Len(p) = k
  BY <1>6, SeqDef
<1> QED
  BY <1>6, <1>7

\* An open path is a path without repetitions on which every step shares and accepts something,
\* and which is shorter than every limit along it.
LEMMA OpenPath ==
  ASSUME NEW e, NEW p \in OpenPaths(e)
  PROVE  /\ p \in Seq(Node) /\ Len(p) >= 2 /\ p[1] = e.node
         /\ \A i, j \in 1..Len(p) : p[i] = p[j] => i = j
         /\ \A i \in 1..(Len(p) - 1) : Adjacent(p[i], p[i + 1])
         /\ \A j \in 1..Len(p) : GroupsAlong(Prefix(p, j), e.groups) # {}
         /\ Len(p) > 2 => \A h \in LimitsAlong(p) : h # -1 => Len(p) - 1 <= h
         /\ LimitsAlong(p) \subseteq Int
<1>1. /\ p \in SimpleWalks /\ p[1] = e.node /\ GroupsAlong(p, e.groups) # {}
      /\ Len(p) > 2 => \A h \in LimitsAlong(p) \ {-1} : Len(p) - 1 <= h
  BY DEF OpenPaths
<1>2. /\ p \in Seq(Node) /\ Len(p) >= 2
      /\ \A i, j \in 1..Len(p) : p[i] = p[j] => i = j
      /\ \A i \in 2..Len(p) : Adjacent(p[i - 1], p[i])
  BY <1>1, WalkIsSimple
<1>3. ASSUME NEW i \in 1..(Len(p) - 1) PROVE Adjacent(p[i], p[i + 1])
  <2>1. i + 1 \in 2..Len(p) /\ i + 1 - 1 = i
    BY <1>2
  <2> QED
    BY <1>2, <2>1
<1>4. \A j \in 1..Len(p) : GroupsAlong(Prefix(p, j), e.groups) # {}
  BY <1>1, <1>2, OpenAllAlong
<1>5. LimitsAlong(p) \subseteq Int
  <2>1. \A i \in 1..(Len(p) - 1) : p[i] \in Node
    BY <1>2
  <2> QED
    BY <2>1, HopsAssumption DEF LimitsAlong
<1> QED
  BY <1>1, <1>2, <1>3, <1>4, <1>5

LEMMA HopNeedsSharing ==
  ASSUME NEW n, NEW m, NEW groups, Hop(n, m, groups) # {}
  PROVE  SharedWith(n, m, groups) # {}
  BY Zenon DEF Hop, SharedWith

\* Between adjacent nodes there is a link each way, whichever of them dials.
LEMMA LinkBetween ==
  ASSUME NEW n \in Node, NEW m \in Node, Adjacent(n, m)
  PROVE  \E l \in Link : /\ sender(l) = n /\ receiver(l) = m /\ l.dial \in Dial
                         /\ \/ default_max_hops(l) = MaxHops[n]
                            \/ <<n, m>> \in Dial /\ default_max_hops(l) = PeerMaxHops[<<n, m>>]
<1>1. CASE <<n, m>> \in Dial
  <2> DEFINE l == [dial |-> <<n, m>>, down |-> FALSE]
  <2>1. l \in Link
    BY <1>1 DEF Link
  <2>2. sender(l) = n /\ receiver(l) = m /\ default_max_hops(l) = PeerMaxHops[<<n, m>>]
    BY DEF sender, receiver, default_max_hops
  <2> QED
    BY <1>1, <2>1, <2>2
<1>2. CASE <<m, n>> \in Dial
  <2> DEFINE l == [dial |-> <<m, n>>, down |-> TRUE]
  <2>1. l \in Link
    BY <1>2 DEF Link
  <2>2. sender(l) = n /\ receiver(l) = m /\ default_max_hops(l) = MaxHops[n]
    BY DEF sender, receiver, default_max_hops
  <2> QED
    BY <1>2, <2>1, <2>2
<1> QED
  BY <1>1, <1>2 DEF Adjacent

\* The source skip only ever drops a copy that would go back where the event came from.
LEMMA SkipIsBackwards ==
  ASSUME NEW l \in Link, NEW src \in Link, sender(l) = receiver(src), SkipsSource(l, src)
  PROVE  receiver(l) = sender(src)
<1>1. /\ l.dial \in Node \X Node /\ l.down \in BOOLEAN
      /\ src.dial \in Node \X Node /\ src.down \in BOOLEAN
  BY DialAssumption DEF Link
<1>2. CASE l.down
  BY <1>2, Zenon DEF SkipsSource
<1>3. CASE ~l.down
  <2>1. src.down /\ src.dial = l.dial
    BY <1>3, Zenon DEF SkipsSource
  <2> QED
    BY <1>3, <2>1, Zenon DEF sender, receiver
<1> QED
  BY <1>2, <1>3, Zenon

\* A copy that no guard and no policy drops is sent.
LEMMA Kept ==
  ASSUME NEW n, NEW src, NEW uid, NEW meta, NEW groups,
         NEW l \in active_links(n), ~SkipsSource(l, src),
         ~LoopGuard(n, meta), ~HopGuard(meta), SharedWith(n, receiver(l), groups) # {}
  PROVE  \E x \in on_outbound(n, src, uid, meta, groups) : x.link = l
<1>1. sender(l) = n
  BY DEF active_links
<1>2. prepare_outbound_event(uid, meta, groups, l) # {}
  BY <1>1, Zenon DEF prepare_outbound_event, SharedWith
<1>3. PICK x : x \in prepare_outbound_event(uid, meta, groups, l)
  BY <1>2
<1>4. x.link = l
  BY <1>3, Prepared
<1>5. x \in on_outbound(n, src, uid, meta, groups)
  BY <1>3 DEF on_outbound
<1> QED
  BY <1>4, <1>5
-----------------------------------------------------------------------------
(* Reach.                                                                  *)

\* c is on its way over p: it was sent on by a prefix of p, goes to p's next node, and its
\* budget is one of the limits along p.
Between(c, p) ==
  /\ c.max \in LimitsAlong(p)
  /\ \E j \in 1..(Len(p) - 1) : c.seen = Prefix(p, j) /\ receiver(c.link) = p[j + 1]

DeliveredOver(u, p) ==
  \E d \in delivered : d.uid = u /\ d.node = p[Len(p)] /\ d.seen = SubSeq(p, 1, Len(p) - 1)

UnderWay ==
  \A u \in DOMAIN events :
    events[u].stable =>
      /\ up = Dial /\ losses = MaxLosses
      /\ \A p \in OpenPaths(events[u]) :
           DeliveredOver(u, p) \/ \E c \in flight : c.uid = u /\ Between(c, p)

\* A local event of a settled network sets out over every open path.
LEMMA SetsOut ==
  ASSUME up = Dial, NEW e, NEW p \in OpenPaths(e), e.node \in Node, NEW uid
  PROVE  \E x \in on_outbound(e.node, None, uid, None, e.groups) : x.uid = uid /\ Between(x, p)
<1> DEFINE n == p[1]
           m == p[2]
           groups == e.groups
<1>1. /\ p \in Seq(Node) /\ Len(p) >= 2 /\ n = e.node /\ Adjacent(n, m)
      /\ n \in Node /\ m \in Node
      /\ GroupsAlong(Prefix(p, 2), groups) # {}
  BY OpenPath
<1>2. Prefix(p, 1) = <<n>>
  <2>1. Prefix(p, 1) \in Seq(Node) /\ Len(Prefix(p, 1)) = 1 /\ Prefix(p, 1)[1] = n
    <3>1. 1 \in 1..Len(p) /\ 1 \in 1..1
      BY <1>1
    <3> QED
      BY <1>1, <3>1, PrefixFacts
  <2> QED
    BY <2>1
<1> HIDE DEF n, m, groups
<1>3. SharedWith(n, m, groups) # {}
  <2>1. GroupsAlong(Prefix(p, 2), groups) = Hop(n, m, GroupsAlong(Prefix(p, 1), groups))
    <3>1. 1 \in 1..Len(p) /\ 1 < Len(p) /\ 1 + 1 = 2 /\ n = p[1] /\ m = p[2]
      BY <1>1 DEF n, m
    <3> QED
      BY <1>1, <3>1, AlongPrefix
  <2>2. GroupsAlong(Prefix(p, 1), groups) = groups
    BY <1>1, <1>2, GroupsAlongOne
  <2> QED
    BY <1>1, <2>1, <2>2, HopNeedsSharing
<1>4. PICK l \in Link : /\ sender(l) = n /\ receiver(l) = m /\ l.dial \in Dial
                        /\ \/ default_max_hops(l) = MaxHops[n]
                           \/ /\ <<n, m>> \in Dial
                              /\ default_max_hops(l) = PeerMaxHops[<<n, m>>]
  BY <1>1, LinkBetween
<1>5. default_max_hops(l) \in LimitsAlong(p)
  BY <1>1, <1>4 DEF LimitsAlong, n, m
<1>6. /\ l \in active_links(n) /\ ~SkipsSource(l, None)
      /\ ~LoopGuard(n, None) /\ ~HopGuard(None)
  BY <1>4 DEF active_links, SkipsSource, LoopGuard, HopGuard
<1>7. PICK x \in on_outbound(n, None, uid, None, groups) : x.link = l
  BY <1>3, <1>4, <1>6, Kept
<1>8. x.uid = uid /\ x.seen = <<n>> /\ x.max = default_max_hops(x.link)
  BY <1>7, Originated
<1>9. Between(x, p)
  <2>1. 1 \in 1..(Len(p) - 1) /\ receiver(x.link) = p[1 + 1] /\ x.seen = Prefix(p, 1)
    BY <1>1, <1>2, <1>4, <1>7, <1>8 DEF m
  <2>2. x.max \in LimitsAlong(p)
    BY <1>5, <1>7, <1>8
  <2> QED
    BY <2>1, <2>2 DEF Between
<1> QED
  BY <1>1, <1>8, <1>9 DEF groups

\* A copy on its way over an open path reaches the end of it or is sent on over it.
LEMMA GoesOn ==
  ASSUME up = Dial, NEW c, Sound(c), Carries(c), NEW e, e = events[c.uid],
         NEW p \in OpenPaths(e), Between(c, p),
         NEW n, n = receiver(c.link),
         NEW locals, locals = map_inbound_groups(Registry[n], sender(c.link), c.groups)
  PROVE  /\ locals # {}
         /\ \/ n = p[Len(p)] /\ c.seen = SubSeq(p, 1, Len(p) - 1)
            \/ \E x \in on_outbound(n, c.link, c.uid, decode_fed_meta(c, n), locals) :
                 x.uid = c.uid /\ Between(x, p)
<1> DEFINE sent == e.groups
           meta == decode_fed_meta(c, n)
<1>1. /\ p \in Seq(Node) /\ Len(p) >= 2
      /\ \A i, k \in 1..Len(p) : p[i] = p[k] => i = k
      /\ \A i \in 1..(Len(p) - 1) : Adjacent(p[i], p[i + 1])
      /\ \A k \in 1..Len(p) : GroupsAlong(Prefix(p, k), sent) # {}
      /\ Len(p) > 2 => \A h \in LimitsAlong(p) : h # -1 => Len(p) - 1 <= h
      /\ LimitsAlong(p) \subseteq Int
  <2>1. p \in OpenPaths(e)
    OBVIOUS
  <2> QED
    BY ONLY <2>1, OpenPath
<1>2. PICK j \in 1..(Len(p) - 1) : c.seen = Prefix(p, j) /\ n = p[j + 1]
  BY DEF Between
<1>3. c.max \in LimitsAlong(p)
  BY DEF Between
<1>4. /\ c.link \in Link /\ c.hops = j /\ sender(c.link) = p[j]
      /\ n \in Node
      /\ meta = [seen |-> c.seen, hops |-> c.hops, max |-> Budget(c, n)]
      /\ Budget(c, n) \in {c.max, MaxHops[n]}
  <2>1. /\ c.link \in Link /\ c.hops = Len(c.seen) /\ c.seen[c.hops] = sender(c.link)
        /\ n \in Node /\ c.max \in Int /\ MaxHops[n] \in Int
        /\ meta = [seen |-> c.seen, hops |-> c.hops, max |-> Budget(c, n)]
    BY Decoded
  <2>2. j \in 1..Len(p) /\ Len(Prefix(p, j)) = j /\ Prefix(p, j)[j] = p[j]
    <3>1. j \in 1..Len(p) /\ j \in 1..j
      BY <1>1
    <3> QED
      BY <1>1, <3>1, PrefixFacts
  <2>3. Budget(c, n) \in {c.max, MaxHops[n]}
    BY <2>1, ResolvedBudget DEF Budget
  <2> QED
    BY <1>2, <2>1, <2>2, <2>3
<1>5. Append(c.seen, n) = Prefix(p, j + 1) /\ j \in 1..Len(p) /\ j + 1 \in 1..Len(p)
  BY <1>1, <1>2, PrefixFacts
<1>6. locals = GroupsAlong(Prefix(p, j + 1), sent) /\ locals # {}
  <2>1. locals = GroupsAlong(Append(c.seen, n), sent)
    BY Arrives
  <2> QED
    BY <1>1, <1>5, <2>1
<1> HIDE DEF meta, sent
<1>7. CASE j + 1 = Len(p)
  BY <1>1, <1>2, <1>6, <1>7 DEF Prefix
<1>8. CASE j + 1 < Len(p)
  <2> DEFINE m == p[j + 2]
  <2>1. /\ j + 2 \in 1..Len(p) /\ m \in Node /\ Adjacent(n, m) /\ m # p[j]
        /\ j + 1 \in 1..(Len(p) - 1)
    BY <1>1, <1>2, <1>8
  <2>2. n = p[j + 1] /\ m = p[j + 1 + 1] /\ j + 1 + 1 = j + 2
    BY <1>2
  <2> HIDE DEF m
  <2>3. SharedWith(n, m, locals) # {}
    <3>1. GroupsAlong(Prefix(p, j + 1 + 1), sent)
            = Hop(n, m, GroupsAlong(Prefix(p, j + 1), sent))
      BY <1>1, <1>5, <1>8, <2>2, AlongPrefix
    <3>2. GroupsAlong(Prefix(p, j + 2), sent) # {}
      BY <1>1, <2>1
    <3> QED
      BY <1>6, <2>2, <3>1, <3>2, HopNeedsSharing
  <2>4. PICK l \in Link : sender(l) = n /\ receiver(l) = m /\ l.dial \in Dial
    BY <1>4, <2>1, LinkBetween
  <2>5. l \in active_links(n)
    BY <2>4 DEF active_links
  <2>6. ~SkipsSource(l, c.link)
    BY <1>4, <2>1, <2>4, SkipIsBackwards
  <2>7. ~LoopGuard(n, meta)
    <3>1. \A i \in 1..j : c.seen[i] = p[i]
      BY <1>1, <1>2, <1>5, PrefixFacts
    <3>2. \A i \in 1..j : p[i] # n
      BY <1>1, <1>2, <1>5
    <3>3. DOMAIN c.seen = 1..j
      BY <1>1, <1>2, <1>5, PrefixFacts
    <3> QED
      BY <1>4, <3>1, <3>2, <3>3 DEF LoopGuard
  <2>8. Budget(c, n) \in LimitsAlong(p)
    <3>1. MaxHops[n] \in LimitsAlong(p)
      BY <1>2, <2>1 DEF LimitsAlong
    <3> QED
      BY <1>3, <1>4, <3>1
  <2>9. ~HopGuard(meta)
    <3>1. Budget(c, n) # -1 => Len(p) - 1 <= Budget(c, n)
      BY <1>1, <1>8, <2>8
    <3>2. Budget(c, n) \in Int
      BY <1>1, <2>8
    <3> QED
      BY <1>1, <1>4, <1>8, <3>1, <3>2 DEF HopGuard
  <2>10. PICK x \in on_outbound(n, c.link, c.uid, meta, locals) : x.link = l
    BY <2>3, <2>4, <2>5, <2>6, <2>7, <2>9, Kept
  <2>11. x.uid = c.uid /\ x.max = Budget(c, n)
    BY <2>10, Relayed DEF meta
  <2>12. x.seen = Prefix(p, j + 1)
    <3>1. x.seen = Append(c.seen, n)
      BY <2>10, RelayedSeen DEF meta
    <3> QED
      BY <1>5, <3>1
  <2>13. Between(x, p)
    BY <2>1, <2>2, <2>4, <2>8, <2>10, <2>11, <2>12 DEF Between
  <2> QED
    BY <1>6, <2>10, <2>11, <2>13 DEF meta
<1> QED
  BY <1>1, <1>2, <1>7, <1>8

LEMMA UnderWayOriginate ==
  ASSUME AllSound, UnderWay, NEW n \in Node, NEW groups \in SUBSET LocalGroups[n],
         Originate(n, groups)
  PROVE  UnderWay'
<1> DEFINE new == [node |-> n, groups |-> groups, stable |-> up = Dial /\ losses = MaxLosses]
           uid == Len(events')
<1>1. /\ events' = Append(events, new) /\ UNCHANGED <<up, delivered, losses>>
      /\ events \in Seq(Event)
      /\ flight' = flight \cup on_outbound(n, None, uid, None, groups)
  BY DEF Originate, AllSound, TypeOK
<1>2. new.node = n /\ new.groups = groups /\ (new.stable <=> up = Dial /\ losses = MaxLosses)
  BY Zenon
<1> HIDE DEF new
<1>3. /\ uid = Len(events) + 1 /\ events'[uid] = new /\ DOMAIN events = 1..Len(events)
      /\ Len(events) \in Nat /\ DOMAIN events' = 1..uid
      /\ \A u \in 1..Len(events) : events'[u] = events[u]
  BY <1>1
<1> HIDE DEF uid
<1> SUFFICES ASSUME NEW u \in DOMAIN events', events'[u].stable
             PROVE  /\ up' = Dial /\ losses' = MaxLosses
                    /\ \A p \in OpenPaths(events'[u]) :
                         \/ DeliveredOver(u, p)'
                         \/ \E c \in flight' : c.uid = u /\ Between(c, p)
  BY DEF UnderWay, Between
<1>4. CASE u \in DOMAIN events
  <2>1. events'[u] = events[u]
    BY <1>3, <1>4
  <2>2. /\ up = Dial /\ losses = MaxLosses
        /\ \A p \in OpenPaths(events[u]) :
             DeliveredOver(u, p) \/ \E c \in flight : c.uid = u /\ Between(c, p)
    BY <1>4, <2>1 DEF UnderWay
  <2>3. \A p : DeliveredOver(u, p) => DeliveredOver(u, p)'
    BY <1>1 DEF DeliveredOver
  <2> QED
    BY <1>1, <2>1, <2>2, <2>3
<1>5. CASE u \notin DOMAIN events
  <2>1. u = uid /\ up = Dial /\ losses = MaxLosses
    BY <1>2, <1>3, <1>5
  <2>2. ASSUME NEW p \in OpenPaths(new)
        PROVE  \E c \in on_outbound(n, None, uid, None, groups) : c.uid = uid /\ Between(c, p)
    BY <1>2, <2>1, SetsOut
  <2> QED
    BY <1>1, <1>3, <2>1, <2>2
<1> QED
  BY <1>4, <1>5

LEMMA UnderWayDeliver ==
  ASSUME AllSound, AllCarry, UnderWay, NEW c \in flight, Deliver(c)
  PROVE  UnderWay'
<1> DEFINE n      == receiver(c.link)
           meta   == decode_fed_meta(c, n)
           locals == map_inbound_groups(Registry[n], sender(c.link), c.groups)
           out    == on_outbound(n, c.link, c.uid, meta, locals)
           record == [uid |-> c.uid, node |-> n, seen |-> c.seen, groups |-> locals]
<1>1. /\ UNCHANGED <<up, events, losses>>
      /\ Sound(c) /\ Carries(c) /\ c.uid \in DOMAIN events
  BY DEF Deliver, AllSound, AllCarry, TypeOK
<1>2. /\ flight \ {c} \subseteq flight' /\ delivered \subseteq delivered'
      /\ locals # {} => out \subseteq flight' /\ record \in delivered'
  BY Zenon DEF Deliver
<1> HIDE DEF meta, locals, out
<1> SUFFICES ASSUME NEW u \in DOMAIN events, events[u].stable,
                    NEW p \in OpenPaths(events[u])
             PROVE  \/ DeliveredOver(u, p)'
                    \/ \E x \in flight' : x.uid = u /\ Between(x, p)
  BY <1>1 DEF UnderWay, Between
<1>3. up = Dial /\ (DeliveredOver(u, p) \/ \E x \in flight : x.uid = u /\ Between(x, p))
  BY DEF UnderWay
<1>4. CASE DeliveredOver(u, p)
  BY <1>2, <1>4 DEF DeliveredOver
<1>5. ASSUME NEW x \in flight, x # c, x.uid = u, Between(x, p)
      PROVE  \E y \in flight' : y.uid = u /\ Between(y, p)
  BY <1>2, <1>5
<1>6. CASE c.uid = u /\ Between(c, p)
  <2> DEFINE e == events[u]
  <2>1. e = events[c.uid] /\ p \in OpenPaths(e)
    BY <1>6
  <2> HIDE DEF e
  <2>2. /\ locals # {}
        /\ \/ n = p[Len(p)] /\ c.seen = SubSeq(p, 1, Len(p) - 1)
           \/ \E x \in out : x.uid = c.uid /\ Between(x, p)
    BY <1>1, <1>3, <1>6, <2>1, GoesOn DEF meta, locals, out
  <2>3. CASE n = p[Len(p)] /\ c.seen = SubSeq(p, 1, Len(p) - 1)
    <3>1. record \in delivered' /\ record.uid = u /\ record.node = n /\ record.seen = c.seen
      BY <1>2, <1>6, <2>2
    <3> QED
      BY <2>3, <3>1 DEF DeliveredOver
  <2>4. CASE \E x \in out : x.uid = c.uid /\ Between(x, p)
    BY <1>2, <1>6, <2>2, <2>4
  <2> QED
    BY <2>2, <2>3, <2>4
<1> QED
  BY <1>3, <1>4, <1>5, <1>6

LEMMA UnderWayNext == AllSound /\ AllCarry /\ UnderWay /\ [Next]_vars => UnderWay'
<1> SUFFICES ASSUME AllSound, AllCarry, UnderWay, [Next]_vars PROVE UnderWay'
  OBVIOUS
<1>1. ASSUME NEW n \in Node, NEW groups \in SUBSET LocalGroups[n], Originate(n, groups)
      PROVE  UnderWay'
  BY <1>1, UnderWayOriginate
<1>2. ASSUME NEW c \in flight, Deliver(c) PROVE UnderWay'
  BY <1>2, UnderWayDeliver
<1>3. ASSUME NEW d \in Dial, LoseSession(d) PROVE UnderWay'
  <2>1. losses < MaxLosses /\ losses # MaxLosses /\ events' = events
    BY <1>3, BoundsAssumption DEF LoseSession, AllSound, TypeOK
  <2>2. \A u \in DOMAIN events : ~events[u].stable
    BY <2>1 DEF UnderWay
  <2> QED
    BY <2>1, <2>2 DEF UnderWay
<1>4. ASSUME NEW d \in Dial, OpenSession(d) PROVE UnderWay'
  <2>1. up # Dial /\ events' = events
    BY <1>4 DEF OpenSession
  <2>2. \A u \in DOMAIN events : ~events[u].stable
    BY <2>1 DEF UnderWay
  <2> QED
    BY <2>1, <2>2 DEF UnderWay
<1>5. CASE UNCHANGED vars
  BY <1>5 DEF vars, UnderWay, DeliveredOver, Between
<1> QED
  BY <1>1, <1>2, <1>3, <1>4, <1>5 DEF Next

\* REACH.  In any finite network whose sessions are up for good, an event of which no copy is left
\* in flight was delivered over every simple path whose policies and limits let it through: the
\* loop guard, the hop guard and the source skip of on_outbound drop nothing but what they must.
THEOREM EveryoneIsReached == Spec => []ReachesEveryone
<1>1. Init => UnderWay
  BY DEF Init, UnderWay
<1>2. UnderWay => ReachesEveryone
  <2> SUFFICES ASSUME UnderWay, NEW u \in DOMAIN events, events[u].stable,
                      \A c \in flight : c.uid # u
               PROVE  Reached(u)
    BY DEF ReachesEveryone
  <2>1. \A p \in OpenPaths(events[u]) : DeliveredOver(u, p)
    BY DEF UnderWay
  <2> QED
    BY <2>1 DEF Reached, DeliveredOver
<1> QED
  BY <1>1, <1>2, UnderWayNext, AlwaysSound, AlwaysCarries, PTL DEF Spec
=============================================================================
