--------------------------- MODULE FederationMesh ---------------------------
(***************************************************************************)
(* Federation servers relaying events to one another under the LocalBus     *)
(* contract: whatever a peer delivers is injected into the local bus, and   *)
(* the bus hands it to FederationManager.on_outbound, which fans it out to  *)
(* every ACTIVE client link and every registered inbound-peer link but the  *)
(* source's.  Each link stamps, limits and filters the event with           *)
(* codec.prepare_outbound_event, and the receiver decodes it with           *)
(* codec.decode_federated_event.                                            *)
(*                                                                          *)
(* A session <<a, b>> is a's client link to b; b has an inbound-peer link   *)
(* to a for as long as the session is up.  A copy in flight is one encoded  *)
(* FederatedEvent anywhere between a link's send_event and the receiver's   *)
(* inject: in the link's queue, on the stream or in the receiver's bridge.  *)
(* The payload is the event's uid; provenance, hop counts and groups are    *)
(* the data the protocol acts on.  Nodes are named by the policy keys their *)
(* certificates are bound to, so node names are registry keys.              *)
(***************************************************************************)
EXTENDS GroupRegistry, Integers, FiniteSets

CONSTANTS
  Node,          \* federation servers; a node is also its server_id
  Dial,          \* pairs <<a, b>>: a has an enabled peer section for b
  Registry,      \* node -> its FederateGroupRegistry
  MaxHops,       \* node -> [federation] max_hops; -1 is unlimited
  PeerMaxHops,   \* <<a, b>> -> max_hops of a's peer section for b
  LocalGroups,   \* node -> the ACL groups of events its own clients may send
  MaxEvents,     \* BOUND: events that originate
  MaxLosses      \* BOUND: sessions that are lost

ASSUME NodeAssumption == IsFiniteSet(Node)
ASSUME DialAssumption == Dial \subseteq Node \X Node
ASSUME HopsAssumption ==
  /\ MaxHops \in [Node -> Int]
  /\ PeerMaxHops \in [Dial -> Int]
ASSUME BoundsAssumption == MaxEvents \in Nat /\ MaxLosses \in Nat

VARIABLES
  up,         \* sessions whose streams are open
  flight,     \* copies in flight
  delivered,  \* what each node injected into its local bus
  events,     \* history: uid -> where an event originated, with which groups, and
              \* whether every session was up then, for good
  losses      \* sessions lost so far

vars == <<up, flight, delivered, events, losses>>
-----------------------------------------------------------------------------
(* Links.  A link is a session and the direction events take over it:       *)
(* down = FALSE is the client link, from the dialer; down = TRUE is the     *)
(* inbound-peer link, from the listener back to the dialer.                 *)
Link == [dial : Dial, down : BOOLEAN]

sender(l)   == IF l.down THEN l.dial[2] ELSE l.dial[1]
receiver(l) == IF l.down THEN l.dial[1] ELSE l.dial[2]

active_links(n) == {l \in Link : l.dial \in up /\ sender(l) = n}

default_max_hops(l) == IF l.down THEN MaxHops[sender(l)] ELSE PeerMaxHops[l.dial]

\* on_outbound's source skip.  src is the link an event was received over, None for a
\* local client's event.  A client link is skipped when it is itself the source;
\* inbound-peer links are skipped when they lead to the source's peer.
SkipsSource(l, src) ==
  /\ src # None
  /\ IF l.down THEN receiver(l) = sender(src)
               ELSE src.down /\ src.dial = l.dial
-----------------------------------------------------------------------------
(* codec.py                                                                *)

\* Mutant: a positive received budget is taken as it is.
M_resolve_wire_wins(wire, local) == IF wire <= 0 THEN local ELSE wire

\* Python's min(wire, local) between positive limits; a non-positive wire value never
\* means "unlimited" and a non-positive local ceiling has nothing to clamp with.
_resolve_max_hops(wire, local) ==
  IF wire <= 0 THEN local
  ELSE IF local <= 0 \/ wire <= local THEN wire
  ELSE local

\* FedMeta of an event: the nodes that sent it on, in order, and its hop budget.
FedMeta == [seen : Seq(Node), hops : Nat, max : Int]

ASSUME NoneAssumption == None \notin FedMeta

decode_fed_meta(c, n) ==
  [seen |-> c.seen, hops |-> c.hops, max |-> _resolve_max_hops(c.max, MaxHops[n])]

\* Mutant: only the originator is looked for in the provenance.
M_LoopGuard(n, fed_meta) == fed_meta # None /\ fed_meta.seen[1] = n

\* fed_meta is None for an event of a local client.
LoopGuard(n, fed_meta) == fed_meta # None /\ \E i \in DOMAIN fed_meta.seen : fed_meta.seen[i] = n

\* Mutant: off by one.
M_HopGuard(fed_meta) ==
  fed_meta # None /\ fed_meta.max # -1 /\ fed_meta.hops + 1 >= fed_meta.max

HopGuard(fed_meta) ==
  fed_meta # None /\ fed_meta.max # -1 /\ fed_meta.hops >= fed_meta.max

\* Mutant: a relay passes the provenance on as it received it.
M_Stamp(n, fed_meta, default) ==
  IF fed_meta = None THEN [seen |-> <<n>>, hops |-> 1, max |-> default] ELSE fed_meta

Stamp(n, fed_meta, default) ==
  IF fed_meta = None
  THEN [seen |-> <<n>>, hops |-> 1, max |-> default]
  ELSE [seen |-> Append(fed_meta.seen, n), hops |-> fed_meta.hops + 1, max |-> fed_meta.max]

\* Mutant: the group policy is applied to local events only.
M_prepare_outbound_event(uid, fed_meta, local_groups, l) ==
  LET n      == sender(l)
      groups == IF fed_meta = None
                THEN map_outbound_groups(Registry[n], receiver(l), local_groups)
                ELSE local_groups
      m      == Stamp(n, fed_meta, default_max_hops(l))
  IN IF LoopGuard(n, fed_meta) \/ HopGuard(fed_meta) \/ groups = {}
     THEN {}
     ELSE {[uid |-> uid, link |-> l, seen |-> m.seen, hops |-> m.hops, max |-> m.max,
            groups |-> groups]}

\* The copies sending an event over link l adds to the flight: one, or none when the
\* loop guard, the hop guard or the group policy drops it.
prepare_outbound_event(uid, fed_meta, local_groups, l) ==
  LET n      == sender(l)
      groups == map_outbound_groups(Registry[n], receiver(l), local_groups)
      m      == Stamp(n, fed_meta, default_max_hops(l))
  IN IF LoopGuard(n, fed_meta) \/ HopGuard(fed_meta) \/ groups = {}
     THEN {}
     ELSE {[uid |-> uid, link |-> l, seen |-> m.seen, hops |-> m.hops, max |-> m.max,
            groups |-> groups]}

\* FederationManager.on_outbound at node n.
on_outbound(n, src, uid, fed_meta, local_groups) ==
  UNION {prepare_outbound_event(uid, fed_meta, local_groups, l) :
           l \in {k \in active_links(n) : ~SkipsSource(k, src)}}
-----------------------------------------------------------------------------
Init ==
  /\ up \in SUBSET Dial
  /\ flight = {}
  /\ delivered = {}
  /\ events = <<>>
  /\ losses = 0

\* A local client's event reaches on_outbound with its ACL groups and no FedMeta.
Originate(n, groups) ==
  /\ Len(events) < MaxEvents
  /\ events' = Append(events, [node |-> n, groups |-> groups,
                                stable |-> up = Dial /\ losses = MaxLosses])
  /\ flight' = flight \cup on_outbound(n, None, Len(events'), None, groups)
  /\ UNCHANGED <<up, delivered, losses>>

\* A copy is decoded, filtered by the inbound policy, injected into the local bus and
\* handed to on_outbound with its source link.
Deliver(c) ==
  LET n      == receiver(c.link)
      meta   == decode_fed_meta(c, n)
      locals == map_inbound_groups(Registry[n], sender(c.link), c.groups)
  IN /\ IF locals = {}
        THEN /\ flight' = flight \ {c}
             /\ UNCHANGED delivered
        ELSE /\ flight' = (flight \ {c}) \cup on_outbound(n, c.link, c.uid, meta, locals)
             /\ delivered' = delivered \cup
                  {[uid |-> c.uid, node |-> n, seen |-> c.seen, groups |-> locals]}
     /\ UNCHANGED <<up, events, losses>>

\* A session breaks: any of its copies in flight may be lost.  Those already in a
\* receiver's bridge, and those in the client link's queue, which a session does not
\* clear, are not.
LoseSession(d) ==
  /\ d \in up /\ losses < MaxLosses
  /\ up' = up \ {d}
  /\ losses' = losses + 1
  /\ \E lost \in SUBSET {c \in flight : c.link.dial = d} : flight' = flight \ lost
  /\ UNCHANGED <<delivered, events>>

\* The dialer's handshake completes and the listener registers its link.
OpenSession(d) ==
  /\ d \notin up
  /\ up' = up \cup {d}
  /\ UNCHANGED <<flight, delivered, events, losses>>

Next ==
  \/ \E n \in Node : \E groups \in SUBSET LocalGroups[n] : Originate(n, groups)
  \/ \E c \in flight : Deliver(c)
  \/ \E d \in Dial : LoseSession(d) \/ OpenSession(d)

Spec == Init /\ [][Next]_vars

\* The queues' consumers (the gRPC streams, the bridge drain) run for as long as the
\* process does.  Clients need not send, and nothing is assumed of the sessions.
Fairness == WF_vars(\E c \in flight : Deliver(c))

FairSpec == Spec /\ Fairness
-----------------------------------------------------------------------------
(* Properties.                                                             *)

Limits == {MaxHops[n] : n \in Node} \cup {PeerMaxHops[d] : d \in Dial}

Event == [node : Node, groups : SUBSET UNION {LocalGroups[n] : n \in Node}, stable : BOOLEAN]

\* TYPE.  In particular no copy leaves a node without groups.
CopyOK(c) ==
  /\ c.link \in Link
  /\ c.seen \in Seq(Node) /\ c.hops \in Nat /\ c.max \in Limits
  /\ c.groups # {}

TypeOK ==
  /\ up \subseteq Dial
  /\ \A c \in flight : c.uid \in 1..Len(events) /\ CopyOK(c)
  /\ events \in Seq(Event) /\ Len(events) <= MaxEvents
  /\ losses \in 0..MaxLosses
  /\ \A d \in delivered : d.uid \in 1..Len(events) /\ d.node \in Node /\ d.groups # {}

\* SIMPLE PATHS.  Whatever the topology and however sessions come and go, no node ever
\* sends the same event on twice along one path: the provenance of every copy names the
\* nodes that sent it, each once, the sender last, and agrees with the hop count.
SimplePath(c) ==
  /\ c.hops = Len(c.seen)
  /\ c.hops > 0 /\ c.seen[c.hops] = sender(c.link)
  /\ \A i, j \in DOMAIN c.seen : c.seen[i] = c.seen[j] => i = j

SimplePaths == \A c \in flight : SimplePath(c)

\* CEILINGS.  A copy never travels further than the configured limit of any node that
\* relayed it (a positive max_hops), and the budget it carries never exceeds one of
\* them: a node can lower the budget for everyone after it, and nobody can raise it.
WithinCeilings(c) ==
  \A i \in 2..c.hops :
    MaxHops[c.seen[i]] > 0 => /\ c.max \in 1..MaxHops[c.seen[i]]
                             /\ c.hops <= c.max

Ceilings == \A c \in flight : WithinCeilings(c)

\* GROUPS.  An event is delivered into exactly the groups its own groups become when each
\* node along its provenance shares and each next one accepts them; a path on which some
\* step shares nothing or accepts nothing ends there.
Hop(n, m, groups) ==
  LET shared == map_outbound_groups(Registry[n], m, groups)
  IN IF shared = {} THEN {} ELSE map_inbound_groups(Registry[m], n, shared)

GroupsAlong(path, groups) ==
  LET at[i \in 1..Len(path)] ==
        IF i = 1 THEN groups ELSE Hop(path[i - 1], path[i], at[i - 1])
  IN at[Len(path)]

GroupsFollowPolicy ==
  \A d \in delivered :
    d.groups = GroupsAlong(Append(d.seen, d.node), events[d.uid].groups)

\* REACH.  With every session up for good, once no copy of an event is left in flight it
\* has been delivered over every simple path whose policies let it through and whose
\* length no limit configured along it is below.
Adjacent(n, m) == <<n, m>> \in Dial \/ <<m, n>> \in Dial

\* The simple paths of the network, by length.
SimpleWalks ==
  LET from[k \in 1..Cardinality(Node)] ==
        IF k = 1 THEN {<<n>> : n \in Node}
        ELSE {Append(p, m) : p \in from[k - 1], m \in Node}
             \cap {p \in [1..k -> Node] :
                     /\ \A i, j \in 1..k : p[i] = p[j] => i = j
                     /\ \A i \in 2..k : Adjacent(p[i - 1], p[i])}
  IN UNION {from[k] : k \in 2..Cardinality(Node)}

LimitsAlong(p) ==
  {MaxHops[p[i]] : i \in 1..(Len(p) - 1)}
  \cup {PeerMaxHops[d] : d \in Dial \cap {<<p[1], p[2]>>}}

OpenPaths(e) ==
  {p \in SimpleWalks :
     /\ p[1] = e.node
     /\ GroupsAlong(p, e.groups) # {}
     /\ Len(p) > 2 => \A h \in LimitsAlong(p) \ {-1} : Len(p) - 1 <= h}

Reached(u) ==
  \A p \in OpenPaths(events[u]) :
    \E d \in delivered :
      d.uid = u /\ d.node = p[Len(p)] /\ d.seen = SubSeq(p, 1, Len(p) - 1)

ReachesEveryone ==
  \A u \in DOMAIN events :
    (events[u].stable /\ \A c \in flight : c.uid # u) => Reached(u)

\* QUIET.  Relaying stops by itself, whatever the limits: no event circulates for ever.
Quiesces == <>[](flight = {})
=============================================================================
