------------------------ MODULE FederateClientProofs ------------------------
(* Safety of one outbound link, for any registry, any certificates and any   *)
(* number of events, sessions and losses.                                   *)
EXTENDS FederateClient, SequenceTheorems, TLAPS

InSession == {"identify", "open", "recheck", "activate", "subscribe", "receive"}

\* The identity stays bound from the certificate check to the reconnect path, and the
\* state never says ACTIVE once the reconnect path is about to clear it.
Bound ==
  /\ thread \in InSession =>
       /\ verified \in DOMAIN Registry.fingerprint
       /\ remote = Registry.fingerprint[verified]
  /\ state = "ACTIVE" => remote # None
  /\ remote \in PolicyKey \cup {None}
  /\ thread = "unbind" => state # "ACTIVE"
  /\ thread \in {"activate", "subscribe", "receive"} => (open => transport = verified)

LEMMA BoundInit == Init => Bound
  BY DEF Init, Bound, InSession, PolicyKey

LEMMA BoundNext == Bound /\ [Next]_vars => Bound'
<1> SUFFICES ASSUME Bound, [Next]_vars PROVE Bound'
  OBVIOUS
<1> USE DEF Bound, InSession, Goto, SetState, OthersKeep, session_vars, app_vars
<1>1. CASE CheckStop
  BY <1>1 DEF CheckStop
<1>2. CASE Connect \/ Handshake \/ Identify
  BY <1>2 DEF Connect, Handshake, Identify
<1>3. ASSUME NEW f \in Fingerprint, BindIdentity(f) PROVE Bound'
  <2>1. f \in DOMAIN Registry.fingerprint /\ remote' = Registry.fingerprint[f]
    BY <1>3 DEF BindIdentity, resolve_peer_id_by_fingerprint, Get
  <2>3. remote' \in PolicyKey
    BY <2>1 DEF PolicyKey
  <2>2. remote' # None
    BY <1>3 DEF BindIdentity
  <2> QED
    BY <1>3, <2>1, <2>2, <2>3 DEF BindIdentity
<1>4. CASE OpenStreams \/ Recheck
  BY <1>4 DEF OpenStreams, Recheck
<1>5. CASE Activate
  BY <1>5, ClientAssumption DEF Activate
<1>6. CASE Subscribe \/ AfterSession
  BY <1>6 DEF Subscribe, AfterSession
<1>7. CASE Refuse \/ StreamEnds
  BY <1>7 DEF Refuse, StreamEnds, Leave
<1>8. ASSUME NEW k \in Kinds, NEW g \in WireGroups, Receive(k, g) PROVE Bound'
  BY <1>8 DEF Receive, Leave
<1>9. CASE Reconnect \/ Unbind \/ BackOff
  BY <1>9 DEF Reconnect, Unbind, BackOff
<1>10. ASSUME NEW g \in LocalGroups, SendEvent(g) PROVE Bound'
  BY <1>10 DEF SendEvent, AppKeeps
<1>11. CASE Enqueue \/ RequestStop \/ Drain
  BY <1>11 DEF Enqueue, RequestStop, Drain, AppKeeps
<1>12. ASSUME NEW g \in DOMAIN generator, Generator(g) PROVE Bound'
  BY <1>12 DEF Generator, GeneratorCheck, GeneratorTimeout, GeneratorYield, GeneratorKeeps
<1>13. ASSUME NEW f \in Fingerprint, Reroute(f) PROVE Bound'
  BY <1>13 DEF Reroute, NetworkKeeps
<1>14. CASE OutboundEnds
  BY <1>14 DEF OutboundEnds, NetworkKeeps
<1>15. CASE UNCHANGED vars
  BY <1>15 DEF vars
<1> QED
  BY <1>1, <1>2, <1>3, <1>4, <1>5, <1>6, <1>7, <1>8, <1>9, <1>10, <1>11, <1>12, <1>13,
     <1>14, <1>15 DEF Next, GrpcThread

LEMMA AlwaysBound == Spec => []Bound
  BY BoundInit, BoundNext, PTL DEF Spec

\* ACTIVE MEANS BOUND.  A thread that reads ACTIVE reads it while a policy identity is set.
THEOREM ActiveBound == Spec => []ActiveIsBound
<1>1. Bound => ActiveIsBound
  BY DEF Bound, ActiveIsBound
<1> QED
  BY <1>1, AlwaysBound, PTL

\* VERIFIED PEER.  An outbound stream that is open when its session becomes active runs over
\* a transport with the verified certificate, under the policy that certificate resolves to.
THEOREM StreamsVerified == Spec => []StreamsToVerifiedPeer
<1>1. Bound => StreamsToVerifiedPeer
  BY DEF Bound, StreamsToVerifiedPeer, InSession, resolve_peer_id_by_fingerprint, Get
<1> QED
  BY <1>1, AlwaysBound, PTL
-----------------------------------------------------------------------------
\* One event received under a bound identity is handed over as a contact or under policy.
LEMMA Handled ==
  ASSUME NEW kind \in Kinds, NEW groups, remote # None,
         NEW a \in _handle_inbound(kind, groups), a.kind # "contact"
  PROVE  /\ a.groups # {}
         /\ a.groups = map_inbound_groups(Registry, remote, a.wire)
         /\ a.cert = verified
         /\ a.kind = "delete" => AllowDelete
<1> DEFINE locals == map_inbound_groups(Registry, remote, groups)
<1>1. kind # "undecodable" /\ kind # "contact" /\ (kind = "delete" => AllowDelete)
  BY DEF _handle_inbound, Kinds
<1>2. locals # {} /\ a = [kind |-> kind, wire |-> groups, groups |-> locals, cert |-> verified]
  BY <1>1 DEF _handle_inbound, Kinds
<1> QED
  BY <1>1, <1>2

\* ADMITTED UNDER POLICY.  Whatever session an event arrives in, it reaches the bridge as a
\* contact or with exactly the groups the verified certificate's policy admits it to.
THEOREM AdmittedByPolicy == Spec => []AdmittedUnderPolicy
<1>1. Init => AdmittedUnderPolicy
  BY DEF Init, AdmittedUnderPolicy
<1>2. Bound /\ AdmittedUnderPolicy /\ [Next]_vars => AdmittedUnderPolicy'
  <2> SUFFICES ASSUME Bound, AdmittedUnderPolicy, [Next]_vars PROVE AdmittedUnderPolicy'
    OBVIOUS
  <2>1. ASSUME UNCHANGED admitted \/ admitted' = {} PROVE AdmittedUnderPolicy'
    BY <2>1 DEF AdmittedUnderPolicy
  <2>2. ASSUME NEW k \in Kinds, NEW g \in WireGroups, Receive(k, g) PROVE AdmittedUnderPolicy'
    <3>1. CASE stop
      BY <2>1, <2>2, <3>1 DEF Receive, Leave
    <3>2. CASE ~stop
      <4>1. remote # None /\ remote = Registry.fingerprint[verified]
        BY <2>2, ClientAssumption DEF Receive, Bound, InSession
      <4>2. admitted' = _handle_inbound(k, g)
        BY <2>2, <3>2 DEF Receive
      <4> QED
        BY <4>1, <4>2, Handled DEF AdmittedUnderPolicy
    <3> QED
      BY <3>1, <3>2
  <2>3. CASE GrpcThread \/ Identify
    BY <2>1, <2>3 DEF GrpcThread, CheckStop, Connect, Handshake, Identify, OpenStreams, Recheck,
       Activate, Subscribe, AfterSession, Reconnect, Unbind, BackOff
  <2>4. CASE Refuse \/ StreamEnds
    BY <2>1, <2>4 DEF Refuse, StreamEnds, Leave
  <2>5. ASSUME NEW f \in Fingerprint, BindIdentity(f) \/ Reroute(f) PROVE AdmittedUnderPolicy'
    BY <2>1, <2>5 DEF BindIdentity, Reroute, NetworkKeeps
  <2>6. ASSUME NEW g \in LocalGroups, SendEvent(g) PROVE AdmittedUnderPolicy'
    BY <2>1, <2>6 DEF SendEvent, AppKeeps
  <2>7. CASE Enqueue \/ RequestStop \/ Drain \/ OutboundEnds
    BY <2>1, <2>7 DEF Enqueue, RequestStop, Drain, AppKeeps, OutboundEnds, NetworkKeeps
  <2>8. ASSUME NEW g \in DOMAIN generator, Generator(g) PROVE AdmittedUnderPolicy'
    BY <2>1, <2>8 DEF Generator, GeneratorCheck, GeneratorTimeout, GeneratorYield, GeneratorKeeps
  <2>9. CASE UNCHANGED vars
    BY <2>1, <2>9 DEF vars
  <2> QED
    BY <2>2, <2>3, <2>4, <2>5, <2>6, <2>7, <2>8, <2>9 DEF Next
<1> QED
  BY <1>1, <1>2, AlwaysBound, PTL DEF Spec
-----------------------------------------------------------------------------
\* Copies are numbered in the order send_event accepts them; what is written precedes what
\* is queued, and the event inside send_event comes after both.
Written == [session : Nat, copy : Copy]

Ordered ==
  /\ sends \in 0..MaxSends
  /\ app = "sending" => held \in LocalGroups /\ sends \in 1..MaxSends
  /\ outbound_q \in Seq(Copy) /\ wire \in Seq(Written)
  /\ session \in Nat
  /\ \A i, j \in 1..Len(outbound_q) : i < j => outbound_q[i].id < outbound_q[j].id
  /\ \A i, j \in 1..Len(wire) : i < j => wire[i].copy.id < wire[j].copy.id
  /\ \A i \in 1..Len(wire), j \in 1..Len(outbound_q) : wire[i].copy.id < outbound_q[j].id
  /\ \A i \in 1..Len(outbound_q) :
       outbound_q[i].id <= sends /\ (app = "sending" => outbound_q[i].id < sends)
  /\ \A i \in 1..Len(wire) :
       wire[i].copy.id <= sends /\ (app = "sending" => wire[i].copy.id < sends)

LEMMA OrderedInit == Init => Ordered
<1> SUFFICES ASSUME Init PROVE Ordered
  OBVIOUS
<1>1. outbound_q \in Seq(Copy) /\ wire \in Seq(Written)
  BY EmptySeq DEF Init
<1> QED
  BY <1>1, ClientAssumption DEF Init, Ordered

LEMMA IdsAreNumbers ==
  /\ \A c \in Copy : c.id \in Nat
  /\ \A s \in Seq(Copy) : \A i \in 1..Len(s) : s[i].id \in Nat
  /\ \A s \in Seq(Written) : \A i \in 1..Len(s) : s[i].copy.id \in Nat
<1>1. \A c \in Copy : c.id \in Nat
  BY ClientAssumption DEF Copy
<1>2. ASSUME NEW s \in Seq(Copy), NEW i \in 1..Len(s) PROVE s[i].id \in Nat
  <2>1. s[i] \in Copy
    BY ElementOfSeq
  <2> QED
    BY <1>1, <2>1
<1>3. ASSUME NEW s \in Seq(Written), NEW i \in 1..Len(s) PROVE s[i].copy.id \in Nat
  <2>1. s[i] \in Written
    BY ElementOfSeq
  <2>2. s[i].copy \in Copy
    BY <2>1 DEF Written
  <2> QED
    BY <1>1, <2>2
<1> QED
  BY <1>1, <1>2, <1>3

\* Every step but those on the queue and the history keeps them.
LEMMA OrderedElsewhere ==
  ASSUME Ordered, UNCHANGED <<outbound_q, wire, app, held, sends>>, session' \in Nat
  PROVE  Ordered'
  BY DEF Ordered

LEMMA OrderedEnqueue == ASSUME Bound, Ordered, Enqueue PROVE Ordered'
<1> USE DEF Ordered
<1>1. wire' = wire /\ session' = session /\ sends' = sends /\ app' = "idle" /\ app = "sending"
  BY DEF Enqueue, AppKeeps, session_vars
<1>2. CASE outbound_q' = outbound_q
  BY <1>1, <1>2
<1>3. CASE outbound_q' = Append(outbound_q, Mapped)
  <2>1. Mapped \in Copy /\ Mapped.id = sends
    <3>1. CASE remote = None
      BY <1>1, <3>1 DEF Mapped, Copy
    <3>2. CASE remote # None
      <4>1. remote \in PolicyKey /\ held \in LocalGroups
        BY <1>1, <3>2 DEF Bound
      <4> QED
        BY <1>1, <3>2, <4>1 DEF Mapped, Copy
    <3> QED
      BY <3>1, <3>2
  <2>2. /\ outbound_q' \in Seq(Copy) /\ Len(outbound_q') = Len(outbound_q) + 1
        /\ Len(outbound_q) \in Nat
        /\ \A i \in 1..Len(outbound_q') :
             outbound_q'[i] = IF i <= Len(outbound_q) THEN outbound_q[i] ELSE Mapped
    BY <1>3, <2>1
  <2>3. \A i \in 1..Len(outbound_q) : outbound_q[i] \in Copy /\ outbound_q[i].id \in Nat
    BY ElementOfSeq, IdsAreNumbers
  <2>4. ASSUME NEW i \in 1..Len(outbound_q'), NEW j \in 1..Len(outbound_q'), i < j
        PROVE  outbound_q'[i].id < outbound_q'[j].id
    <3>1. i \in 1..Len(outbound_q) /\ outbound_q'[i] = outbound_q[i]
      BY <2>2, <2>4
    <3>2. CASE j \in 1..Len(outbound_q)
      <4>1. outbound_q'[j] = outbound_q[j] /\ outbound_q[i].id < outbound_q[j].id
        BY <2>2, <2>4, <3>1, <3>2
      <4> QED
        BY <3>1, <4>1
    <3>3. CASE j = Len(outbound_q) + 1
      <4>1. outbound_q'[j].id = sends /\ outbound_q[i].id < sends
        BY <1>1, <2>1, <2>2, <3>1, <3>3
      <4> QED
        BY <3>1, <4>1
    <3> QED
      BY <2>2, <3>2, <3>3
  <2>5. ASSUME NEW i \in 1..Len(wire'), NEW j \in 1..Len(outbound_q')
        PROVE  wire'[i].copy.id < outbound_q'[j].id
    <3>1. i \in 1..Len(wire) /\ wire'[i] = wire[i]
      BY <1>1
    <3>2. CASE j \in 1..Len(outbound_q)
      <4>1. outbound_q'[j] = outbound_q[j] /\ wire[i].copy.id < outbound_q[j].id
        BY <2>2, <3>1, <3>2
      <4> QED
        BY <3>1, <4>1
    <3>3. CASE j = Len(outbound_q) + 1
      <4>1. outbound_q'[j].id = sends /\ wire[i].copy.id < sends
        BY <1>1, <2>1, <2>2, <3>1, <3>3
      <4> QED
        BY <3>1, <4>1
    <3> QED
      BY <2>2, <3>2, <3>3
  <2>6. \A i \in 1..Len(outbound_q') : outbound_q'[i].id <= sends'
    BY <1>1, <2>1, <2>2
  <2> QED
    BY <1>1, <2>2, <2>4, <2>5, <2>6
<1> QED
  BY <1>2, <1>3 DEF Enqueue

LEMMA OrderedYield ==
  ASSUME Ordered, NEW g \in DOMAIN generator, GeneratorYield(g) PROVE Ordered'
<1> USE DEF Ordered
<1>1. /\ UNCHANGED <<app, held, sends, session>>
      /\ outbound_q # <<>> /\ outbound_q' = Tail(outbound_q)
  BY DEF GeneratorYield, GeneratorKeeps, app_vars, session_vars
<1>2. /\ Head(outbound_q) \in Copy /\ Head(outbound_q) = outbound_q[1]
      /\ Len(outbound_q) \in Nat \ {0}
      /\ outbound_q' \in Seq(Copy) /\ Len(outbound_q') = Len(outbound_q) - 1
      /\ \A i \in 1..Len(outbound_q') : outbound_q'[i] = outbound_q[i + 1]
  BY <1>1, HeadTailProperties, EmptySeq
<1>5. ASSUME NEW i \in 1..Len(outbound_q'), NEW j \in 1..Len(outbound_q'), i < j
      PROVE  outbound_q'[i].id < outbound_q'[j].id
  <2>1. i + 1 \in 1..Len(outbound_q) /\ j + 1 \in 1..Len(outbound_q) /\ i + 1 < j + 1
    BY <1>2, <1>5
  <2>2. outbound_q[i + 1].id < outbound_q[j + 1].id
    BY <2>1
  <2> QED
    BY <1>2, <2>2
<1>6. /\ \A i \in 1..Len(wire) : wire[i].copy.id < outbound_q[1].id /\ wire[i].copy.id \in Nat
      /\ \A i \in 1..Len(outbound_q') :
           /\ outbound_q[1].id < outbound_q'[i].id
           /\ outbound_q[1].id \in Nat /\ outbound_q'[i].id \in Nat
  <2>1. \A i \in 1..Len(wire) : wire[i].copy.id < outbound_q[1].id
    BY <1>2
  <2>2. ASSUME NEW i \in 1..Len(outbound_q') PROVE outbound_q[1].id < outbound_q'[i].id
    <3>1. 1 \in 1..Len(outbound_q) /\ i + 1 \in 1..Len(outbound_q) /\ 1 < i + 1
      BY <1>2
    <3>2. outbound_q[1].id < outbound_q[i + 1].id
      BY <3>1
    <3> QED
      BY <1>2, <3>2
  <2> QED
    BY <1>2, <2>1, <2>2, IdsAreNumbers
<1>3. CASE UNCHANGED wire
  <2>2. ASSUME NEW i \in 1..Len(wire'), NEW j \in 1..Len(outbound_q')
        PROVE  wire'[i].copy.id < outbound_q'[j].id
    <3>1. i \in 1..Len(wire) /\ j + 1 \in 1..Len(outbound_q) /\ outbound_q'[j] = outbound_q[j + 1]
      BY <1>2, <1>3
    <3>2. wire[i].copy.id < outbound_q[j + 1].id
      BY <3>1
    <3> QED
      BY <1>3, <3>1, <3>2
  <2>3. \A i \in 1..Len(outbound_q') :
          outbound_q'[i].id <= sends' /\ (app' = "sending" => outbound_q'[i].id < sends')
    BY <1>1, <1>2
  <2> QED
    BY <1>1, <1>2, <1>3, <1>5, <2>2, <2>3
<1>4. CASE wire' = Append(wire, [session |-> g, copy |-> Head(outbound_q)]) /\ Live(g)
  <2> DEFINE new == [session |-> g, copy |-> Head(outbound_q)]
  <2>1. new \in Written /\ new.copy = outbound_q[1]
    BY <1>2, <1>4 DEF Written, Live
  <2>2. /\ wire' \in Seq(Written) /\ Len(wire') = Len(wire) + 1 /\ Len(wire) \in Nat
        /\ \A i \in 1..Len(wire') : wire'[i] = IF i <= Len(wire) THEN wire[i] ELSE new
    BY <1>4, <2>1
  <2> HIDE DEF new
  <2>4. ASSUME NEW i \in 1..Len(wire'), NEW j \in 1..Len(wire'), i < j
        PROVE  wire'[i].copy.id < wire'[j].copy.id
    <3>1. i \in 1..Len(wire) /\ wire'[i] = wire[i]
      BY <2>2, <2>4
    <3>2. CASE j \in 1..Len(wire)
      BY <2>2, <2>4, <3>1, <3>2
    <3>3. CASE j = Len(wire) + 1
      BY <1>6, <2>1, <2>2, <3>1, <3>3
    <3> QED
      BY <2>2, <3>2, <3>3
  <2>5. ASSUME NEW i \in 1..Len(wire'), NEW j \in 1..Len(outbound_q')
        PROVE  wire'[i].copy.id < outbound_q'[j].id
    <3>1. CASE i \in 1..Len(wire)
      <4>1. wire'[i] = wire[i]
        BY <2>2, <3>1
      <4>2. wire[i].copy.id < outbound_q[1].id /\ wire[i].copy.id \in Nat
        BY <1>6, <3>1
      <4>3. outbound_q[1].id < outbound_q'[j].id /\ outbound_q[1].id \in Nat
            /\ outbound_q'[j].id \in Nat
        BY <1>6
      <4> HIDE DEF Ordered
      <4> QED
        BY <4>1, <4>2, <4>3
    <3>2. CASE i = Len(wire) + 1
      BY <1>6, <2>1, <2>2, <3>2
    <3> QED
      BY <2>2, <3>1, <3>2
  <2>6. \A i \in 1..Len(outbound_q') :
          outbound_q'[i].id <= sends' /\ (app' = "sending" => outbound_q'[i].id < sends')
    BY <1>1, <1>2
  <2>7. \A i \in 1..Len(wire') :
          wire'[i].copy.id <= sends' /\ (app' = "sending" => wire'[i].copy.id < sends')
    BY <1>1, <1>2, <2>1, <2>2
  <2> QED
    BY <1>1, <1>2, <1>5, <2>2, <2>4, <2>5, <2>6, <2>7
<1> QED
  BY <1>3, <1>4 DEF GeneratorYield

LEMMA OrderedNext == Bound /\ Ordered /\ [Next]_vars => Ordered'
<1> SUFFICES ASSUME Bound, Ordered, [Next]_vars PROVE Ordered'
  OBVIOUS
<1>0. session \in Nat
  BY DEF Ordered
<1>1. CASE GrpcThread \/ Identify
  BY <1>0, <1>1, OrderedElsewhere
  DEF GrpcThread, CheckStop, Connect, Handshake, Identify, OpenStreams, Recheck, Activate,
      Subscribe, AfterSession, Reconnect, Unbind, BackOff, OthersKeep, app_vars, session_vars
<1>2. CASE Refuse \/ StreamEnds
  BY <1>0, <1>2, OrderedElsewhere DEF Refuse, StreamEnds, Leave, OthersKeep, app_vars
<1>3. ASSUME NEW f \in Fingerprint, BindIdentity(f) \/ Reroute(f) PROVE Ordered'
  BY <1>0, <1>3, OrderedElsewhere DEF BindIdentity, Reroute, NetworkKeeps, OthersKeep, app_vars
<1>4. ASSUME NEW k \in Kinds, NEW g \in WireGroups, Receive(k, g) PROVE Ordered'
  BY <1>0, <1>4, OrderedElsewhere DEF Receive, Leave, OthersKeep, app_vars, session_vars
<1>5. ASSUME NEW g \in LocalGroups, SendEvent(g) PROVE Ordered'
  <2>1. /\ UNCHANGED <<outbound_q, wire, session>> /\ sends' = sends + 1 /\ sends < MaxSends
        /\ app' = "sending" /\ held' = g /\ sends \in 0..MaxSends
    BY <1>5 DEF SendEvent, AppKeeps, session_vars, Ordered
  <2>2. sends' \in 1..MaxSends
    BY <2>1, ClientAssumption
  <2>3. /\ \A i \in 1..Len(outbound_q) : outbound_q[i].id <= sends /\ outbound_q[i].id \in Nat
        /\ \A i \in 1..Len(wire) : wire[i].copy.id <= sends /\ wire[i].copy.id \in Nat
    BY IdsAreNumbers DEF Ordered
  <2>4. /\ \A i \in 1..Len(outbound_q) : outbound_q[i].id < sends'
        /\ \A i \in 1..Len(wire) : wire[i].copy.id < sends'
    BY <2>1, <2>3
  <2> QED
    BY <2>1, <2>2, <2>3, <2>4 DEF Ordered
<1>6. CASE Enqueue
  BY <1>6, OrderedEnqueue
<1>7. CASE RequestStop \/ Drain
  BY <1>7 DEF RequestStop, Drain, AppKeeps, session_vars, Ordered
<1>8. ASSUME NEW g \in DOMAIN generator, Generator(g) PROVE Ordered'
  <2>1. CASE GeneratorCheck(g) \/ GeneratorTimeout(g)
    BY <1>0, <2>1, OrderedElsewhere
    DEF GeneratorCheck, GeneratorTimeout, GeneratorKeeps, app_vars, session_vars
  <2> QED
    BY <1>8, <2>1, OrderedYield DEF Generator
<1>9. CASE OutboundEnds
  BY <1>0, <1>9, OrderedElsewhere DEF OutboundEnds, NetworkKeeps, app_vars
<1>10. CASE UNCHANGED vars
  BY <1>0, <1>10, OrderedElsewhere DEF vars, app_vars, session_vars
<1> QED
  BY <1>1, <1>2, <1>3, <1>4, <1>5, <1>6, <1>7, <1>8, <1>9, <1>10 DEF Next

\* IN ORDER, ONCE.  However many sessions come and go, and whatever surviving generators take
\* from the queue, the copies written are in the order send_event accepted their events and
\* none is written twice.
THEOREM InOrderOnce == Spec => []WrittenInOrderOnce
<1>1. Ordered => WrittenInOrderOnce
  BY DEF Ordered, WrittenInOrderOnce
<1> QED
  BY <1>1, OrderedInit, OrderedNext, AlwaysBound, PTL DEF Spec
-----------------------------------------------------------------------------
\* The parts of the type invariant that neither Bound nor Ordered contains.
Positions ==
  /\ state \in PeerState /\ thread \in ThreadAt
  /\ verified \in DOMAIN Registry.fingerprint \cup {None}
  /\ transport \in Fingerprint \cup {None}
  /\ app \in {"idle", "sending", "stopping", "stopped"}
  /\ losses \in 0..MaxLosses

Generators ==
  session \in Nat /\ generator \in Seq({"check", "get", "over"}) /\ Len(generator) = session

Flags == stop \in BOOLEAN /\ open \in BOOLEAN

LEMMA FlagsNext == Flags /\ [Next]_vars => Flags'
<1> SUFFICES ASSUME Flags, [Next]_vars PROVE Flags'
  OBVIOUS
<1> USE DEF Flags, OthersKeep, session_vars, app_vars, AppKeeps, GeneratorKeeps, NetworkKeeps
<1>1. CASE GrpcThread \/ Identify
  BY <1>1, Zenon
  DEF GrpcThread, CheckStop, Connect, Handshake, Identify, OpenStreams, Recheck, Activate,
      Subscribe, AfterSession, Reconnect, Unbind, BackOff
<1>2. CASE Refuse \/ StreamEnds
  BY <1>2, Zenon DEF Refuse, StreamEnds, Leave
<1>3. ASSUME NEW f \in Fingerprint, BindIdentity(f) \/ Reroute(f) PROVE Flags'
  BY <1>3, Zenon DEF BindIdentity, Reroute
<1>4. ASSUME NEW k \in Kinds, NEW g \in WireGroups, Receive(k, g) PROVE Flags'
  BY <1>4, Zenon DEF Receive, Leave
<1>5. ASSUME NEW g \in LocalGroups, SendEvent(g) PROVE Flags'
  BY <1>5, Zenon DEF SendEvent
<1>6. CASE Enqueue \/ RequestStop \/ Drain \/ OutboundEnds
  BY <1>6, Zenon DEF Enqueue, RequestStop, Drain, OutboundEnds
<1>7. ASSUME NEW g \in DOMAIN generator, Generator(g) PROVE Flags'
  BY <1>7, Zenon DEF Generator, GeneratorCheck, GeneratorTimeout, GeneratorYield
<1>8. CASE UNCHANGED vars
  BY <1>8, Zenon DEF vars
<1> QED
  BY <1>1, <1>2, <1>3, <1>4, <1>5, <1>6, <1>7, <1>8 DEF Next

LEMMA PositionsNext == Positions /\ [Next]_vars => Positions'
<1> SUFFICES ASSUME Positions, [Next]_vars PROVE Positions'
  OBVIOUS
<1> USE ClientAssumption DEF Positions, PeerState, ThreadAt, Goto, SetState, OthersKeep,
        session_vars, app_vars, AppKeeps, GeneratorKeeps, NetworkKeeps
<1>1. CASE CheckStop \/ Connect \/ Handshake \/ Identify \/ OpenStreams
  BY <1>1 DEF CheckStop, Connect, Handshake, Identify, OpenStreams
<1>2. CASE Recheck \/ Activate \/ Subscribe \/ AfterSession
  BY <1>2 DEF Recheck, Activate, Subscribe, AfterSession
<1>3. CASE Reconnect \/ Unbind \/ BackOff
  BY <1>3 DEF Reconnect, Unbind, BackOff
<1>4. CASE Refuse \/ StreamEnds
  BY <1>4 DEF Refuse, StreamEnds, Leave
<1>5. ASSUME NEW f \in Fingerprint, BindIdentity(f) PROVE Positions'
  <2>1. f \in DOMAIN Registry.fingerprint
    BY <1>5 DEF BindIdentity, resolve_peer_id_by_fingerprint, Get
  <2> QED
    BY <1>5, <2>1 DEF BindIdentity
<1>6. ASSUME NEW f \in Fingerprint, Reroute(f) PROVE Positions'
  BY <1>6 DEF Reroute
<1>7. ASSUME NEW k \in Kinds, NEW g \in WireGroups, Receive(k, g) PROVE Positions'
  BY <1>7 DEF Receive, Leave
<1>8. ASSUME NEW g \in LocalGroups, SendEvent(g) PROVE Positions'
  BY <1>8 DEF SendEvent
<1>9. CASE Enqueue \/ RequestStop \/ Drain \/ OutboundEnds
  BY <1>9 DEF Enqueue, RequestStop, Drain, OutboundEnds
<1>10. ASSUME NEW g \in DOMAIN generator, Generator(g) PROVE Positions'
  BY <1>10 DEF Generator, GeneratorCheck, GeneratorTimeout, GeneratorYield
<1>11. CASE UNCHANGED vars
  BY <1>11 DEF vars
<1> HIDE DEF Positions
<1> QED
  BY <1>1, <1>2, <1>3, <1>4, <1>5, <1>6, <1>7, <1>8, <1>9, <1>10, <1>11 DEF Next, GrpcThread

LEMMA GeneratorsNext == Generators /\ [Next]_vars => Generators'
<1> SUFFICES ASSUME Generators, [Next]_vars PROVE Generators'
  OBVIOUS
<1>1. ASSUME UNCHANGED <<session, generator>> PROVE Generators'
  BY <1>1 DEF Generators
<1>2. CASE OpenStreams
  BY <1>2, AppendProperties DEF OpenStreams, Generators
<1>3. CASE (GrpcThread /\ ~OpenStreams) \/ Identify
  BY <1>1, <1>3
  DEF GrpcThread, CheckStop, Connect, Handshake, Identify, Recheck, Activate,
      Subscribe, AfterSession, Reconnect, Unbind, BackOff, session_vars
<1>4. CASE Refuse \/ StreamEnds
  BY <1>1, <1>4 DEF Refuse, StreamEnds, Leave
<1>5. ASSUME NEW f \in Fingerprint, BindIdentity(f) \/ Reroute(f) PROVE Generators'
  BY <1>1, <1>5 DEF BindIdentity, Reroute, NetworkKeeps
<1>6. ASSUME NEW k \in Kinds, NEW g \in WireGroups, Receive(k, g) PROVE Generators'
  BY <1>1, <1>6 DEF Receive, Leave, session_vars
<1>7. ASSUME NEW g \in LocalGroups, SendEvent(g) PROVE Generators'
  BY <1>1, <1>7 DEF SendEvent, AppKeeps, session_vars
<1>8. CASE Enqueue \/ RequestStop \/ Drain \/ OutboundEnds
  BY <1>1, <1>8 DEF Enqueue, RequestStop, Drain, OutboundEnds, AppKeeps, NetworkKeeps, session_vars
<1>9. ASSUME NEW g \in DOMAIN generator, Generator(g) PROVE Generators'
  <2>1. session' = session /\ \E at \in {"check", "get", "over"} :
                              generator' = [generator EXCEPT ![g] = at]
    BY <1>9 DEF Generator, GeneratorCheck, GeneratorTimeout, GeneratorYield, GeneratorKeeps,
       session_vars
  <2> QED
    BY <2>1, ExceptSeq DEF Generators
<1>10. CASE UNCHANGED vars
  BY <1>1, <1>10 DEF vars, session_vars
<1> QED
  BY <1>2, <1>3, <1>4, <1>5, <1>6, <1>7, <1>8, <1>9, <1>10 DEF Next

\* TypeOK holds for any registry and any number of sessions: one generator per session that
\* opened its streams, and the gRPC thread always at one of its positions.
THEOREM TypeCorrect == Spec => []TypeOK
<1>1. Init => Flags /\ Positions /\ Generators
  <2> SUFFICES ASSUME Init PROVE Flags /\ Positions /\ Generators
    OBVIOUS
  <2>1. generator \in Seq({"check", "get", "over"})
    BY EmptySeq DEF Init
  <2>2. Flags
    BY Zenon DEF Init, Flags
  <2> QED
    BY <2>1, <2>2, ClientAssumption DEF Init, Positions, Generators, PeerState, ThreadAt
<1>2. Bound /\ Ordered /\ Flags /\ Positions /\ Generators => TypeOK
  BY DEF Bound, Ordered, Flags, Positions, Generators, TypeOK
<1> QED
  BY <1>1, <1>2, FlagsNext, PositionsNext, GeneratorsNext, OrderedInit, OrderedNext,
     AlwaysBound, PTL DEF Spec
=============================================================================
