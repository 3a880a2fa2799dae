----------------------- MODULE FederationServerProofs -----------------------
(* Safety of the inbound server, for any calls, certificates, registry and   *)
(* number of workers.                                                       *)
EXTENDS FederationServer, FiniteSetTheorems, SequenceTheorems, TLAPS

-----------------------------------------------------------------------------
(* Types and the worker pool.                                              *)
Base ==
  /\ rpc \in [Call -> {"live", "half", "over"}]
  /\ at \in [Call -> HandlerAt]
  /\ signal \in [Call -> {"none", "armed", "due", "done", "late"}]
  /\ stop_event \in [EventStreams -> BOOLEAN]
  /\ links \subseteq EventStreams
  /\ seen \subseteq PushStreams /\ acked \subseteq PushStreams
  /\ published \in Nat
  /\ fan.rest \subseteq EventStreams /\ fan.id \in 0..published
  /\ fan = [id |-> fan.id, local |-> fan.local, src |-> fan.src, rest |-> fan.rest]
  /\ server \in {"serving", "down", "stopped"}

Pool == Cardinality(Running) <= MaxWorkers

LEMMA BaseInit == Init => Base
  BY DEF Init, Base, FanOutTo, HandlerAt

LEMMA BaseNext == Base /\ [Next]_vars => Base'
<1> SUFFICES ASSUME Base, [Next]_vars PROVE Base'
  OBVIOUS
<1> USE DEF Base, call_vars, in_vars, fan_vars, Goto, HandlerAt
<1>1. ASSUME NEW c \in Call, Start(c) PROVE Base'
  BY <1>1 DEF Start, First, Call
<1>2. ASSUME NEW c \in Call, HangUp(c) PROVE Base'
  BY <1>2 DEF HangUp, Ended
<1>3. ASSUME NEW c \in EventStreams,
             Register(c) \/ AddCallback(c) \/ Poll(c) \/ Yield(c) \/ Deregister(c)
      PROVE  Base'
  BY <1>3 DEF Register, AddCallback, Poll, Yield, Deregister, Call
<1>4. ASSUME NEW c \in PushStreams, EndStream(c) PROVE Base'
  BY <1>4 DEF EndStream, Call
<1>5. ASSUME NEW c \in Call, Release(c) PROVE Base'
  BY <1>5 DEF Release
<1>6. ASSUME NEW c \in Call, NEW k \in Kinds, NEW g \in WireGroups, SendOneEvent(c, k, g)
      PROVE  Base'
  BY <1>6 DEF SendOneEvent
<1>7. ASSUME NEW c \in PushStreams, HalfClose(c) PROVE Base'
  BY <1>7 DEF HalfClose, Call
<1>8. ASSUME NEW c \in EventStreams, Notify(c) PROVE Base'
  BY <1>8 DEF Notify, Call
<1>9. ASSUME NEW c \in EventStreams, FanOut(c) PROVE Base'
  <2>1. fan' = FanOutTo(fan.id, fan.local, fan.src, fan.rest \ {c}) /\ UNCHANGED published
    BY <1>9 DEF FanOut
  <2>2. /\ fan' = [id |-> fan'.id, local |-> fan'.local, src |-> fan'.src, rest |-> fan'.rest]
        /\ fan'.rest = fan.rest \ {c} /\ fan'.id \in 0..published
    <3>1. CASE fan.rest \ {c} = {}
      BY <2>1, <3>1 DEF FanOutTo
    <3>2. CASE fan.rest \ {c} # {}
      BY <2>1, <3>2 DEF FanOutTo
    <3> QED
      BY <3>1, <3>2
  <2>3. UNCHANGED <<rpc, at, signal, stop_event, links, seen, acked, server>>
    BY <1>9 DEF FanOut
  <2> QED
    BY <2>1, <2>2, <2>3
<1>10. ASSUME NEW c \in PushStreams, NEW k \in Kinds, NEW g \in WireGroups, Receive(c, k, g)
       PROVE  Base'
  BY <1>10 DEF Receive
<1>11. ASSUME NEW local, NEW src, OnOutbound(local, src), UNCHANGED <<seen, acked>> PROVE Base'
  <2>1. fan' = FanOutTo(published + 1, local, src, links) /\ published' = published + 1
    BY <1>11 DEF OnOutbound
  <2>2. /\ fan' = [id |-> fan'.id, local |-> fan'.local, src |-> fan'.src, rest |-> fan'.rest]
        /\ fan'.rest = links /\ fan'.id \in 0..published'
    <3>1. CASE links = {}
      BY <2>1, <3>1 DEF FanOutTo
    <3>2. CASE links # {}
      BY <2>1, <3>2 DEF FanOutTo
    <3> QED
      BY <3>1, <3>2
  <2> QED
    BY <1>11, <2>1, <2>2 DEF OnOutbound
<1>12. ASSUME NEW g \in LocalGroups, PublishLocal(g) PROVE Base'
  BY <1>11, <1>12 DEF PublishLocal, OnOutbound
<1>13. CASE Inject
  BY <1>11, <1>13 DEF Inject, OnOutbound
<1>14. CASE StopServer
  BY <1>14 DEF StopServer, Ended
<1>15. CASE StopLinks
  BY <1>15 DEF StopLinks
<1>16. CASE UNCHANGED vars
  BY <1>16 DEF vars
<1> QED
  BY <1>1, <1>2, <1>3, <1>4, <1>5, <1>6, <1>7, <1>8, <1>9, <1>10, <1>12, <1>13, <1>14, <1>15,
     <1>16 DEF Next, Handler, Call

\* No step but the start of a call adds a running handler.
LEMMA FewerRun ==
  ASSUME Base, Base', Running' \subseteq Running, Pool PROVE Pool'
<1>1. IsFiniteSet(Running)
  BY FS_Subset, ServerAssumption DEF Running
<1>2. /\ IsFiniteSet(Running') /\ Cardinality(Running') <= Cardinality(Running)
      /\ Cardinality(Running) \in Nat /\ Cardinality(Running') \in Nat
  BY <1>1, FS_Subset, FS_CardinalityType
<1> QED
  BY <1>2, ServerAssumption DEF Pool

LEMMA PoolNext == Base /\ Pool /\ [Next]_vars => Pool'
<1> SUFFICES ASSUME Base, Pool, [Next]_vars PROVE Pool'
  OBVIOUS
<1>0. Base'
  BY BaseNext
<1> USE DEF call_vars, Goto
<1>1. ASSUME NEW c \in Call, Start(c) PROVE Pool'
  <2>1. Running' = Running \cup {c} /\ c \notin Running /\ Cardinality(Running) < MaxWorkers
    BY <1>1 DEF Start, Running, First, Base, Call
  <2>2. IsFiniteSet(Running)
    BY FS_Subset, ServerAssumption DEF Running
  <2>3. Cardinality(Running') = Cardinality(Running) + 1 /\ Cardinality(Running) \in Nat
    BY <2>1, <2>2, FS_AddElement, FS_CardinalityType
  <2> QED
    BY <2>1, <2>3, ServerAssumption DEF Pool
<1>2. ASSUME NEW c \in Call, HangUp(c) \/ Handler(c) PROVE Running' \subseteq Running
  BY <1>2 DEF Base, HangUp, Handler, Register, AddCallback, Poll, Yield, Deregister, EndStream,
     Release, SendOneEvent, Running
<1>3. ASSUME NEW c \in Call, HalfClose(c) \/ Notify(c) \/ FanOut(c) PROVE UNCHANGED at
  BY <1>3 DEF HalfClose, Notify, FanOut
<1>4. ASSUME NEW c \in PushStreams, NEW k \in Kinds, NEW g \in WireGroups, Receive(c, k, g)
      PROVE  UNCHANGED at
  BY <1>4 DEF Receive
<1>5. ASSUME NEW g \in LocalGroups, PublishLocal(g) PROVE UNCHANGED at
  BY <1>5 DEF PublishLocal, OnOutbound
<1>6. ASSUME Inject \/ StopServer \/ StopLinks \/ UNCHANGED vars PROVE UNCHANGED at
  BY <1>6 DEF Inject, OnOutbound, StopServer, StopLinks, vars
<1>7. UNCHANGED at => Running' \subseteq Running
  BY DEF Running
<1> QED
  BY <1>0, <1>1, <1>2, <1>3, <1>4, <1>5, <1>6, <1>7, FewerRun DEF Next, Call

LEMMA AlwaysBase == Spec => [](Base /\ Pool)
<1>1. Init => Base /\ Pool
  <2> SUFFICES ASSUME Init PROVE Base /\ Pool
    OBVIOUS
  <2>1. Running = {}
    BY DEF Init, Running
  <2> QED
    BY <2>1, BaseInit, FS_EmptySet, ServerAssumption DEF Pool
<1> QED
  BY <1>1, BaseNext, PoolNext, PTL DEF Spec

\* The state of every server keeps its types, and no more handlers run than the pool of
\* FederationServer.start has workers.
THEOREM TypeCorrect == Spec => []TypeOK
<1>1. Base /\ Pool => TypeOK
  BY DEF Base, Pool, TypeOK
<1> QED
  BY <1>1, AlwaysBase, PTL
-----------------------------------------------------------------------------
(* Registration.                                                           *)
LEMMA LinksNext == Base /\ LinksFollowCalls /\ [Next]_vars => LinksFollowCalls'
<1> SUFFICES ASSUME Base, LinksFollowCalls, [Next]_vars PROVE LinksFollowCalls'
  OBVIOUS
<1> USE DEF LinksFollowCalls, call_vars, in_vars, fan_vars, Goto
<1>1. ASSUME NEW c \in Call, Start(c) PROVE LinksFollowCalls'
  BY <1>1, ServerAssumption DEF Start, First, Base, Call
<1>2. ASSUME NEW c \in EventStreams, Register(c) PROVE LinksFollowCalls'
  BY <1>2 DEF Register, Base, Call
<1>3. ASSUME NEW c \in EventStreams, AddCallback(c) \/ Poll(c) PROVE LinksFollowCalls'
  BY <1>3 DEF AddCallback, Poll, Base, Call
<1>4. ASSUME NEW c \in EventStreams, Yield(c) PROVE LinksFollowCalls'
  BY <1>4 DEF Yield, Base, Call
<1>5. ASSUME NEW c \in EventStreams, Deregister(c) PROVE LinksFollowCalls'
  BY <1>5 DEF Deregister, Base, Call
<1>6. ASSUME NEW c \in PushStreams, EndStream(c) PROVE LinksFollowCalls'
  BY <1>6, ServerAssumption DEF EndStream, Base, Call
<1>7. ASSUME NEW c \in GroupStreams, Release(c) PROVE LinksFollowCalls'
  BY <1>7, ServerAssumption DEF Release, Base, Call
<1>8. ASSUME NEW c \in OneShots, NEW k \in Kinds, NEW g \in WireGroups, SendOneEvent(c, k, g)
      PROVE  LinksFollowCalls'
  BY <1>8, ServerAssumption DEF SendOneEvent, Base, Call
<1>9. ASSUME NEW c \in Call, HangUp(c) \/ HalfClose(c) \/ Notify(c) \/ FanOut(c)
      PROVE  LinksFollowCalls'
  BY <1>9 DEF HangUp, HalfClose, Notify, FanOut
<1>10. ASSUME NEW c \in PushStreams, NEW k \in Kinds, NEW g \in WireGroups, Receive(c, k, g)
       PROVE  LinksFollowCalls'
  BY <1>10 DEF Receive
<1>11. ASSUME NEW g \in LocalGroups, PublishLocal(g) PROVE LinksFollowCalls'
  BY <1>11 DEF PublishLocal, OnOutbound
<1>12. CASE Inject \/ StopServer \/ StopLinks
  BY <1>12 DEF Inject, OnOutbound, StopServer, StopLinks
<1>13. CASE UNCHANGED vars
  BY <1>13 DEF vars
<1> QED
  BY <1>1, <1>2, <1>3, <1>4, <1>5, <1>6, <1>7, <1>8, <1>9, <1>10, <1>11, <1>12, <1>13
  DEF Next, Handler, Call

\* A link is in _inbound_links exactly from ClientEventStream's registration to the end of
\* its handler, whatever other connections of the same peer do.
THEOREM LinksRegistered == Spec => []LinksFollowCalls
<1>1. Init => LinksFollowCalls
  BY DEF Init, LinksFollowCalls, Call
<1> QED
  BY <1>1, LinksNext, AlwaysBase, PTL DEF Spec
-----------------------------------------------------------------------------
(* Policy.  Every event in the bridge, in a fan-out, in a queue or on a       *)
(* stream is one the certificates and the registry account for.              *)
Source  == {policy_key(d) : d \in Call} \cup {None}
Locals  == LocalGroups \cup {map_inbound_groups(Registry, policy_key(d), g) :
                               d \in Call, g \in WireGroups}
Remotes == {map_outbound_groups(Registry, policy_key(d), l) : d \in Call, l \in Locals}

Copy == [id : Nat, src : Source, local : Locals, groups : Remotes]

CopyFor(c) ==
  {e \in Copy : /\ ~quarantined(c) /\ e.src # policy_key(c)
                /\ e.groups = map_outbound_groups(Registry, policy_key(c), e.local)
                /\ e.groups # {}}

Admitted ==
  {e \in [call : Call, kind : Kinds, wire : WireGroups, local : Locals] :
     /\ ~quarantined(e.call)
     /\ e.local = map_inbound_groups(Registry, policy_key(e.call), e.wire) /\ e.local # {}
     /\ e.kind = "delete" /\ e.call \in PushStreams => AllowDelete}

Accounted ==
  /\ bridge \in Seq(Admitted)
  /\ fan.rest # {} => fan.src \in Source /\ fan.local \in Locals
  /\ \A c \in fan.rest : ~quarantined(c)
  /\ outbound_q \in [EventStreams -> Seq(Copy)] /\ sent \in [EventStreams -> Seq(Copy)]
  /\ \A c \in EventStreams :
       outbound_q[c] \in Seq(CopyFor(c)) /\ sent[c] \in Seq(CopyFor(c))

LEMMA AdmitIsAdmitted ==
  ASSUME NEW c \in Call, NEW k \in Kinds, NEW g \in WireGroups,
         k = "delete" /\ c \in PushStreams => AllowDelete
  PROVE  Admit(c, k, g) \in Seq(Admitted)
<1> DEFINE locals == map_inbound_groups(Registry, policy_key(c), g)
           e == [call |-> c, kind |-> k, wire |-> g, local |-> locals]
<1>1. locals \in Locals
  BY DEF Locals
<1> HIDE DEF locals
<1>2. CASE Admit(c, k, g) = <<>>
  BY <1>2
<1>3. CASE Admit(c, k, g) # <<>>
  <2>1. Admit(c, k, g) = <<e>> /\ ~quarantined(c) /\ locals # {}
    BY <1>3 DEF Admit, locals
  <2>2. e \in Admitted
    BY <1>1, <2>1 DEF Admitted, locals
  <2> QED
    BY <2>1, <2>2
<1> QED
  BY <1>2, <1>3

LEMMA SendIsCopy ==
  ASSUME Base, Accounted, NEW c \in fan.rest, fan.src # policy_key(c)
  PROVE  \/ send_event(c) = <<>>
         \/ \E e \in CopyFor(c) : e.id = fan.id /\ send_event(c) = <<e>>
<1> DEFINE groups == map_outbound_groups(Registry, policy_key(c), fan.local)
           e == [id |-> fan.id, src |-> fan.src, local |-> fan.local, groups |-> groups]
<1>1. fan.id \in Nat /\ fan.src \in Source /\ fan.local \in Locals /\ ~quarantined(c) /\ c \in Call
  BY DEF Base, Accounted, Call
<1>2. groups \in Remotes
  BY <1>1 DEF Remotes
<1> HIDE DEF groups
<1>3. e \in Copy
  BY <1>1, <1>2 DEF Copy
<1>4. CASE groups = {}
  BY <1>4 DEF send_event, groups
<1>5. CASE groups # {}
  <2>1. send_event(c) = <<e>>
    BY <1>5 DEF send_event, groups
  <2>2. e \in CopyFor(c)
    BY <1>1, <1>3, <1>5 DEF CopyFor, groups
  <2> QED
    BY <2>1, <2>2
<1> QED
  BY <1>4, <1>5

\* What FanOut queues: nothing, or one copy meant for the link.
LEMMA FanOutQueues ==
  ASSUME Base, Accounted, NEW c \in EventStreams, FanOut(c)
  PROVE  \/ UNCHANGED outbound_q
         \/ \E e \in CopyFor(c) :
              /\ e.id = fan.id
              /\ outbound_q' = [outbound_q EXCEPT ![c] = Append(@, e)]
<1>1. c \in fan.rest /\ ~quarantined(c)
  BY DEF FanOut, Accounted
<1>2. CASE fan.src # None /\ fan.src = policy_key(c)
  BY <1>2 DEF FanOut
<1>3. CASE ~(fan.src # None /\ fan.src = policy_key(c))
  <2>1. fan.src # policy_key(c)
    BY <1>1, <1>3 DEF quarantined
  <2>2. outbound_q' = [outbound_q EXCEPT ![c] = @ \o send_event(c)]
    BY <1>3 DEF FanOut
  <2>3. outbound_q[c] \in Seq(Copy) /\ outbound_q = [d \in EventStreams |-> outbound_q[d]]
    BY DEF Accounted
  <2>4. CASE send_event(c) = <<>>
    <3>1. outbound_q[c] \o <<>> = outbound_q[c]
      BY <2>3, ConcatEmptySeq
    <3> QED
      BY <2>2, <2>3, <2>4, <3>1
  <2>5. CASE \E e \in CopyFor(c) : e.id = fan.id /\ send_event(c) = <<e>>
    <3>1. PICK e \in CopyFor(c) : e.id = fan.id /\ send_event(c) = <<e>>
      BY <2>5
    <3>2. outbound_q[c] \o <<e>> = Append(outbound_q[c], e)
      <4>1. e \in Copy
        BY DEF CopyFor
      <4> QED
        BY <2>3, <4>1, AppendIsConcat
    <3> QED
      BY <2>2, <3>1, <3>2
  <2> QED
    BY <1>1, <2>1, <2>4, <2>5, SendIsCopy
<1> QED
  BY <1>2, <1>3

\* Accounted speaks of four variables.
LEMMA AccountedElsewhere ==
  Accounted /\ UNCHANGED <<bridge, fan, outbound_q, sent>> => Accounted'
  BY DEF Accounted

LEMMA AccountedBridge ==
  ASSUME Accounted, NEW s \in Seq(Admitted), bridge' = bridge \o s,
         UNCHANGED <<fan, outbound_q, sent>>
  PROVE  Accounted'
<1>1. bridge' \in Seq(Admitted)
  BY ConcatProperties DEF Accounted
<1> QED
  BY <1>1 DEF Accounted

LEMMA AccountedOnOutbound ==
  ASSUME Base, LinksFollowCalls, Accounted, NEW local \in Locals, NEW src \in Source,
         OnOutbound(local, src), bridge' \in Seq(Admitted)
  PROVE  Accounted'
<1>1. /\ fan' = FanOutTo(published + 1, local, src, links) /\ UNCHANGED <<outbound_q, sent>>
  BY DEF OnOutbound
<1>2. fan'.rest = links /\ (fan'.rest # {} => fan'.src = src /\ fan'.local = local)
  BY <1>1 DEF FanOutTo
<1>3. \A c \in fan'.rest : ~quarantined(c)
  BY <1>2 DEF LinksFollowCalls
<1> QED
  BY <1>1, <1>2, <1>3 DEF Accounted, quarantined, policy_key

LEMMA AccountedFanOut ==
  ASSUME Base, Accounted, NEW c \in EventStreams, FanOut(c) PROVE Accounted'
<1>1. UNCHANGED <<bridge, sent>> /\ fan' = FanOutTo(fan.id, fan.local, fan.src, fan.rest \ {c})
  BY DEF FanOut, in_vars
<1>2. /\ fan'.rest = fan.rest \ {c}
      /\ fan'.rest # {} => fan'.src = fan.src /\ fan'.local = fan.local
  BY <1>1 DEF FanOutTo
<1>3. /\ outbound_q' \in [EventStreams -> Seq(Copy)]
      /\ \A d \in EventStreams : outbound_q'[d] \in Seq(CopyFor(d))
  <2>1. CASE UNCHANGED outbound_q
    BY <2>1 DEF Accounted
  <2>2. CASE \E e \in CopyFor(c) : /\ e.id = fan.id
                                   /\ outbound_q' = [outbound_q EXCEPT ![c] = Append(@, e)]
    <3>1. PICK e \in CopyFor(c) : outbound_q' = [outbound_q EXCEPT ![c] = Append(@, e)]
      BY <2>2
    <3>2. e \in Copy
      BY DEF CopyFor
    <3>3. Append(outbound_q[c], e) \in Seq(Copy) /\ Append(outbound_q[c], e) \in Seq(CopyFor(c))
      BY <3>2, AppendProperties DEF Accounted
    <3> QED
      BY <3>1, <3>3 DEF Accounted
  <2> QED
    BY <2>1, <2>2, FanOutQueues
<1> QED
  BY <1>1, <1>2, <1>3 DEF Accounted, quarantined, policy_key

LEMMA AccountedYield ==
  ASSUME Accounted, NEW c \in EventStreams, Yield(c) PROVE Accounted'
<1>1. /\ outbound_q[c] # <<>> /\ UNCHANGED <<bridge, fan>>
      /\ outbound_q' = [outbound_q EXCEPT ![c] = Tail(@)]
      /\ \/ UNCHANGED sent
         \/ sent' = [sent EXCEPT ![c] = Append(@, Head(outbound_q[c]))]
  BY DEF Yield, in_vars, fan_vars
<1>2. /\ Tail(outbound_q[c]) \in Seq(Copy) /\ Tail(outbound_q[c]) \in Seq(CopyFor(c))
      /\ Head(outbound_q[c]) \in Copy /\ Head(outbound_q[c]) \in CopyFor(c)
  BY <1>1, HeadTailProperties DEF Accounted
<1>3. /\ Append(sent[c], Head(outbound_q[c])) \in Seq(Copy)
      /\ Append(sent[c], Head(outbound_q[c])) \in Seq(CopyFor(c))
  BY <1>2, AppendProperties DEF Accounted
<1>4. outbound_q' \in [EventStreams -> Seq(Copy)] /\ sent' \in [EventStreams -> Seq(Copy)]
  BY <1>1, <1>2, <1>3 DEF Accounted
<1>5. \A d \in EventStreams : outbound_q'[d] \in Seq(CopyFor(d)) /\ sent'[d] \in Seq(CopyFor(d))
  BY <1>1, <1>2, <1>3 DEF Accounted
<1> QED
  BY <1>1, <1>4, <1>5 DEF Accounted, quarantined, policy_key

LEMMA AccountedNext == Base /\ LinksFollowCalls /\ Accounted /\ [Next]_vars => Accounted'
<1> SUFFICES ASSUME Base, LinksFollowCalls, Accounted, [Next]_vars PROVE Accounted'
  OBVIOUS
<1>1. ASSUME NEW c \in Call, Start(c) \/ HangUp(c) \/ HalfClose(c) \/ Notify(c)
      PROVE  Accounted'
  BY <1>1, AccountedElsewhere DEF Start, HangUp, HalfClose, Notify, in_vars, fan_vars
<1>2. ASSUME NEW c \in Call,
             \/ Register(c) \/ AddCallback(c) \/ Poll(c) \/ Deregister(c)
             \/ EndStream(c) \/ Release(c)
      PROVE  Accounted'
  BY <1>2, AccountedElsewhere
  DEF Register, AddCallback, Poll, Deregister, EndStream, Release, in_vars, fan_vars
<1>3. ASSUME NEW c \in OneShots, NEW k \in Kinds, NEW g \in WireGroups, SendOneEvent(c, k, g)
      PROVE  Accounted'
  <2>1. Admit(c, k, g) \in Seq(Admitted)
    BY AdmitIsAdmitted, ServerAssumption DEF Call
  <2> QED
    BY <1>3, <2>1, AccountedBridge DEF SendOneEvent, fan_vars
<1>4. ASSUME NEW c \in PushStreams, NEW k \in Kinds, NEW g \in WireGroups, Receive(c, k, g)
      PROVE  Accounted'
  <2> DEFINE s == IF k = "delete" /\ ~AllowDelete THEN <<>> ELSE Admit(c, k, g)
  <2>1. s \in Seq(Admitted)
    <3>1. CASE k = "delete" /\ ~AllowDelete
      BY <3>1
    <3>2. CASE ~(k = "delete" /\ ~AllowDelete)
      BY <3>2, AdmitIsAdmitted DEF Call
    <3> QED
      BY <3>1, <3>2
  <2>2. bridge' = bridge \o s /\ UNCHANGED <<fan, outbound_q, sent>>
    BY <1>4 DEF Receive, fan_vars
  <2> HIDE DEF s
  <2> QED
    BY <2>1, <2>2, AccountedBridge
<1>5. ASSUME NEW g \in LocalGroups, PublishLocal(g) PROVE Accounted'
  <2>1. g \in Locals /\ None \in Source
    BY DEF Locals, Source
  <2> QED
    BY <1>5, <2>1, AccountedOnOutbound DEF PublishLocal, Accounted
<1>6. CASE Inject
  <2>1. bridge # <<>> /\ bridge' = Tail(bridge)
    BY <1>6 DEF Inject
  <2>2. Head(bridge) \in Admitted /\ Tail(bridge) \in Seq(Admitted)
    BY <2>1, HeadTailProperties DEF Accounted
  <2>3. Head(bridge).local \in Locals /\ policy_key(Head(bridge).call) \in Source
    BY <2>2 DEF Admitted, Source
  <2> QED
    BY <1>6, <2>1, <2>2, <2>3, AccountedOnOutbound DEF Inject
<1>7. ASSUME NEW c \in EventStreams, FanOut(c) \/ Yield(c) PROVE Accounted'
  BY <1>7, AccountedFanOut, AccountedYield
<1>8. CASE StopServer \/ StopLinks \/ UNCHANGED vars
  BY <1>8, AccountedElsewhere DEF StopServer, StopLinks, in_vars, fan_vars, vars
<1> QED
  BY <1>1, <1>2, <1>3, <1>4, <1>5, <1>6, <1>7, <1>8 DEF Next, Handler, Call

LEMMA AlwaysAccounted == Spec => [](Base /\ LinksFollowCalls /\ Accounted)
<1>1. Init => Accounted
  BY EmptySeq DEF Init, FanOutTo, Accounted, quarantined, policy_key
<1>2. Base /\ LinksFollowCalls /\ Accounted /\ [Next]_vars => Accounted'
  BY AccountedNext
<1> QED
  BY <1>1, <1>2, AlwaysBase, LinksRegistered, PTL DEF Spec

\* Whatever a certificate and a registry may be: what a quarantined connection sends never
\* reaches the bridge and it is sent nothing, and for every other the group maps of its
\* certificate decide what the handlers admit and what the streams carry.
THEOREM PolicyHolds == Spec => []UnderPolicy
<1>1. Accounted => UnderPolicy
  <2> SUFFICES ASSUME Accounted PROVE UnderPolicy
    OBVIOUS
  <2>1. ASSUME NEW i \in DOMAIN bridge PROVE bridge[i] \in Admitted
    BY LenProperties, ElementOfSeq DEF Accounted
  <2>2. ASSUME NEW c \in EventStreams, NEW i \in DOMAIN sent[c] PROVE sent[c][i] \in CopyFor(c)
    BY LenProperties, ElementOfSeq DEF Accounted
  <2> QED
    BY <2>1, <2>2 DEF UnderPolicy, Admitted, CopyFor
<1> QED
  BY <1>1, AlwaysAccounted, PTL

\* on_outbound never gives an event back to the peer it was received from, on whichever of
\* that peer's connections and through whichever of its links.
THEOREM SourceNotServed == Spec => []NoEchoToSource
<1>1. Accounted => NoEchoToSource
  <2> SUFFICES ASSUME Accounted, NEW c \in EventStreams, NEW i \in DOMAIN sent[c]
               PROVE  sent[c][i].src # policy_key(c)
    BY DEF NoEchoToSource
  <2>1. sent[c][i] \in CopyFor(c)
    BY LenProperties, ElementOfSeq DEF Accounted
  <2> QED
    BY <2>1 DEF CopyFor
<1> QED
  BY <1>1, AlwaysAccounted, PTL
-----------------------------------------------------------------------------
(* Order.  What is on a stream and then in its queue is one increasing        *)
(* sequence of events, all of them before those the link is still to get.    *)
Chain(s, t, n) ==
  /\ \A i, j \in 1..Len(s) : i < j => s[i].id < s[j].id
  /\ \A i, j \in 1..Len(t) : i < j => t[i].id < t[j].id
  /\ \A i \in 1..Len(s), j \in 1..Len(t) : s[i].id < t[j].id
  /\ \A i \in 1..Len(s) : s[i].id < n
  /\ \A j \in 1..Len(t) : t[j].id < n

NextFor(c) == IF c \in fan.rest THEN fan.id ELSE published + 1

Ordered == \A c \in EventStreams : Chain(sent[c], outbound_q[c], NextFor(c))

LEMMA IdsAreNumbers ==
  ASSUME NEW q \in Seq(Copy)
  PROVE  Len(q) \in Nat /\ \A i \in 1..Len(q) : q[i].id \in Nat
<1>1. Len(q) \in Nat
  BY LenProperties
<1>2. ASSUME NEW i \in 1..Len(q) PROVE q[i].id \in Nat
  <2>1. q[i] \in Copy
    BY ElementOfSeq
  <2> QED
    BY <2>1 DEF Copy
<1> QED
  BY <1>1, <1>2

LEMMA ChainLater ==
  ASSUME NEW s \in Seq(Copy), NEW t \in Seq(Copy), NEW n \in Nat, NEW m \in Nat,
         Chain(s, t, n), n <= m
  PROVE  Chain(s, t, m)
<1>1. /\ \A i \in 1..Len(s) : s[i].id \in Nat
      /\ \A i \in 1..Len(t) : t[i].id \in Nat
  BY IdsAreNumbers
<1> QED
  BY <1>1 DEF Chain

LEMMA ChainAppend ==
  ASSUME NEW s \in Seq(Copy), NEW t \in Seq(Copy), NEW e \in Copy, NEW m \in Nat,
         Chain(s, t, e.id), e.id < m
  PROVE  Chain(s, Append(t, e), m)
<1>1. /\ \A i \in 1..Len(s) : s[i].id \in Nat
      /\ \A i \in 1..Len(t) : t[i].id \in Nat
      /\ e.id \in Nat /\ Len(s) \in Nat /\ Len(t) \in Nat
  BY IdsAreNumbers DEF Copy
<1>2. /\ Len(Append(t, e)) = Len(t) + 1
      /\ \A i \in 1..Len(t) : Append(t, e)[i] = t[i]
      /\ Append(t, e)[Len(t) + 1] = e
  BY AppendProperties
<1> QED
  BY <1>1, <1>2 DEF Chain

\* The head of the queue goes to the stream.
LEMMA ChainMove ==
  ASSUME NEW s \in Seq(Copy), NEW t \in Seq(Copy), NEW n \in Nat, Chain(s, t, n), t # <<>>
  PROVE  Chain(s, Tail(t), n) /\ Chain(Append(s, Head(t)), Tail(t), n)
<1>1. Len(s) \in Nat /\ Len(t) \in Nat \ {0}
  BY LenProperties, EmptySeq
<1>2. /\ Len(Tail(t)) = Len(t) - 1 /\ Head(t) \in Copy
      /\ \A i \in 1..Len(Tail(t)) : Tail(t)[i] = t[i + 1]
      /\ Head(t) = t[1]
  BY HeadTailProperties
<1>3. /\ Len(Append(s, Head(t))) = Len(s) + 1
      /\ \A i \in 1..Len(s) : Append(s, Head(t))[i] = s[i]
      /\ Append(s, Head(t))[Len(s) + 1] = t[1]
  BY <1>2, AppendProperties
<1>4. Chain(s, Tail(t), n)
  BY <1>1, <1>2 DEF Chain
<1>5. Chain(Append(s, Head(t)), Tail(t), n)
  BY <1>1, <1>2, <1>3 DEF Chain
<1> QED
  BY <1>4, <1>5

LEMMA OrderedElsewhere ==
  Ordered /\ UNCHANGED <<fan, published, outbound_q, sent>> => Ordered'
  BY DEF Ordered, NextFor

LEMMA OrderedOnOutbound ==
  ASSUME Base, Accounted, Ordered, NEW local, NEW src, OnOutbound(local, src) PROVE Ordered'
<1>1. /\ fan.rest = {} /\ published' = published + 1 /\ UNCHANGED <<outbound_q, sent>>
      /\ fan' = FanOutTo(published + 1, local, src, links)
  BY DEF OnOutbound
<1>2. fan'.rest = links /\ (fan'.rest # {} => fan'.id = published + 1)
  BY <1>1 DEF FanOutTo
<1> SUFFICES ASSUME NEW c \in EventStreams PROVE Chain(sent[c], outbound_q[c], NextFor(c)')
  BY <1>1 DEF Ordered
<1>3. /\ NextFor(c) \in Nat /\ NextFor(c)' \in Nat /\ NextFor(c) <= NextFor(c)'
      /\ sent[c] \in Seq(Copy) /\ outbound_q[c] \in Seq(Copy)
  BY <1>1, <1>2 DEF NextFor, Base, Accounted
<1> QED
  BY <1>3, ChainLater DEF Ordered

LEMMA OrderedFanOut ==
  ASSUME Base, Accounted, Ordered, NEW c \in EventStreams, FanOut(c) PROVE Ordered'
<1>1. /\ c \in fan.rest /\ UNCHANGED <<published, sent>>
      /\ fan' = FanOutTo(fan.id, fan.local, fan.src, fan.rest \ {c})
  BY DEF FanOut
<1>2. fan'.rest = fan.rest \ {c} /\ (fan'.rest # {} => fan'.id = fan.id)
  BY <1>1 DEF FanOutTo
<1>3. fan.id \in Nat /\ published \in Nat /\ fan.id < published + 1
  BY DEF Base
<1>4. ASSUME NEW d \in EventStreams PROVE sent[d] \in Seq(Copy) /\ outbound_q[d] \in Seq(Copy)
  BY DEF Accounted
<1>5. NextFor(c) = fan.id /\ NextFor(c)' = published + 1
  BY <1>1, <1>2 DEF NextFor
<1>6. ASSUME NEW d \in EventStreams, d # c PROVE NextFor(d)' = NextFor(d)
  BY <1>1, <1>2, <1>6 DEF NextFor
<1>7. CASE UNCHANGED outbound_q
  <2>1. Chain(sent[c], outbound_q[c], published + 1)
    BY <1>3, <1>4, <1>5, ChainLater DEF Ordered
  <2> QED
    BY <1>1, <1>5, <1>6, <1>7, <2>1 DEF Ordered
<1>8. CASE \E e \in CopyFor(c) : /\ e.id = fan.id
                                 /\ outbound_q' = [outbound_q EXCEPT ![c] = Append(@, e)]
  <2>1. PICK e \in CopyFor(c) : /\ e.id = fan.id
                                /\ outbound_q' = [outbound_q EXCEPT ![c] = Append(@, e)]
    BY <1>8
  <2>2. e \in Copy
    BY DEF CopyFor
  <2>3. Chain(sent[c], Append(outbound_q[c], e), published + 1)
    BY <1>3, <1>4, <1>5, <2>1, <2>2, ChainAppend DEF Ordered
  <2>4. /\ outbound_q'[c] = Append(outbound_q[c], e)
        /\ \A d \in EventStreams : d # c => outbound_q'[d] = outbound_q[d]
    BY <2>1 DEF Accounted
  <2> QED
    BY <1>1, <1>5, <1>6, <2>3, <2>4 DEF Ordered
<1> QED
  BY <1>7, <1>8, FanOutQueues

LEMMA OrderedYield ==
  ASSUME Base, Accounted, Ordered, NEW c \in EventStreams, Yield(c) PROVE Ordered'
<1>1. /\ outbound_q[c] # <<>> /\ UNCHANGED <<fan, published>>
      /\ outbound_q' = [outbound_q EXCEPT ![c] = Tail(@)]
      /\ \/ UNCHANGED sent
         \/ sent' = [sent EXCEPT ![c] = Append(@, Head(outbound_q[c]))]
  BY DEF Yield, fan_vars
<1>2. \A d \in EventStreams : NextFor(d)' = NextFor(d) /\ NextFor(d) \in Nat
  BY <1>1 DEF NextFor, Base
<1>3. sent[c] \in Seq(Copy) /\ outbound_q[c] \in Seq(Copy)
  BY DEF Accounted
<1>4. /\ Chain(sent[c], Tail(outbound_q[c]), NextFor(c))
      /\ Chain(Append(sent[c], Head(outbound_q[c])), Tail(outbound_q[c]), NextFor(c))
  BY <1>1, <1>2, <1>3, ChainMove DEF Ordered
<1>5. /\ outbound_q'[c] = Tail(outbound_q[c])
      /\ sent'[c] \in {sent[c], Append(sent[c], Head(outbound_q[c]))}
      /\ \A d \in EventStreams : d # c => outbound_q'[d] = outbound_q[d] /\ sent'[d] = sent[d]
  BY <1>1 DEF Accounted
<1> QED
  BY <1>2, <1>4, <1>5 DEF Ordered

LEMMA OrderedNext == Base /\ Accounted /\ Ordered /\ [Next]_vars => Ordered'
<1> SUFFICES ASSUME Base, Accounted, Ordered, [Next]_vars PROVE Ordered'
  OBVIOUS
<1>1. ASSUME NEW c \in Call, Start(c) \/ HangUp(c) \/ HalfClose(c) \/ Notify(c)
      PROVE  Ordered'
  BY <1>1, OrderedElsewhere DEF Start, HangUp, HalfClose, Notify, fan_vars
<1>2. ASSUME NEW c \in Call,
             \/ Register(c) \/ AddCallback(c) \/ Poll(c) \/ Deregister(c)
             \/ EndStream(c) \/ Release(c)
      PROVE  Ordered'
  BY <1>2, OrderedElsewhere
  DEF Register, AddCallback, Poll, Deregister, EndStream, Release, fan_vars
<1>3. ASSUME NEW c \in Call, NEW k \in Kinds, NEW g \in WireGroups,
             SendOneEvent(c, k, g) \/ Receive(c, k, g)
      PROVE  Ordered'
  BY <1>3, OrderedElsewhere DEF SendOneEvent, Receive, fan_vars
<1>4. ASSUME NEW g \in LocalGroups, PublishLocal(g) PROVE Ordered'
  BY <1>4, OrderedOnOutbound DEF PublishLocal
<1>5. CASE Inject
  BY <1>5, OrderedOnOutbound DEF Inject
<1>6. ASSUME NEW c \in EventStreams, FanOut(c) \/ Yield(c) PROVE Ordered'
  BY <1>6, OrderedFanOut, OrderedYield
<1>7. CASE StopServer \/ StopLinks \/ UNCHANGED vars
  BY <1>7, OrderedElsewhere DEF StopServer, StopLinks, fan_vars, vars
<1> QED
  BY <1>1, <1>2, <1>3, <1>4, <1>5, <1>6, <1>7 DEF Next, Handler, Call

\* Each ClientEventStream carries the events on_outbound saw in the order it saw them and
\* each at most once, however fan-outs and drain_outbound of several links interleave.
THEOREM StreamsInOrder == Spec => []StreamedInOrderOnce
<1>1. Init => Ordered
  BY DEF Init, Ordered, Chain
<1>2. Accounted /\ Ordered => StreamedInOrderOnce
  <2> SUFFICES ASSUME Accounted, Ordered, NEW c \in EventStreams
               PROVE  \A i, j \in DOMAIN sent[c] : i < j => sent[c][i].id < sent[c][j].id
    BY DEF StreamedInOrderOnce
  <2>1. DOMAIN sent[c] = 1..Len(sent[c])
    BY LenProperties DEF Accounted
  <2> QED
    BY <2>1 DEF Ordered, Chain
<1> QED
  BY <1>1, <1>2, OrderedNext, AlwaysAccounted, PTL DEF Spec
=============================================================================
