----------------------- MODULE FederationBridgeProofs -----------------------
(* Safety of the wakeup bridge for any number of threads and events and any  *)
(* buffer size: no wakeup is lost, and every step is a step of a mailbox.    *)
EXTENDS FederationBridge, SequenceTheorems, TLAPS

\* TYPE.  The types of TypeOK hold in every reachable state; the wakeup bytes never
\* exceed the buffer, because a send on a full buffer fails.
THEOREM TypeCorrect == Spec => []TypeOK
<1>1. Init => TypeOK
  <2> SUFFICES ASSUME Init PROVE TypeOK
    OBVIOUS
  <2>1. closed \in BOOLEAN /\ stop \in BOOLEAN
    BY Zenon DEF Init
  <2>2. <<>> \in Seq(Event) /\ 0 \in 0..Capacity
    BY EmptySeq, CapacityAssumption
  <2> QED
    BY <2>1, <2>2, Zenon DEF Init, TypeOK
<1>2. TypeOK /\ [Next]_vars => TypeOK'
  <2> SUFFICES ASSUME TypeOK, [Next]_vars PROVE TypeOK'
    OBVIOUS
  <2> USE CapacityAssumption DEF TypeOK
  <2>1. ASSUME NEW t \in Thread, NEW e \in Event, Put(t, e) PROVE TypeOK'
    BY <2>1 DEF Put
  <2>2. ASSUME NEW t \in Thread, Wake(t) PROVE TypeOK'
    BY <2>2 DEF Wake
  <2>3. CASE Select
    BY <2>3 DEF Select
  <2>4. CASE Recv
    BY <2>4 DEF Recv
  <2>5. CASE Pop
    <3>1. CASE inbound_q = <<>>
      BY <2>5, <3>1 DEF Pop
    <3>2. CASE inbound_q # <<>>
      <4>1. Head(inbound_q) \in Event /\ Tail(inbound_q) \in Seq(Event)
        BY <3>2, HeadTailProperties
      <4>2. injected' = Append(injected, Head(inbound_q)) /\ inbound_q' = Tail(inbound_q)
        BY <2>5, <3>2 DEF Pop
      <4>3. injected' \in Seq(Event) /\ inbound_q' \in Seq(Event)
        BY <4>1, <4>2
      <4> QED
        BY <2>5, <4>3, Zenon DEF Pop
    <3> QED
      BY <3>1, <3>2
  <2>6. CASE RequestStop \/ Close
    BY <2>6 DEF RequestStop, Close
  <2>7. CASE UNCHANGED vars
    BY <2>7 DEF vars
  <2> QED
    BY <2>1, <2>2, <2>3, <2>4, <2>5, <2>6, <2>7 DEF Next
<1> QED
  BY <1>1, <1>2, PTL DEF Spec

\* NO LOST WAKEUP.  The drain thread never sleeps on a queue that holds an event unless a
\* byte is there or on its way.  The invariant is inductive because the thread reads the
\* bytes before it empties the queue: what a byte it consumed announced, it still pops.
THEOREM WakeupsNotLost == Spec => []NoLostWakeup
<1>1. Init => NoLostWakeup
  BY DEF Init, NoLostWakeup
<1>2. TypeOK /\ NoLostWakeup /\ [Next]_vars => NoLostWakeup'
  <2> SUFFICES ASSUME TypeOK, NoLostWakeup, [Next]_vars PROVE NoLostWakeup'
    OBVIOUS
  <2> USE CapacityAssumption DEF TypeOK, NoLostWakeup
  <2>1. ASSUME NEW t \in Thread, NEW e \in Event, Put(t, e) PROVE NoLostWakeup'
    BY <2>1 DEF Put
  <2>2. ASSUME NEW t \in Thread, Wake(t) PROVE NoLostWakeup'
    BY <2>2 DEF Wake
  <2>3. CASE Select
    BY <2>3 DEF Select
  <2>4. CASE Recv
    BY <2>4 DEF Recv
  <2>5. CASE Pop
    BY <2>5 DEF Pop
  <2>6. CASE RequestStop \/ Close
    BY <2>6 DEF RequestStop, Close
  <2>7. CASE UNCHANGED vars
    BY <2>7 DEF vars
  <2> QED
    BY <2>1, <2>2, <2>3, <2>4, <2>5, <2>6, <2>7 DEF Next
<1> QED
  BY <1>1, <1>2, TypeCorrect, PTL DEF Spec

\* MAILBOX.  Every behaviour of the bridge is one of a first-in first-out mailbox that
\* hands each event over once: enqueue's put accepts, the drain thread's pop hands over,
\* and every other step is invisible.
THEOREM BridgeIsMailbox == Spec => Promise!Spec
<1>1. Init => Promise!Init
  BY DEF Init, Promise!Init
<1>2. [Next]_vars => [Promise!Next]_Promise!vars
  <2> SUFFICES ASSUME [Next]_vars PROVE [Promise!Next]_Promise!vars
    OBVIOUS
  <2> USE DEF Promise!Next, Promise!vars
  <2>1. ASSUME NEW t \in Thread, NEW e \in Event, Put(t, e) PROVE Promise!Next
    BY <2>1 DEF Put, Promise!Accept
  <2>2. ASSUME NEW t \in Thread, Wake(t) PROVE UNCHANGED Promise!vars
    BY <2>2 DEF Wake
  <2>3. CASE Select \/ Recv
    BY <2>3 DEF Select, Recv
  <2>4. CASE Pop
    BY <2>4 DEF Pop, Promise!Hand
  <2>5. CASE RequestStop
    BY <2>5 DEF RequestStop, Promise!Stop
  <2>6. CASE Close
    BY <2>6 DEF Close
  <2>7. CASE UNCHANGED vars
    BY <2>7 DEF vars
  <2> QED
    BY <2>1, <2>2, <2>3, <2>4, <2>5, <2>6, <2>7 DEF Next
<1> QED
  BY <1>1, <1>2, PTL DEF Spec, Promise!Spec
=============================================================================
