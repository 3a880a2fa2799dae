------------------------------ MODULE Mailbox ------------------------------
(***************************************************************************)
(* What FederationBridge promises the side-threads that hand it events and  *)
(* the application that takes them: one queue, first in first out, each     *)
(* event handed over once, and, until the engine is told to stop, every     *)
(* event handed over.                                                       *)
(***************************************************************************)
EXTENDS Sequences

CONSTANT Event

VARIABLES
  pending,    \* events accepted and not yet handed over, oldest first
  handed,     \* events handed to the bus, oldest first
  stopped

vars == <<pending, handed, stopped>>

Init == pending = <<>> /\ handed = <<>> /\ stopped = FALSE

Accept(e) ==
  /\ pending' = Append(pending, e)
  /\ UNCHANGED <<handed, stopped>>

Hand ==
  /\ pending # <<>>
  /\ handed' = Append(handed, Head(pending))
  /\ pending' = Tail(pending)
  /\ UNCHANGED stopped

Stop == stopped' = TRUE /\ UNCHANGED <<pending, handed>>

Next == Stop \/ Hand \/ \E e \in Event : Accept(e)

\* Handing over may go on for a while after Stop, but need not.
Spec == Init /\ [][Next]_vars
FairSpec == Spec /\ WF_vars(~stopped /\ Hand)
=============================================================================
