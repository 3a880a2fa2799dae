-------------------------- MODULE FederationServer --------------------------
(***************************************************************************)
(* The inbound federation server (fed_server.py) and the part of the         *)
(* manager it works with: the calls peers make, each handled by a worker of  *)
(* the gRPC thread pool; the links that ClientEventStream registers; the     *)
(* thread that fans events out to a snapshot of those links; and the stop of *)
(* the manager, which ends the server and then the links that are left.      *)
(*                                                                          *)
(* A connection is known by the certificate it presents, as it is whenever   *)
(* the server has TLS and a registry, which the manager always gives it:     *)
(* policy_key is _resolve_authenticated_peer then, and the address map of    *)
(* its legacy fallback only labels logs.  The loop and hop guards of         *)
(* prepare_outbound_event are FederationMesh's; here it only maps groups.    *)
(* What is injected comes back to on_outbound with its source, as in bus.py. *)
(***************************************************************************)
EXTENDS GroupRegistry, FiniteSets

CONSTANTS
  EventStreams,  \* ClientEventStream calls: we send
  PushStreams,   \* ServerEventStream calls: we receive
  OneShots,      \* SendOneEvent calls
  GroupStreams,  \* ServerFederateGroupsStream calls
  Cert,          \* call -> fingerprint of the certificate of its connection
  Registry,      \* the FederateGroupRegistry
  LocalGroups,   \* sets of ACL groups of the events published here
  WireGroups,    \* sets of federateGroups of the events peers send
  AllowDelete,   \* [federation] allow_federated_delete
  MaxWorkers,    \* [federation] grpc_max_workers
  MaxCalls,      \* BOUND: calls peers make
  MaxEvents      \* BOUND: events published here or received on a stream

Call == EventStreams \cup PushStreams \cup OneShots \cup GroupStreams

ASSUME ServerAssumption ==
  /\ MaxWorkers \in Nat /\ MaxCalls \in Nat /\ MaxEvents \in Nat
  /\ AllowDelete \in BOOLEAN
  /\ DOMAIN Cert = Call
  /\ IsFiniteSet(Call)
  /\ EventStreams \cap (PushStreams \cup OneShots \cup GroupStreams) = {}
  /\ PushStreams \cap (OneShots \cup GroupStreams) = {}
  /\ OneShots \cap GroupStreams = {}

VARIABLES
  rpc,        \* call -> "live", "half" (the peer has sent its last event), "over"
  at,         \* call -> where its handler is
  signal,     \* call -> its completion callback: "none", "armed", "due", "done", "late"
  stop_event, \* call -> the stop event of its link
  outbound_q, \* call -> the queue of its link
  links,      \* calls whose link is in the manager's _inbound_links
  seen,       \* ServerEventStream calls that have had an event
  acked,      \* ServerEventStream calls that returned their Subscription
  bridge,     \* events enqueued and not yet injected
  fan,        \* on_outbound in progress: its event and the links of the snapshot still to serve
  published,  \* events that reached on_outbound
  owed,       \* history: <<call, id>> for each registered link an event was meant for
  sent,       \* history: call -> copies streamed on it
  server      \* "serving", "down", "stopped"

call_vars == <<rpc, at, signal, stop_event>>
in_vars   == <<seen, acked, bridge>>
fan_vars  == <<fan, published, owed>>
vars == <<call_vars, outbound_q, links, in_vars, fan_vars, sent, server>>

policy_key(c)  == resolve_peer_id_by_fingerprint(Registry, Cert[c])
quarantined(c) == policy_key(c) = None

\* The fan-out of event id; without links left it is over.
FanOutTo(id, local, src, rest) ==
  IF rest = {} THEN [id |-> 0, local |-> {}, src |-> None, rest |-> {}]
  ELSE [id |-> id, local |-> local, src |-> src, rest |-> rest]

Init ==
  /\ rpc = [c \in Call |-> "live"] /\ at = [c \in Call |-> "none"]
  /\ signal = [c \in Call |-> "none"]
  /\ stop_event = [c \in EventStreams |-> FALSE]
  /\ outbound_q = [c \in EventStreams |-> <<>>]
  /\ sent = [c \in EventStreams |-> <<>>]
  /\ links = {} /\ seen = {} /\ acked = {}
  /\ bridge = <<>>
  /\ fan = FanOutTo(0, {}, None, {}) /\ published = 0 /\ owed = {}
  /\ server = "serving"
-----------------------------------------------------------------------------
(* gRPC: a worker takes a call, and the call ends.  A call that waits for a  *)
(* worker has had no effect, and none if it ends before.                     *)
Goto(c, from, to) == at[c] = from /\ at' = [at EXCEPT ![c] = to]

Running == {c \in Call : at[c] \notin {"none", "closed"}}

First(c) == CASE c \in EventStreams -> "register"
              [] c \in PushStreams  -> "receive"
              [] c \in OneShots     -> "decode"
              [] c \in GroupStreams -> "hold"

Start(c) ==
  /\ server = "serving" /\ Cardinality({d \in Call : at[d] # "none"}) < MaxCalls
  /\ Cardinality(Running) < MaxWorkers
  /\ Goto(c, "none", First(c))
  /\ UNCHANGED <<rpc, signal, stop_event, outbound_q, links, in_vars, fan_vars, sent, server>>

\* A call that ends has its callbacks called, once, by a thread of gRPC's.
Ended(C) == [c \in Call |-> IF c \in C /\ signal[c] = "armed" THEN "due" ELSE signal[c]]

\* The peer cancels the call, or its connection is lost.
HangUp(c) ==
  /\ c \in Running /\ rpc[c] # "over"
  /\ rpc' = [rpc EXCEPT ![c] = "over"]
  /\ signal' = Ended({c})
  /\ UNCHANGED <<at, stop_event, outbound_q, links, in_vars, fan_vars, sent, server>>

\* The peer has sent its last event and waits for the response.
HalfClose(c) ==
  /\ at[c] = "receive" /\ rpc[c] = "live"
  /\ rpc' = [rpc EXCEPT ![c] = "half"]
  /\ UNCHANGED <<at, signal, stop_event, outbound_q, links, in_vars, fan_vars, sent, server>>

\* _on_rpc_done.
Notify(c) ==
  /\ signal[c] = "due"
  /\ signal' = [signal EXCEPT ![c] = "done"]
  /\ stop_event' = [stop_event EXCEPT ![c] = TRUE]
  /\ UNCHANGED <<rpc, at, outbound_q, links, in_vars, fan_vars, sent, server>>
-----------------------------------------------------------------------------
(* ClientEventStream and drain_outbound.                                   *)

\* Mutant: a connection nobody configured is registered like any other.
M_Register(c) ==
  /\ Goto(c, "register", "callback")
  /\ links' = links \cup {c}
  /\ UNCHANGED <<rpc, signal, stop_event, outbound_q, in_vars, fan_vars, sent, server>>

Register(c) ==
  /\ Goto(c, "register", "callback")
  /\ links' = IF quarantined(c) THEN links ELSE links \cup {c}
  /\ UNCHANGED <<rpc, signal, stop_event, outbound_q, in_vars, fan_vars, sent, server>>

\* Mutant: no callback.
M_AddCallback(c) ==
  /\ Goto(c, "callback", "poll")
  /\ UNCHANGED <<rpc, signal, stop_event, outbound_q, links, in_vars, fan_vars, sent, server>>

\* add_callback on a call that is over does nothing.
AddCallback(c) ==
  /\ Goto(c, "callback", "poll")
  /\ signal' = [signal EXCEPT ![c] = IF rpc[c] = "over" THEN "late" ELSE "armed"]
  /\ UNCHANGED <<rpc, stop_event, outbound_q, links, in_vars, fan_vars, sent, server>>

\* Mutant: an empty queue ends the stream.
M_Poll(c) ==
  /\ stop_event[c] \/ outbound_q[c] = <<>>
  /\ Goto(c, "poll", "deregister")
  /\ UNCHANGED <<rpc, signal, stop_event, outbound_q, links, in_vars, fan_vars, sent, server>>

\* The loop head of drain_outbound finds the stop event set.  A get that times out returns
\* to it.  A stop between the loop head and get makes no difference to what is sent: the
\* call is over by then.
Poll(c) ==
  /\ stop_event[c]
  /\ Goto(c, "poll", "deregister")
  /\ UNCHANGED <<rpc, signal, stop_event, outbound_q, links, in_vars, fan_vars, sent, server>>

\* Mutant: the copy is looked at, not taken.
M_Yield(c) ==
  /\ ~stop_event[c] /\ outbound_q[c] # <<>> /\ Len(sent[c]) <= MaxEvents
  /\ Goto(c, "poll", IF rpc[c] = "over" THEN "deregister" ELSE "poll")
  /\ sent' = IF rpc[c] = "over" THEN sent
             ELSE [sent EXCEPT ![c] = Append(@, Head(outbound_q[c]))]
  /\ UNCHANGED <<rpc, signal, stop_event, outbound_q, links, in_vars, fan_vars, server>>

\* gRPC sends what the generator yields, and closes the generator of a call that is over.
Yield(c) ==
  /\ ~stop_event[c] /\ outbound_q[c] # <<>>
  /\ Goto(c, "poll", IF rpc[c] = "over" THEN "deregister" ELSE "poll")
  /\ outbound_q' = [outbound_q EXCEPT ![c] = Tail(@)]
  /\ sent' = IF rpc[c] = "over" THEN sent
             ELSE [sent EXCEPT ![c] = Append(@, Head(outbound_q[c]))]
  /\ UNCHANGED <<rpc, signal, stop_event, links, in_vars, fan_vars, server>>

\* Mutant: every link of the peer goes, not only this call's.
M_Deregister(c) ==
  /\ Goto(c, "deregister", "closed")
  /\ links' = {d \in links : policy_key(d) # policy_key(c)}
  /\ UNCHANGED <<rpc, signal, stop_event, outbound_q, in_vars, fan_vars, sent, server>>

Deregister(c) ==
  /\ Goto(c, "deregister", "closed")
  /\ links' = links \ {c}
  /\ UNCHANGED <<rpc, signal, stop_event, outbound_q, in_vars, fan_vars, sent, server>>
-----------------------------------------------------------------------------
(* ServerEventStream, SendOneEvent and ServerFederateGroupsStream.         *)

\* The event that reaches the bridge, or none: a quarantined connection has no policy.
Admit(c, kind, groups) ==
  LET locals == IF quarantined(c) THEN {}
                ELSE map_inbound_groups(Registry, policy_key(c), groups)
  IN IF kind = "undecodable" \/ locals = {} THEN <<>>
     ELSE <<[call |-> c, kind |-> kind, wire |-> groups, local |-> locals]>>

Receive(c, kind, groups) ==
  /\ at[c] = "receive" /\ rpc[c] = "live"
  /\ Len(bridge) + published < MaxEvents
  /\ seen' = seen \cup {c}
  /\ bridge' = bridge \o IF kind = "delete" /\ ~AllowDelete THEN <<>> ELSE Admit(c, kind, groups)
  /\ UNCHANGED <<call_vars, outbound_q, links, acked, fan_vars, sent, server>>

\* The end of the requests, or the exception a call that is over raises.  The finally
\* clause reads peer_id, which the first event binds; without one it raises.
EndStream(c) ==
  /\ rpc[c] \in {"half", "over"}
  /\ Goto(c, "receive", "closed")
  /\ acked' = IF rpc[c] = "half" /\ c \in seen THEN acked \cup {c} ELSE acked
  /\ UNCHANGED <<rpc, signal, stop_event, outbound_q, links, seen, bridge, fan_vars, sent, server>>

SendOneEvent(c, kind, groups) ==
  /\ Goto(c, "decode", "closed")
  /\ bridge' = bridge \o Admit(c, kind, groups)
  /\ UNCHANGED <<rpc, signal, stop_event, outbound_q, links, seen, acked, fan_vars, sent, server>>

\* The loop on is_active.
Release(c) ==
  /\ rpc[c] = "over"
  /\ Goto(c, "hold", "closed")
  /\ UNCHANGED <<rpc, signal, stop_event, outbound_q, links, in_vars, fan_vars, sent, server>>
-----------------------------------------------------------------------------
(* The thread that publishes: a local event, or the next one off the bridge, *)
(* goes through on_outbound.                                                 *)
MeantFor(c, local, src) ==
  src # policy_key(c) /\ map_outbound_groups(Registry, policy_key(c), local) # {}

OnOutbound(local, src) ==
  /\ fan.rest = {}
  /\ published' = published + 1
  /\ fan' = FanOutTo(published + 1, local, src, links)
  /\ owed' = owed \cup {<<c, published + 1>> : c \in {d \in links : MeantFor(d, local, src)}}
  /\ UNCHANGED <<call_vars, outbound_q, links, seen, acked, sent, server>>

PublishLocal(local) ==
  /\ Len(bridge) + published < MaxEvents
  /\ OnOutbound(local, None)
  /\ UNCHANGED bridge

Inject ==
  /\ bridge # <<>>
  /\ OnOutbound(Head(bridge).local, policy_key(Head(bridge).call))
  /\ bridge' = Tail(bridge)

\* send_event of one link: the copy it queues, or none.
send_event(c) ==
  LET groups == map_outbound_groups(Registry, policy_key(c), fan.local)
  IN IF groups = {} THEN <<>>
     ELSE <<[id |-> fan.id, src |-> fan.src, local |-> fan.local, groups |-> groups]>>

\* Mutant: the source is skipped by link only, and no registered link is ever the source.
M_FanOut(c) ==
  /\ c \in fan.rest
  /\ fan' = FanOutTo(fan.id, fan.local, fan.src, fan.rest \ {c})
  /\ outbound_q' = [outbound_q EXCEPT ![c] = @ \o send_event(c)]
  /\ UNCHANGED <<call_vars, links, in_vars, published, owed, sent, server>>

FanOut(c) ==
  /\ c \in fan.rest
  /\ fan' = FanOutTo(fan.id, fan.local, fan.src, fan.rest \ {c})
  /\ outbound_q' = IF fan.src # None /\ fan.src = policy_key(c) THEN outbound_q
                   ELSE [outbound_q EXCEPT ![c] = @ \o send_event(c)]
  /\ UNCHANGED <<call_vars, links, in_vars, published, owed, sent, server>>
-----------------------------------------------------------------------------
(* FederationManager.stop.                                                 *)
\* FederationServer.stop: no more calls and then, when the grace period ends, every call is
\* cancelled.  Until it ends this is a server that happens to get no call.
StopServer ==
  /\ server = "serving" /\ server' = "down"
  /\ rpc' = [c \in Call |-> IF c \in Running THEN "over" ELSE rpc[c]]
  /\ signal' = Ended(Running)
  /\ UNCHANGED <<at, stop_event, outbound_q, links, in_vars, fan_vars, sent>>

\* The links that are still registered are told to stop.
StopLinks ==
  /\ server = "down" /\ server' = "stopped"
  /\ stop_event' = [c \in EventStreams |-> stop_event[c] \/ c \in links]
  /\ UNCHANGED <<rpc, at, signal, outbound_q, links, in_vars, fan_vars, sent>>
-----------------------------------------------------------------------------
Kinds == {"undecodable", "delete", "cot"}

Handler(c) ==
  \/ /\ c \in EventStreams
     /\ \/ Register(c) \/ AddCallback(c) \/ Poll(c) \/ Yield(c) \/ Deregister(c)
  \/ c \in PushStreams /\ EndStream(c)
  \/ c \in GroupStreams /\ Release(c)
  \/ c \in OneShots /\ \E k \in Kinds, g \in WireGroups : SendOneEvent(c, k, g)

Next ==
  \/ \E c \in Call : Start(c) \/ HangUp(c) \/ Handler(c)
  \/ \E c \in PushStreams : HalfClose(c)
  \/ \E c \in EventStreams : Notify(c) \/ FanOut(c)
  \/ \E c \in PushStreams, k \in Kinds, g \in WireGroups : Receive(c, k, g)
  \/ \E g \in LocalGroups : PublishLocal(g)
  \/ Inject
  \/ StopServer \/ StopLinks

Spec == Init /\ [][Next]_vars

\* Workers, gRPC's threads and the publishing thread run, and a stop goes on to its end.
\* Nothing is assumed of a peer, nor that the server is stopped.
Fairness ==
  /\ \A c \in Call : WF_vars(Handler(c))
  /\ \A c \in EventStreams : WF_vars(Notify(c)) /\ WF_vars(FanOut(c))
  /\ WF_vars(StopLinks)

FairSpec == Spec /\ Fairness
-----------------------------------------------------------------------------
(* Properties.                                                             *)
HandlerAt == {"none", "register", "callback", "poll", "deregister",
              "receive", "decode", "hold", "closed"}

\* TYPE, with the pool's limit.
TypeOK ==
  /\ rpc \in [Call -> {"live", "half", "over"}]
  /\ at \in [Call -> HandlerAt]
  /\ signal \in [Call -> {"none", "armed", "due", "done", "late"}]
  /\ stop_event \in [EventStreams -> BOOLEAN]
  /\ links \subseteq EventStreams
  /\ seen \subseteq PushStreams /\ acked \subseteq PushStreams
  /\ published \in Nat
  /\ fan.rest \subseteq EventStreams /\ fan.id \in 0..published
  /\ server \in {"serving", "down", "stopped"}
  /\ Cardinality(Running) <= MaxWorkers

\* UNDER POLICY.  A connection whose certificate no section has delivers nothing and is sent
\* nothing, whatever the defaults admit.  Any other delivers under the inbound policy of its
\* certificate, never for no group, and is sent only copies the outbound policy maps.
\* A delete passes ServerEventStream only when deletes are allowed.
UnderPolicy ==
  /\ \A i \in DOMAIN bridge :
       LET e == bridge[i] IN
         /\ ~quarantined(e.call)
         /\ e.local = map_inbound_groups(Registry, policy_key(e.call), e.wire) /\ e.local # {}
         /\ e.kind = "delete" /\ e.call \in PushStreams => AllowDelete
  /\ \A c \in EventStreams : \A i \in DOMAIN sent[c] :
       LET e == sent[c][i] IN
         /\ ~quarantined(c)
         /\ e.groups = map_outbound_groups(Registry, policy_key(c), e.local) /\ e.groups # {}

\* LINKS LIVE AS LONG AS THEIR CALLS.  A link is registered from the registration of its
\* call to the handler's end, however the calls of one peer overlap when it reconnects.
LinksFollowCalls ==
  links = {c \in EventStreams : /\ at[c] \in {"callback", "poll", "deregister"}
                                /\ ~quarantined(c)}

\* NO ECHO.  An event is never streamed to the peer it came from, on any of its connections.
NoEchoToSource ==
  \A c \in EventStreams : \A i \in DOMAIN sent[c] : sent[c][i].src # policy_key(c)

\* IN ORDER, ONCE.  Each connection is sent events in the order on_outbound saw them.
StreamedInOrderOnce ==
  \A c \in EventStreams : \A i, j \in DOMAIN sent[c] : i < j => sent[c][i].id < sent[c][j].id

\* REACHES.  A peer that is connected when a fan-out begins and is entitled to the event is
\* sent it in the end, unless its call ends first or the server stops.
Sent(c, id) == \E i \in DOMAIN sent[c] : sent[c][i].id = id

ReachesStreams ==
  <>[](\A o \in owed : Sent(o[1], o[2]) \/ rpc[o[1]] = "over" \/ server # "serving")

\* ENDS.  When a call is over its handler gives its worker back; the one exception is a call
\* that was over before ClientEventStream added its callback.
EndsWithCall ==
  <>[](\A c \in Running : rpc[c] = "over" => signal[c] = "late")
=============================================================================
