--------------------------- MODULE FederateClient ---------------------------
(***************************************************************************)
(* One outbound federation link (client.py): the gRPC side-thread that       *)
(* connects, binds the peer's policy identity to the certificate the dialed  *)
(* host presents, opens the streams, receives until the session ends and     *)
(* reconnects; the application thread that calls send_event and, at the end, *)
(* request_stop; and the generators that feed the outbound queue to a        *)
(* session's ServerEventStream.  One thread of each exists except that a     *)
(* session's generator may outlive it.                                       *)
(*                                                                          *)
(* A step is the code between two accesses to what threads share.  Back-off  *)
(* lengths, health checks and the empty first FederatedEvent change no state *)
(* modelled here.  The manager always passes a group registry, so the        *)
(* legacy mode without one is left out.  The loop and hop guards of          *)
(* prepare_outbound_event are FederationMesh's; here it only maps groups.    *)
(***************************************************************************)
EXTENDS GroupRegistry

CONSTANTS
  Fingerprint,     \* certificates a dialed host may present
  Registry,        \* the FederateGroupRegistry; it does not change under a client
  LocalGroups,     \* sets of ACL groups of the events the application sends
  WireGroups,      \* sets of federateGroups of the events the peer sends
  AllowDelete,     \* [federation] allow_federated_delete
  MaxSends,        \* BOUND: events the application sends
  MaxLosses        \* BOUND: times a transport or a stream of a session breaks

ASSUME ClientAssumption ==
  /\ MaxSends \in Nat /\ MaxLosses \in Nat
  /\ AllowDelete \in BOOLEAN
  /\ DOMAIN Registry.fingerprint \subseteq Fingerprint
  /\ \A f \in DOMAIN Registry.fingerprint : Registry.fingerprint[f] # None

VARIABLES
  state,       \* _state
  stop,        \* _stop_event
  remote,      \* _remote_server_id, the policy identity
  outbound_q,  \* _outbound_q: copies mapped and not yet taken by a generator
  thread,      \* where the gRPC thread is
  verified,    \* verified_fp of _run_session
  transport,   \* certificate of the channel's transport; None without a channel
  session,     \* sessions that have opened their streams
  open,        \* the last session's ServerEventStream still carries events
  generator,   \* session -> where its _outbound_generator is
  app,         \* where the application thread is
  held,        \* ACL groups of the event inside send_event
  sends,       \* events that entered send_event
  wire,        \* history: copies written to a ServerEventStream, in order
  admitted,    \* what the session's last event was handed to the bridge as; {} if it was not
  losses

session_vars == <<verified, transport, session, open>>
app_vars     == <<app, held, sends>>
vars == <<state, stop, remote, outbound_q, thread, session_vars, generator,
          app_vars, wire, admitted, losses>>

Init ==
  /\ state = "DISABLED" /\ stop = FALSE /\ remote = None
  /\ outbound_q = <<>> /\ wire = <<>> /\ admitted = {}
  /\ thread = "loop" /\ verified = None /\ transport = None
  /\ session = 0 /\ open = FALSE /\ generator = <<>>
  /\ app = "idle" /\ held = {} /\ sends = 0
  /\ losses = 0
-----------------------------------------------------------------------------
(* The gRPC thread: run_grpc_thread and _run_session.                      *)

\* What the rest of the client keeps while the gRPC thread takes a step.
OthersKeep == UNCHANGED <<stop, outbound_q, app_vars, wire>>

Goto(from, to) == thread = from /\ thread' = to
SetState(s)    == state' = s

CheckStop ==
  /\ Goto("loop", IF stop THEN "exited" ELSE "connect")
  /\ OthersKeep /\ UNCHANGED <<state, remote, session_vars, generator, admitted, losses>>

Connect ==
  /\ Goto("connect", "handshake") /\ SetState("CONNECTING")
  /\ OthersKeep /\ UNCHANGED <<remote, session_vars, generator, admitted, losses>>

Handshake ==
  /\ Goto("handshake", "verify") /\ SetState("HANDSHAKING")
  /\ OthersKeep /\ UNCHANGED <<remote, session_vars, generator, admitted, losses>>

\* _wait_channel_ready and _resolve_dialed_cert_identity succeed for exactly one
\* configured certificate.
BindIdentity(f) ==
  /\ Goto("verify", "identify")
  /\ resolve_peer_id_by_fingerprint(Registry, f) # None
  /\ remote' = resolve_peer_id_by_fingerprint(Registry, f)
  /\ verified' = f /\ transport' = f
  /\ OthersKeep /\ UNCHANGED <<state, session, open, generator, admitted, losses>>

\* getIdentity returns and does not contradict the configured server_id.
Identify ==
  /\ Goto("identify", "open")
  /\ OthersKeep /\ UNCHANGED <<state, remote, session_vars, generator, admitted, losses>>

\* _open_server_event_stream and _open_client_groups_stream.
OpenStreams ==
  /\ Goto("open", "recheck")
  /\ session' = session + 1
  /\ open' = TRUE
  /\ generator' = Append(generator, "check")
  /\ OthersKeep /\ UNCHANGED <<state, remote, verified, transport, admitted, losses>>

\* Mutant: no second look at the certificate.
M_Recheck ==
  /\ Goto("recheck", "activate")
  /\ OthersKeep /\ UNCHANGED <<state, remote, session_vars, generator, admitted, losses>>

\* _recheck_dialed_cert.
Recheck ==
  /\ transport = verified
  /\ Goto("recheck", "activate")
  /\ OthersKeep /\ UNCHANGED <<state, remote, session_vars, generator, admitted, losses>>

Activate ==
  /\ Goto("activate", "subscribe") /\ SetState("ACTIVE")
  /\ OthersKeep /\ UNCHANGED <<remote, session_vars, generator, admitted, losses>>

\* _run_event_loop opens ClientEventStream and ServerFederateGroupsStream.
Subscribe ==
  /\ Goto("subscribe", "receive")
  /\ OthersKeep /\ UNCHANGED <<state, remote, session_vars, generator, admitted, losses>>

\* Leaving _run_session cancels its RPCs and closes its channel.
Leave(to) ==
  /\ thread' = to
  /\ open' = FALSE /\ transport' = None /\ verified' = None
  /\ admitted' = {}
  /\ OthersKeep /\ UNCHANGED <<state, remote, session, generator>>

\* An exception leaves _run_session: the host is not reached in time, presents no
\* certificate, several, or one no section has (verify); the RPC fails or the reported
\* server_id contradicts the configured one (identify); the certificate changed (recheck).
Refuse ==
  /\ \/ thread \in {"verify", "identify"}
     \/ thread = "recheck" /\ transport # verified
  /\ Leave("failed")
  /\ UNCHANGED losses

\* Mutant: an event without groups skips the group policy.
M_handle_inbound(kind, groups) ==
  LET locals == map_inbound_groups(Registry, remote, groups)
      Enqueue(g) == {[kind |-> kind, wire |-> groups, groups |-> g, cert |-> verified]}
  IN CASE kind = "undecodable" -> {}
       [] kind = "contact" -> Enqueue(None)
       [] kind = "delete" /\ ~AllowDelete -> {}
       [] OTHER -> IF remote = None \/ groups = {} THEN Enqueue(None)
                   ELSE IF locals = {} THEN {} ELSE Enqueue(locals)

\* _handle_inbound: what one FederatedEvent is handed to the bridge as.  groups = None
\* stands for an event without the group sidecars.
_handle_inbound(kind, groups) ==
  LET locals == map_inbound_groups(Registry, remote, groups)
      Enqueue(g) == {[kind |-> kind, wire |-> groups, groups |-> g, cert |-> verified]}
  IN CASE kind = "undecodable" -> {}
       [] kind = "contact" -> Enqueue(None)
       [] kind = "delete" /\ ~AllowDelete -> {}
       [] OTHER -> IF remote = None THEN Enqueue(None)
                   ELSE IF locals = {} THEN {} ELSE Enqueue(locals)

\* The event stream yields an event: the thread looks at the stop event first.
Receive(kind, groups) ==
  /\ thread = "receive"
  /\ \/ /\ stop
        /\ Leave("ended")
     \/ /\ ~stop
        /\ admitted' = _handle_inbound(kind, groups)
        /\ OthersKeep /\ UNCHANGED <<state, remote, thread, session_vars, generator>>
  /\ UNCHANGED losses

\* The event stream ends without an error, or with one.
StreamEnds ==
  /\ thread = "receive" /\ losses < MaxLosses
  /\ losses' = losses + 1
  /\ Leave("ended") \/ Leave("failed")

\* Mutant: an exception nobody catches.
M_AfterSession ==
  /\ \/ thread = "ended"  /\ thread' = IF state = "DRAINING" THEN "exited" ELSE "reconnect"
     \/ thread = "failed" /\ thread' = "exited"
  /\ OthersKeep /\ UNCHANGED <<state, remote, session_vars, generator, admitted, losses>>

\* Mutant: a failed session is tried again at once.
M_RetryNow ==
  /\ \/ thread = "ended"  /\ thread' = IF state = "DRAINING" THEN "exited" ELSE "reconnect"
     \/ thread = "failed" /\ thread' = "connect"
  /\ OthersKeep /\ UNCHANGED <<state, remote, session_vars, generator, admitted, losses>>

\* run_grpc_thread after _run_session has returned, and after it has raised.
AfterSession ==
  /\ \/ thread = "ended"  /\ thread' = IF state = "DRAINING" THEN "exited" ELSE "reconnect"
     \/ thread = "failed" /\ thread' = IF stop THEN "exited" ELSE "reconnect"
  /\ OthersKeep /\ UNCHANGED <<state, remote, session_vars, generator, admitted, losses>>

\* Mutant: the identity is cleared before the state is taken back.
M_Reconnect ==
  /\ Goto("reconnect", "unbind") /\ remote' = None
  /\ OthersKeep /\ UNCHANGED <<state, session_vars, generator, admitted, losses>>

Reconnect ==
  /\ Goto("reconnect", "unbind") /\ SetState("RECONNECTING")
  /\ OthersKeep /\ UNCHANGED <<remote, session_vars, generator, admitted, losses>>

Unbind ==
  /\ Goto("unbind", "wait") /\ remote' = None
  /\ OthersKeep /\ UNCHANGED <<state, session_vars, generator, admitted, losses>>

\* The back-off ends by its timeout or by the stop event.
BackOff ==
  /\ Goto("wait", "loop")
  /\ OthersKeep /\ UNCHANGED <<state, remote, session_vars, generator, admitted, losses>>
-----------------------------------------------------------------------------
(* The application thread.                                                 *)
AppKeeps == UNCHANGED <<remote, thread, session_vars, generator, wire, admitted, losses>>

\* send_event's state check; an event that fails it is dropped.
SendEvent(groups) ==
  /\ app = "idle" /\ sends < MaxSends
  /\ state = "ACTIVE"
  /\ app' = "sending" /\ held' = groups /\ sends' = sends + 1
  /\ AppKeeps /\ UNCHANGED <<state, stop, outbound_q>>

\* The rest of it: read the policy identity, map the groups, put the copy.  Without an
\* identity prepare_outbound_event applies no policy.
Mapped ==
  [id |-> sends, key |-> remote,
   groups |-> IF remote = None THEN {} ELSE map_outbound_groups(Registry, remote, held)]

Enqueue ==
  /\ app = "sending"
  /\ app' = "idle" /\ held' = {}
  /\ outbound_q' = IF remote # None /\ Mapped.groups = {} THEN outbound_q
                   ELSE Append(outbound_q, Mapped)
  /\ AppKeeps /\ UNCHANGED <<state, stop, sends>>

\* request_stop, after which FederationManager.stop sends nothing more.
RequestStop ==
  /\ app = "idle"
  /\ app' = "stopping" /\ stop' = TRUE
  /\ AppKeeps /\ UNCHANGED <<state, outbound_q, held, sends>>

Drain ==
  /\ app = "stopping"
  /\ app' = "stopped" /\ SetState("DRAINING")
  /\ AppKeeps /\ UNCHANGED <<stop, outbound_q, held, sends>>
-----------------------------------------------------------------------------
(* _outbound_generator of session g, run by gRPC's own thread until the      *)
(* generator returns or an item it yields finds its call over.              *)
Live(g) == open /\ g = session

GeneratorKeeps ==
  UNCHANGED <<state, stop, remote, thread, session_vars, app_vars, admitted, losses>>

GeneratorCheck(g) ==
  /\ generator[g] = "check"
  /\ \/ generator' = [generator EXCEPT ![g] = IF stop THEN "over" ELSE "get"]
     \/ ~Live(g) /\ generator' = [generator EXCEPT ![g] = "over"]
  /\ GeneratorKeeps /\ UNCHANGED <<outbound_q, wire>>

\* Mutant: an empty queue ends the generator.
M_GeneratorTimeout(g) ==
  /\ generator[g] = "get" /\ outbound_q = <<>>
  /\ generator' = [generator EXCEPT ![g] = "over"]
  /\ GeneratorKeeps /\ UNCHANGED <<outbound_q, wire>>

GeneratorTimeout(g) ==
  /\ generator[g] = "get" /\ outbound_q = <<>>
  /\ generator' = [generator EXCEPT ![g] = "check"]
  /\ GeneratorKeeps /\ UNCHANGED <<outbound_q, wire>>

\* Mutant: a copy whose call is over goes back to the queue.
M_GeneratorYield(g) ==
  /\ generator[g] = "get" /\ outbound_q # <<>>
  /\ IF Live(g)
     THEN /\ wire' = Append(wire, [session |-> g, copy |-> Head(outbound_q)])
          /\ generator' = [generator EXCEPT ![g] = "check"]
          /\ outbound_q' = Tail(outbound_q)
     ELSE /\ generator' = [generator EXCEPT ![g] = "over"]
          /\ outbound_q' = Append(Tail(outbound_q), Head(outbound_q))
          /\ UNCHANGED wire
  /\ GeneratorKeeps

GeneratorYield(g) ==
  /\ generator[g] = "get" /\ outbound_q # <<>>
  /\ outbound_q' = Tail(outbound_q)
  /\ IF Live(g)
     THEN /\ wire' = Append(wire, [session |-> g, copy |-> Head(outbound_q)])
          /\ generator' = [generator EXCEPT ![g] = "check"]
     ELSE /\ generator' = [generator EXCEPT ![g] = "over"]
          /\ UNCHANGED wire
  /\ GeneratorKeeps
-----------------------------------------------------------------------------
(* The network.                                                            *)
NetworkKeeps ==
  UNCHANGED <<state, stop, remote, outbound_q, thread, verified, session, generator,
              app_vars, wire, admitted>>

\* Before the event loop runs, the channel replaces a lost transport by itself, perhaps
\* with one to a host that presents another certificate.  Open calls end with it.
Reroute(f) ==
  /\ thread \in {"identify", "open", "recheck", "activate", "subscribe"}
  /\ losses < MaxLosses
  /\ losses' = losses + 1
  /\ transport' = f /\ open' = FALSE
  /\ NetworkKeeps

\* The peer ends ServerEventStream alone.  Nobody waits on that call, so the session goes on.
OutboundEnds ==
  /\ open /\ losses < MaxLosses
  /\ losses' = losses + 1
  /\ open' = FALSE
  /\ NetworkKeeps /\ UNCHANGED transport
-----------------------------------------------------------------------------
Kinds == {"undecodable", "contact", "delete", "cot"}

GrpcThread ==
  \/ CheckStop \/ Connect \/ Handshake \/ OpenStreams \/ Recheck \/ Activate \/ Subscribe
  \/ AfterSession \/ Reconnect \/ Unbind \/ BackOff

Generator(g) == GeneratorCheck(g) \/ GeneratorTimeout(g) \/ GeneratorYield(g)

Next ==
  \/ GrpcThread
  \/ Identify \/ Refuse \/ StreamEnds
  \/ \E f \in Fingerprint : BindIdentity(f) \/ Reroute(f)
  \/ \E k \in Kinds, g \in WireGroups : Receive(k, g)
  \/ \E g \in LocalGroups : SendEvent(g)
  \/ Enqueue \/ RequestStop \/ Drain
  \/ \E g \in DOMAIN generator : Generator(g)
  \/ OutboundEnds

Spec == Init /\ [][Next]_vars

\* Threads run, timeouts expire: the wait for the channel, the back-off and the
\* generators' get are bounded.  getIdentity and the event stream have no deadline, so
\* nothing is assumed of the peer's answer or of its next event.
Fairness ==
  /\ WF_vars(GrpcThread)
  /\ WF_vars(thread \in {"verify", "recheck"} /\ (Refuse \/ \E f \in Fingerprint : BindIdentity(f)))
  /\ WF_vars(Enqueue \/ Drain)
  /\ \A g \in 1..(MaxLosses + 1) : WF_vars(g \in DOMAIN generator /\ Generator(g))

FairSpec == Spec /\ Fairness
-----------------------------------------------------------------------------
(* Properties.                                                             *)

PeerState == {"DISABLED", "CONNECTING", "HANDSHAKING", "ACTIVE", "RECONNECTING", "DRAINING"}
ThreadAt  == {"loop", "connect", "handshake", "verify", "identify", "open", "recheck",
              "activate", "subscribe", "receive", "ended", "failed", "reconnect", "unbind",
              "wait", "exited"}
PolicyKey == {Registry.fingerprint[f] : f \in DOMAIN Registry.fingerprint}

\* The copies one event can become.
Copy ==
  [id : 1..MaxSends, key : PolicyKey \cup {None},
   groups : {map_outbound_groups(Registry, k, g) : k \in PolicyKey, g \in LocalGroups} \cup {{}}]

\* TYPE.
TypeOK ==
  /\ outbound_q \in Seq(Copy)
  /\ state \in PeerState /\ stop \in BOOLEAN
  /\ thread \in ThreadAt
  /\ remote \in PolicyKey \cup {None}
  /\ verified \in DOMAIN Registry.fingerprint \cup {None}
  /\ transport \in Fingerprint \cup {None}
  /\ session \in Nat /\ open \in BOOLEAN
  /\ generator \in Seq({"check", "get", "over"}) /\ Len(generator) = session
  /\ app \in {"idle", "sending", "stopping", "stopped"}
  /\ sends \in 0..MaxSends /\ losses \in 0..MaxLosses

\* ACTIVE MEANS BOUND.  Whenever another thread reads ACTIVE, the policy identity is set:
\* the handshake binds it before the state says ACTIVE, and the reconnect path takes the
\* state back before it clears the identity.
ActiveIsBound == state = "ACTIVE" => remote # None

\* VERIFIED PEER.  From the moment the session is about to become active, a copy can only
\* be written to a stream whose transport presents the certificate that was verified, and
\* the policy identity is the one that certificate is registered for: a transport replaced
\* between the two checks costs the session or its outbound stream, never the binding.
StreamsToVerifiedPeer ==
  thread \in {"activate", "subscribe", "receive"} =>
    /\ open => transport = verified
    /\ remote = resolve_peer_id_by_fingerprint(Registry, verified)

\* ADMITTED UNDER POLICY.  Every event handed to the bridge, in any session, is a contact or
\* carries exactly the local groups the policy of that session's certificate admits it to,
\* never none; deletes pass only when they are allowed.
AdmittedUnderPolicy ==
  \A a \in admitted :
    a.kind # "contact" =>
      /\ a.groups # {}
      /\ a.groups = map_inbound_groups(Registry, Registry.fingerprint[a.cert], a.wire)
      /\ a.kind = "delete" => AllowDelete

\* IN ORDER, ONCE.  Across reconnects, and whatever the generators of earlier sessions
\* take from the shared queue, no event is written twice and events are written in the
\* order send_event accepted them.
WrittenInOrderOnce ==
  \A i, j \in DOMAIN wire : i < j => wire[i].copy.id < wire[j].copy.id

\* DRAINS.  While a session's ServerEventStream stays open, a queued copy does not stay
\* queued: its generator never gives up on an empty queue.
Queued(id) == \E i \in DOMAIN outbound_q : outbound_q[i].id = id

DrainsWhileOpen ==
  \A id \in 1..MaxSends : Queued(id) ~> (~Queued(id) \/ ~open \/ stop)

\* RETRIES.  However a session ends, and however that races with request_stop, the thread
\* either tries again or, only after a stop was requested, exits.
RetriesOrExits ==
  thread \in {"ended", "failed"} ~> thread = "connect" \/ (thread = "exited" /\ stop)

\* STOP.  After request_stop the thread comes to rest: it has exited, or it waits for the
\* peer's answer to getIdentity or for its next event.
StopReleases == <>[](stop => thread \in {"exited", "identify", "receive"})

\* The README: group policy is fail-closed, events that match no mapping are dropped.  A
\* send that passes the state check before a reconnect and reads the identity after it
\* queues a copy no mapping was applied to.
EveryCopyMapped ==
  \A i \in DOMAIN outbound_q : outbound_q[i].groups # {}
=============================================================================
