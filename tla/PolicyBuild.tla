---------------------------- MODULE PolicyBuild ----------------------------
(***************************************************************************)
(* FederationManager._build_group_registry over every configuration in      *)
(* Configs, one peer section per step, and the one operation that touches   *)
(* the registry afterwards: a peer's group announcements, which both        *)
(* federate-groups streams hand to update_from_federate_groups.             *)
(***************************************************************************)
EXTENDS GroupRegistry

CONSTANTS
  Configs,     \* the configurations: [default_in, default_out, peers]
  Groups,        \* group names a wire event or a local client may carry
  Announcements  \* lists of groups a peer may announce

\* A map's text is refused as a whole, or is a sequence of tokens of two names.
IsText(raw) ==
  \/ raw = Malformed
  \/ /\ Len(raw) \in Nat /\ DOMAIN raw = 1..Len(raw)
     /\ \A i \in DOMAIN raw : None \notin {raw[i][1], raw[i][2]}

ASSUME NamesAssumption == None \notin {Star, Empty}

ASSUME ConfigsAssumption ==
  \A c \in Configs :
    /\ IsText(c.default_in) /\ IsText(c.default_out)
    /\ Len(c.peers) \in Nat /\ DOMAIN c.peers = 1..Len(c.peers)
    /\ \A i \in DOMAIN c.peers :
         /\ c.peers[i].enabled \in BOOLEAN /\ c.peers[i].fallback_allow \in BOOLEAN
         /\ IsText(c.peers[i].group_map_in) /\ IsText(c.peers[i].group_map_out)

VARIABLES
  config,      \* the configuration being read; never changes
  built,       \* number of peer sections registered so far
  reg          \* the FederateGroupRegistry

vars == <<config, built, reg>>

\* A peer section: enabled, provisional ("address:port"), server_id (Empty when
\* not declared), fingerprints (a set), fallback_allow, group_map_in, group_map_out.
policy_keys(p) == {p.provisional} \cup ({p.server_id} \ {Empty})

\* Mutant: the declared server_id even when there is none.
M_bound_key(p) == p.server_id

\* The key its fingerprints resolve to.
bound_key(p) == IF p.server_id # Empty THEN p.server_id ELSE p.provisional

register_fingerprints(r, p) ==
  [r EXCEPT !.fingerprint =
     [f \in DOMAIN @ \cup p.fingerprints |->
        IF f \in p.fingerprints THEN bound_key(p) ELSE r.fingerprint[f]]]

allow_fallback(r, p) ==
  IF p.fallback_allow THEN [r EXCEPT !.fallback = @ \cup policy_keys(p)] ELSE r

\* The same entries go under the provisional key and under the declared server_id.
both_keys(r, p, Add(_, _)) ==
  IF p.server_id = Empty THEN Add(r, p.provisional)
  ELSE Add(Add(r, p.provisional), p.server_id)

register_peer(r, p) ==
  LET AddIn(x, k)  == add_peer_map_in(x, k, parse_group_map(p.group_map_in, "in"))
      AddOut(x, k) == add_peer_map_out(x, k, parse_group_map(p.group_map_out, "out"))
  IN IF ~p.enabled THEN r
     ELSE both_keys(both_keys(allow_fallback(register_fingerprints(r, p), p), p, AddIn),
                    p, AddOut)

register_defaults(c) ==
  set_default_out_map(
    set_default_in_map(EmptyRegistry, parse_group_map(c.default_in, "in")),
    parse_group_map(c.default_out, "out"))
-----------------------------------------------------------------------------
Init ==
  /\ config \in Configs
  /\ built = 0
  /\ reg = register_defaults(config)

\* One iteration of the loop over config.peers.
RegisterPeer ==
  /\ built < Len(config.peers)
  /\ built' = built + 1
  /\ reg' = register_peer(reg, config.peers[built'])
  /\ UNCHANGED config

Built == built = Len(config.peers)

\* A federate-groups stream delivers the groups its peer announces.  The stream is
\* bound to a policy key through its certificate's fingerprint.
Announce(fp, groups) ==
  /\ Built
  /\ fp \in DOMAIN reg.fingerprint
  /\ reg' = update_from_federate_groups(reg, resolve_peer_id_by_fingerprint(reg, fp), groups)
  /\ UNCHANGED <<config, built>>

Next ==
  \/ RegisterPeer
  \/ \E fp \in DOMAIN reg.fingerprint, groups \in Announcements : Announce(fp, groups)

Spec == Init /\ [][Next]_vars
-----------------------------------------------------------------------------
(* Properties.                                                             *)

Peers == {config.peers[i] : i \in 1..built}
Registered == {p \in Peers : p.enabled}
PolicyKeys == UNION {policy_keys(p) : p \in Registered}
UnknownKey == "unknown"     \* the key of no section

\* The tokens of a map's text; none when the whole text is refused.
Tokens(raw) == IF raw = Malformed THEN {} ELSE {raw[i] : i \in DOMAIN raw}

\* TYPE.  The tables are finite maps from keys and groups to groups, the empty
\* string (a remote group left blank) or None (an inbound block entry).
TypeOK ==
  LET Sections == UNION {Tokens(p.group_map_in) \cup Tokens(p.group_map_out) : p \in Peers}
      Texts == Sections \cup Tokens(config.default_in) \cup Tokens(config.default_out)
      Known == Groups \cup {Star, Empty, None} \cup (UNION {{t[1], t[2]} : t \in Texts})
      IsTable(f) == \A k \in DOMAIN f : {k, f[k]} \subseteq Known
  IN /\ config \in Configs
     /\ built \in 0..Len(config.peers)
     /\ \A k \in DOMAIN reg.inbound : IsTable(reg.inbound[k])
     /\ \A k \in DOMAIN reg.outbound : IsTable(reg.outbound[k])
     /\ IsTable(reg.defaultIn) /\ IsTable(reg.defaultOut)
     /\ reg.fallback \subseteq PolicyKeys
     /\ \A f \in DOMAIN reg.fingerprint : reg.fingerprint[f] \in PolicyKeys
     /\ \A k \in DOMAIN reg.announced : reg.announced[k] \in Announcements

\* FAIL CLOSED.  Whatever the sections share (addresses, server ids, fingerprints)
\* and whatever peers announce, an inbound group is admitted under a key only by a
\* token an operator wrote: for a section of that key, for the default when the key
\* has no table, or by that key's opt-in passthrough.  Outbound, the same without a
\* passthrough and without wildcards.
Names(raw, l, r, wild) ==
  \E t \in Tokens(raw) : t[2] = r /\ (t[1] = l \/ (wild /\ t[1] = Star))

InboundGranted(k, rg, l) ==
  \/ \E p \in Registered : k \in policy_keys(p) /\ Names(p.group_map_in, rg, l, TRUE)
  \/ k \notin DOMAIN reg.inbound /\ Names(config.default_in, rg, l, TRUE)
  \/ l = rg /\ \E p \in Registered : k \in policy_keys(p) /\ p.fallback_allow

OutboundGranted(k, lg, r) ==
  \/ \E p \in Registered : k \in policy_keys(p) /\ Names(p.group_map_out, lg, r, FALSE)
  \/ k \notin DOMAIN reg.outbound /\ Names(config.default_out, lg, r, FALSE)

FailClosed ==
  \A k \in PolicyKeys \cup {UnknownKey}, g \in Groups \cup {Star} :
     /\ LET l == map_inbound(reg, k, g)
        IN l # None => InboundGranted(k, g, l)
     /\ LET r == map_outbound(reg, k, g)
        IN r # None => OutboundGranted(k, g, r)

\* OWN SECTION.  A certificate bound to a section whose keys and fingerprint no other
\* section uses gets exactly the policy that section's text says: the last token for
\* the group, else the last "*" token, else the passthrough; a section whose text
\* yields no entry gets the default's.  Group-less events follow "*" tokens only, and
\* outbound a token whose left side is "*" or blank says nothing.
LastToken(raw, l) ==
  LET hits == {i \in DOMAIN raw : raw[i][1] = l}
  IN IF hits = {} THEN None ELSE raw[CHOOSE i \in hits : \A j \in hits : j <= i][2]

Blocks(right) == right \in {Empty, Star}

\* The inbound verdict of a text on one group, None when no token speaks about it.
Verdict(raw, g) ==
  IF LastToken(raw, g) # None THEN LastToken(raw, g) ELSE LastToken(raw, Star)

ReadIn(p, g) ==
  LET own  == Tokens(p.group_map_in) # {}
      text == IF own THEN p.group_map_in ELSE config.default_in
      v    == IF Tokens(text) = {} THEN None ELSE Verdict(text, g)
  IN IF v = None
     THEN IF p.fallback_allow THEN g ELSE None
     ELSE IF Blocks(v) THEN None ELSE v

ReadOut(p, g) ==
  LET Speaks(raw) == {t \in Tokens(raw) : t[1] \notin {Star, Empty}} # {}
      text == IF Speaks(p.group_map_out) THEN p.group_map_out ELSE config.default_out
  IN IF Tokens(text) = {} \/ g \in {Star, Empty} THEN None ELSE LastToken(text, g)

Unshared(p) ==
  \A i, j \in 1..built :
     /\ config.peers[i] = p /\ config.peers[j].enabled
     /\ (policy_keys(config.peers[j]) \cap policy_keys(p) # {}
         \/ config.peers[j].fingerprints \cap p.fingerprints # {})
     => i = j

FollowsOwnSection ==
  \A p \in Registered : Unshared(p) =>
    \A f \in p.fingerprints :
      LET k == resolve_peer_id_by_fingerprint(reg, f)
      IN /\ \A rgs \in SUBSET Groups :
              map_inbound_groups(reg, k, rgs) =
                IF rgs = {} THEN {ReadIn(p, Star)} \ {None, Star}
                            ELSE {ReadIn(p, g) : g \in rgs} \ {None}
         /\ \A lgs \in SUBSET Groups :
              map_outbound_groups(reg, k, lgs) = {ReadOut(p, g) : g \in lgs} \ {None}

\* NOBODY ELSE'S POLICY.  A lookup changes only in the step that registers a section of
\* that very key: never by another peer's section, never by what a peer announces.
PolicyFromOwnSectionOnly ==
  [][\A k \in PolicyKeys \cup PolicyKeys' \cup {UnknownKey}, g \in Groups \cup {Star} :
       \/ map_inbound(reg', k, g) # map_inbound(reg, k, g)
       \/ map_outbound(reg', k, g) # map_outbound(reg, k, g)
       => /\ built' = built + 1
          /\ k \in policy_keys(config.peers[built'])]_vars
=============================================================================
