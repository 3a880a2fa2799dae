--------------------------- MODULE GroupRegistry ---------------------------
(***************************************************************************)
(* The group policy of a federation server: groups.py's                     *)
(* FederateGroupRegistry as a record, its methods as operators on that      *)
(* record, and parse_group_map, which turns an operator's map into entries. *)
(*                                                                          *)
(* Strings are abstracted to what the lookups compare: a group name, the    *)
(* match key "*" and the empty string.  None is Python's None.  A Python    *)
(* dict is a function whose domain is the set of its keys; an absent        *)
(* default table (None in the code) behaves exactly as an empty one, since  *)
(* every use of it is a membership test, and is modelled as one.            *)
(***************************************************************************)
EXTENDS Naturals, Sequences

CONSTANTS
  None,       \* Python's None
  Malformed   \* the text of a map parse_group_map refuses

Star  == "*"
Empty == ""

EmptyTable == [k \in {} |-> None]

\* dict.get(k, d) and d[k] = v.
Get(f, k, d) == IF k \in DOMAIN f THEN f[k] ELSE d
Put(f, k, v) == [x \in DOMAIN f \cup {k} |-> IF x = k THEN v ELSE f[x]]
-----------------------------------------------------------------------------
(* The registry (FederateGroupRegistry.__init__).                          *)
EmptyRegistry ==
  [inbound     |-> EmptyTable,   \* peer_id -> remote group -> local group or None
   outbound    |-> EmptyTable,   \* peer_id -> local group -> remote group
   announced   |-> EmptyTable,   \* peer_id -> groups last announced on its stream
   fallback    |-> {},           \* peer_ids with fallback_allow
   defaultIn   |-> EmptyTable,
   defaultOut  |-> EmptyTable,
   fingerprint |-> EmptyTable]   \* certificate fingerprint -> peer_id

(* A dict built from entries in order: a later entry for a key overwrites an *)
(* earlier one.  entries is a function on the positions of a map's text that *)
(* produced an entry.                                                        *)
LastWith(entries, Key(_), k) ==
  CHOOSE i \in DOMAIN entries :
     /\ Key(entries[i]) = k
     /\ \A j \in DOMAIN entries : Key(entries[j]) = k => j <= i

Keys(entries, Key(_)) == {Key(entries[i]) : i \in DOMAIN entries}

Overwrite(table, entries, Key(_), Val(_)) ==
  [k \in DOMAIN table \cup Keys(entries, Key) |->
     IF k \in Keys(entries, Key) THEN Val(entries[LastWith(entries, Key, k)])
                                 ELSE table[k]]

remote_of(e) == e.remote_group
local_of(e)  == e.local_group

\* An entry without a local group is never registered in the outbound direction.
WithLocal(entries) ==
  [i \in {j \in DOMAIN entries : entries[j].local_group # None} |-> entries[i]]

\* add_peer_map for every entry of one map of peer pid.  A peer gets a table only
\* with its first entry (setdefault).
add_peer_map_in(reg, pid, entries) ==
  IF DOMAIN entries = {} THEN reg
  ELSE [reg EXCEPT !.inbound =
          Put(@, pid, Overwrite(Get(@, pid, EmptyTable), entries, remote_of, local_of))]

add_peer_map_out(reg, pid, entries) ==
  IF DOMAIN WithLocal(entries) = {} THEN reg
  ELSE [reg EXCEPT !.outbound =
          Put(@, pid, Overwrite(Get(@, pid, EmptyTable), WithLocal(entries), local_of, remote_of))]

set_default_in_map(reg, entries) ==
  [reg EXCEPT !.defaultIn = Overwrite(EmptyTable, entries, remote_of, local_of)]

set_default_out_map(reg, entries) ==
  [reg EXCEPT !.defaultOut =
     Overwrite(EmptyTable, WithLocal(entries), local_of, remote_of)]

resolve_peer_id_by_fingerprint(reg, fp) == Get(reg.fingerprint, fp, None)

\* Mutant: an announced group is shared back under its own name.
M_update_from_federate_groups(reg, pid, groups) ==
  [reg EXCEPT !.announced = Put(@, pid, groups),
              !.outbound = Put(@, pid, [g \in groups |-> g])]

update_from_federate_groups(reg, pid, groups) ==
  [reg EXCEPT !.announced = Put(@, pid, groups)]
-----------------------------------------------------------------------------
(* Lookups.                                                                *)

\* The table a lookup consults: the peer's own when it has one, however small,
\* and the [federation] default only when it has none.
InboundTable(reg, pid)  == Get(reg.inbound, pid, reg.defaultIn)
OutboundTable(reg, pid) == Get(reg.outbound, pid, reg.defaultOut)

\* Mutant: a group the peer's own table does not name goes on to the default table.
M_map_inbound_default(reg, pid, rg) ==
  LET own == Get(reg.inbound, pid, EmptyTable)
  IN CASE rg \in DOMAIN own -> own[rg]
       [] rg \notin DOMAIN own /\ rg \in DOMAIN reg.defaultIn -> reg.defaultIn[rg]
       [] rg \notin DOMAIN own \cup DOMAIN reg.defaultIn ->
            IF Star \in DOMAIN own THEN own[Star] ELSE Get(reg.defaultIn, Star, None)

\* Mutant: the wildcard is looked up before the group.
M_map_inbound_wildcard(reg, pid, rg) ==
  LET table == InboundTable(reg, pid)
  IN IF Star \in DOMAIN table THEN table[Star]
     ELSE IF rg \in DOMAIN table THEN table[rg]
     ELSE IF pid \in reg.fallback THEN rg ELSE None

map_inbound(reg, pid, rg) ==
  LET table == InboundTable(reg, pid)
  IN CASE rg \in DOMAIN table -> table[rg]
       [] rg \notin DOMAIN table /\ Star \in DOMAIN table -> table[Star]
       [] rg \notin DOMAIN table /\ Star \notin DOMAIN table ->
            IF pid \in reg.fallback THEN rg ELSE None

\* {} stands for None, "drop the event": the code returns no other empty set.
\* A group-less event is looked up under "*", and the passthrough of "*" itself
\* does not count as a group.
map_inbound_groups(reg, pid, rgs) ==
  IF rgs = {}
  THEN {map_inbound(reg, pid, Star)} \ {None, Star}
  ELSE {map_inbound(reg, pid, rg) : rg \in rgs} \ {None}

map_outbound(reg, pid, lg) == Get(OutboundTable(reg, pid), lg, None)

map_outbound_groups(reg, pid, lgs) ==
  {map_outbound(reg, pid, lg) : lg \in lgs} \ {None}
-----------------------------------------------------------------------------
(* parse_group_map: the text of a map is a sequence of tokens <<lhs, rhs>>,  *)
(* or Malformed when a token has no ":" (ValueError: every caller then      *)
(* carries on with no entries).  The left side is a remote group inbound    *)
(* and a local group outbound; an outbound "*" token is skipped.            *)
in_entry(t)  == [remote_group |-> t[1],
                 local_group  |-> IF t[2] \in {Empty, Star} THEN None ELSE t[2]]
out_entry(t) == [remote_group |-> t[2],
                 local_group  |-> IF t[1] = Empty THEN None ELSE t[1]]

parse_group_map(raw, direction) ==
  IF raw = Malformed THEN EmptyTable
  ELSE IF direction = "in"
       THEN [i \in DOMAIN raw |-> in_entry(raw[i])]
       ELSE [i \in {j \in DOMAIN raw : raw[j][1] # Star} |-> out_entry(raw[i])]
=============================================================================
