-------------------------- MODULE MCFederationMesh --------------------------
(* Four servers: a and b dial each other, b-c-a closes a triangle, d hangs    *)
(* off c.  Limits: none at a, 4 at b, 3 at d, 2 at c; b's section for c says 1. *)
EXTENDS FederationMesh, TLC

MCNode == {"a", "b", "c", "d"}
MCDial == {<<"a", "b">>, <<"b", "a">>, <<"b", "c">>, <<"c", "a">>, <<"c", "d">>}
MCMaxHops == [n \in MCNode |-> CASE n = "a" -> -1 [] n = "b" -> 4 [] n = "c" -> 2 [] n = "d" -> 3]
MCPeerMaxHops == [x \in MCDial |-> IF x = <<"b", "c">> THEN 1 ELSE -1]

\* Every server shares g with everyone as G; b also shares h, with c, under the name G.
\* c does not accept h's own name H from anyone.
Peer(reg, m, in, out) ==
  add_peer_map_out(add_peer_map_in(reg, m, parse_group_map(in, "in")),
                   m, parse_group_map(out, "out"))

Defaults(in) ==
  set_default_in_map(
    set_default_out_map(EmptyRegistry,
                        parse_group_map(<< <<"g", "G">>, <<"h", "H">> >>, "out")),
    parse_group_map(in, "in"))

Open   == Defaults(<< <<"G", "g">>, <<"*", "h">> >>)
Strict == Defaults(<< <<"G", "g">>, <<"H", "">> >>)

\* Written with :> and @@ so that TLC keeps the tables as values.
MCRegistry ==
  "a" :> Open @@ "d" :> Open @@
  "b" :> Peer(Open, "c", <<>>, << <<"h", "G">>, <<"g", "G">> >>) @@
  "c" :> Peer(Strict, "b", << <<"G", "g">> >>, <<>>)

MCLocalGroups == [n \in MCNode |-> {"g", "h"}]
=============================================================================
