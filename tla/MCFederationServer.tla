------------------------- MODULE MCFederationServer -------------------------
(* Peer p has two event streams, as when it reconnects, and pushes on a      *)
(* third call; q sends a single event and holds a group stream; x is a        *)
(* certificate nobody configured, under defaults that admit and share all.   *)
EXTENDS FederationServer

Defaults ==
  set_default_in_map(
    set_default_out_map(EmptyRegistry, parse_group_map(<< <<"g", "D">> >>, "out")),
    parse_group_map(<< <<"*", "g">> >>, "in"))

MCRegistry ==
  [add_peer_map_in(
     add_peer_map_out(Defaults, "p", parse_group_map(<< <<"g", "G">> >>, "out")),
     "p", parse_group_map(<< <<"G", "g">> >>, "in"))
     EXCEPT !.fingerprint = [f \in {"fp", "fq"} |-> IF f = "fp" THEN "p" ELSE "q"]]

MCCert ==
  [c \in {"e1", "e2", "ex", "push", "one", "hold"} |->
     CASE c \in {"e1", "e2", "push"} -> "fp"
       [] c \in {"one", "hold"}      -> "fq"
       [] c = "ex"                   -> "fx"]

MCLocalGroups == {{"g"}, {"h"}}
MCWireGroups  == {{}, {"G"}}
=============================================================================
