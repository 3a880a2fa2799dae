-------------------------- MODULE MCFederateClient --------------------------
(* A host whose certificate is configured for peer p, another whose          *)
(* certificate is configured for peer q, and one nobody configured.          *)
EXTENDS FederateClient

Section(reg, pid, in, out) ==
  add_peer_map_out(add_peer_map_in(reg, pid, parse_group_map(in, "in")),
                   pid, parse_group_map(out, "out"))

MCRegistry ==
  [Section(Section(EmptyRegistry,
             "p", << <<"G", "g">> >>, << <<"g", "G">> >>),
             "q", << <<"*", "h">> >>, << <<"h", "H">>, <<"g", "H">> >>)
     EXCEPT !.fingerprint = [f \in {"fp", "fq"} |-> IF f = "fp" THEN "p" ELSE "q"]]

MCLocalGroups == {{"g"}, {"h"}}
MCWireGroups  == {{}, {"G"}}
=============================================================================
