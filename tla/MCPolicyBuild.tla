--------------------------- MODULE MCPolicyBuild ---------------------------
(* Two peer sections, every way they may share an address, a server id or a *)
(* fingerprint, with the shapes of map text the parser tells apart.         *)
EXTENDS PolicyBuild

InMaps == {<< <<"*", "">> >>,                    \* the built-in accept_as
           << <<"g1", "l1">>, <<"g1", "l2">> >>, \* a later token wins
           << <<"*", "l2">>, <<"g1", "">> >>,    \* block one, admit the rest
           Malformed}

OutMaps == {<< <<"*", "*">> >>,                  \* the built-in share_as
            \* a later token wins, a blank left side names no group
            << <<"g1", "r1">>, <<"g2", "r2">>, <<"g1", "r2">>, <<"", "r1">> >>,
            << <<"g1", "">> >>}                  \* blank right side

MCPeers ==
  [enabled : {TRUE}, provisional : {"a1", "a2"}, server_id : {Empty, "s1"},
   fingerprints : {{"f1"}, {"f1", "f2"}, {"f3"}}, fallback_allow : BOOLEAN,
   group_map_in : InMaps, group_map_out : OutMaps]

First == {p \in MCPeers : p.provisional = "a1" /\ p.fingerprints # {"f3"}}
Second == {p \in MCPeers : p.fingerprints # {"f1", "f2"} /\ ~p.fallback_allow}
          \cup {[p EXCEPT !.enabled = FALSE] :
                  p \in {q \in MCPeers : q.fallback_allow /\ q.fingerprints = {"f3"}}}

MCConfigs ==
  [default_in  : {<<>>, << <<"*", "dl">> >>},
   default_out : {<< <<"g1", "dr">>, <<"g2", "dr">> >>},
   peers       : First \X Second]

MCGroups == {"g1", "g2", Star, Empty}
MCAnnouncements == {{"g2"}}
=============================================================================
