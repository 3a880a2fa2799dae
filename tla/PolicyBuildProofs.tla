------------------------- MODULE PolicyBuildProofs -------------------------
(***************************************************************************)
(* Theorems about PolicyBuild, for every configuration, however many        *)
(* sections it has and whatever they share: the registry's tables hold      *)
(* nothing an operator did not write, a section that shares nothing gets    *)
(* exactly the policy of its text, and no other section and no announcement *)
(* changes a lookup.                                                        *)
(*                                                                          *)
(* The invariant says where each entry of the registry comes from           *)
(* (Provenance) and that the tables of a section which shares nothing are   *)
(* those of its text alone (Owned).                                         *)
(***************************************************************************)
EXTENDS PolicyBuild, WellFoundedInduction, TLAPS

(* The tables a text makes.                                                 *)

InEntries(raw) == parse_group_map(raw, "in")
OutEntries(raw) == WithLocal(parse_group_map(raw, "out"))

OverwriteIn(table, entries) == Overwrite(table, entries, remote_of, local_of)
OverwriteOut(table, entries) == Overwrite(table, entries, local_of, remote_of)

\* The groups a text has tokens for, and those it shares.
LeftSides(raw) == {t[1] : t \in Tokens(raw)}
SharedSides(raw) == LeftSides(raw) \ {Star, Empty}

\* What an inbound token makes of its right side.
Admitted(right) == IF Blocks(right) THEN None ELSE right

\* t2 is table t overwritten with the tokens of raw.
OverIn(t2, t, raw) ==
  /\ DOMAIN t2 = DOMAIN t \cup LeftSides(raw)
  /\ \A g \in LeftSides(raw) : t2[g] = Admitted(LastToken(raw, g))
  /\ \A g \in DOMAIN t \ LeftSides(raw) : t2[g] = t[g]

OverOut(t2, t, raw) ==
  /\ DOMAIN t2 = DOMAIN t \cup SharedSides(raw)
  /\ \A g \in SharedSides(raw) : t2[g] = LastToken(raw, g)
  /\ \A g \in DOMAIN t \ SharedSides(raw) : t2[g] = t[g]

\* i is the last position at which a token of raw has l on its left.
LastAt(raw, l, i) ==
  /\ i \in DOMAIN raw /\ raw[i][1] = l
  /\ \A j \in DOMAIN raw : raw[j][1] = l => j <= i

LEMMA LastExists ==
  ASSUME NEW n \in Nat, NEW S, S \subseteq 1..n, S # {}
  PROVE  \E i \in S : \A j \in S : j <= i
<1> DEFINE T == {n - i : i \in S}
<1>1. T \subseteq Nat /\ T # {}
  <2>1. \A i \in S : n - i \in Nat
    OBVIOUS
  <2> QED
    BY <2>1
<1> HIDE DEF T
<1>2. PICK m \in T : \A k \in T : ~(<<k, m>> \in OpToRel(<, Nat))
  BY <1>1, NatLessThanWellFounded, WFMin, Zenon
<1>3. PICK i \in S : m = n - i
  BY <1>2 DEF T
<1>4. ASSUME NEW j \in S PROVE j <= i
  <2>1. n - j \in T /\ n - j \in Nat /\ m \in Nat
    BY <1>1 DEF T
  <2>2. ~(n - j < m)
    BY <1>2, <2>1 DEF OpToRel
  <2> QED
    BY <1>3, <2>1, <2>2
<1> QED
  BY <1>4

\* A text has a last token with l on its left, or none, and LastToken gives what is on its
\* right.
LEMMA LastTokenIs ==
  ASSUME NEW raw, NEW l, NEW i, LastAt(raw, l, i), DOMAIN raw \subseteq Nat
  PROVE  LastToken(raw, l) = raw[i][2]
<1> DEFINE hits == {j \in DOMAIN raw : raw[j][1] = l}
           last == CHOOSE j \in hits : \A k \in hits : k <= j
<1>1. i \in hits /\ \A k \in hits : k <= i
  BY DEF LastAt
<1>2. last \in hits /\ \A k \in hits : k <= last
  BY <1>1
<1>3. last = i
  BY <1>1, <1>2
<1> QED
  BY <1>1, <1>3 DEF LastToken

LEMMA NoLastToken ==
  ASSUME NEW raw, NEW l, \A i \in DOMAIN raw : raw[i][1] # l
  PROVE  LastToken(raw, l) = None
BY DEF LastToken

LEMMA LastAtExists ==
  ASSUME NEW raw, NEW n \in Nat, DOMAIN raw \subseteq 1..n, NEW l,
         NEW i \in DOMAIN raw, raw[i][1] = l
  PROVE  \E j : LastAt(raw, l, j)
<1> DEFINE S == {j \in DOMAIN raw : raw[j][1] = l}
<1>1. S \subseteq 1..n /\ S # {}
  OBVIOUS
<1>2. \E j \in S : \A k \in S : k <= j
  BY <1>1, LastExists
<1> QED
  BY <1>2 DEF LastAt

\* Both are about one of the tokens.
LEMMA LastTokenOf ==
  ASSUME NEW raw, IsText(raw), NEW g \in LeftSides(raw)
  PROVE  /\ raw # Malformed
         /\ \E i : LastAt(raw, g, i) /\ LastToken(raw, g) = raw[i][2]
         /\ \E t \in Tokens(raw) : t[1] = g /\ t[2] = LastToken(raw, g)
         /\ LastToken(raw, g) # None
<1>1. raw # Malformed /\ Len(raw) \in Nat /\ DOMAIN raw = 1..Len(raw)
  BY DEF LeftSides, Tokens, IsText
<1>2. PICK i \in DOMAIN raw : raw[i][1] = g
  BY <1>1 DEF LeftSides, Tokens
<1>3. PICK j : LastAt(raw, g, j)
  BY <1>1, <1>2, LastAtExists
<1>4. LastToken(raw, g) = raw[j][2]
  BY <1>1, <1>3, LastTokenIs
<1>5. raw[j] \in Tokens(raw) /\ raw[j][1] = g /\ raw[j][2] # None
  BY <1>1, <1>3 DEF LastAt, Tokens, IsText
<1> QED
  BY <1>1, <1>3, <1>4, <1>5

LEMMA NoTokenOf ==
  ASSUME NEW raw, NEW g, g \notin LeftSides(raw), raw # Malformed
  PROVE  LastToken(raw, g) = None
<1>1. \A i \in DOMAIN raw : raw[i][1] # g
  BY DEF LeftSides, Tokens
<1> QED
  BY <1>1, NoLastToken

LEMMA InEntriesAre ==
  ASSUME NEW raw, raw # Malformed
  PROVE  /\ DOMAIN InEntries(raw) = DOMAIN raw
         /\ \A i \in DOMAIN raw : /\ InEntries(raw)[i].remote_group = raw[i][1]
                                  /\ InEntries(raw)[i].local_group = Admitted(raw[i][2])
BY DEF InEntries, parse_group_map, in_entry, Admitted, Blocks

LEMMA OutEntriesAre ==
  ASSUME NEW raw, raw # Malformed, IsText(raw)
  PROVE  /\ DOMAIN OutEntries(raw) = {i \in DOMAIN raw : raw[i][1] \notin {Star, Empty}}
         /\ \A i \in DOMAIN OutEntries(raw) : /\ OutEntries(raw)[i].local_group = raw[i][1]
                                              /\ OutEntries(raw)[i].remote_group = raw[i][2]
<1> DEFINE es == parse_group_map(raw, "out")
<1>1. /\ DOMAIN es = {i \in DOMAIN raw : raw[i][1] # Star}
      /\ \A i \in DOMAIN es : es[i] = out_entry(raw[i])
  BY DEF parse_group_map
<1> HIDE DEF es
<1>2. \A i \in DOMAIN es :
        /\ es[i].local_group = IF raw[i][1] = Empty THEN None ELSE raw[i][1]
        /\ es[i].remote_group = raw[i][2]
  <2>1. \A t : /\ out_entry(t).local_group = IF t[1] = Empty THEN None ELSE t[1]
               /\ out_entry(t).remote_group = t[2]
    BY DEF out_entry
  <2> QED
    BY <1>1, <2>1
<1>3. \A i \in DOMAIN raw : raw[i][1] # None
  BY DEF IsText
<1>4. OutEntries(raw) = WithLocal(es)
  BY DEF OutEntries, es
<1> DEFINE named == {j \in DOMAIN es : es[j].local_group # None}
<1>5. named = {i \in DOMAIN raw : raw[i][1] \notin {Star, Empty}}
  <2>1. \A i \in DOMAIN es : es[i].local_group # None <=> raw[i][1] # Empty
    BY <1>1, <1>2, <1>3
  <2> QED
    BY <1>1, <2>1
<1>6. \A i \in named : es[i].local_group = raw[i][1] /\ es[i].remote_group = raw[i][2]
  <2> SUFFICES ASSUME NEW i \in named
               PROVE  es[i].local_group = raw[i][1] /\ es[i].remote_group = raw[i][2]
    OBVIOUS
  <2>1. i \in DOMAIN es /\ raw[i][1] # Empty
    BY <1>5
  <2> QED
    BY <1>2, <2>1
<1>7. OutEntries(raw) = [i \in named |-> es[i]]
  BY <1>4, Zenon DEF WithLocal
<1> HIDE DEF named
<1>8. /\ DOMAIN OutEntries(raw) = named
      /\ \A i \in named : OutEntries(raw)[i] = es[i]
  BY <1>7
<1> QED
  BY <1>5, <1>6, <1>8

LEMMA OverwritesIn ==
  ASSUME NEW raw, IsText(raw), NEW t
  PROVE  OverIn(OverwriteIn(t, InEntries(raw)), t, raw)
<1> DEFINE es == InEntries(raw)
           ks == {es[i].remote_group : i \in DOMAIN es}
           t2 == OverwriteIn(t, es)
           Last(k) == CHOOSE i \in DOMAIN es :
                        /\ es[i].remote_group = k
                        /\ \A j \in DOMAIN es : es[j].remote_group = k => j <= i
<1>1. t2 = [k \in DOMAIN t \cup ks |-> IF k \in ks THEN es[Last(k)].local_group ELSE t[k]]
  BY DEF OverwriteIn, Overwrite, Keys, LastWith, remote_of, local_of
<1>2. ks = LeftSides(raw)
  <2>1. CASE raw = Malformed
    BY <2>1 DEF InEntries, parse_group_map, EmptyTable, LeftSides, Tokens
  <2>2. CASE raw # Malformed
    BY <2>2, InEntriesAre DEF LeftSides, Tokens
  <2> QED
    BY <2>1, <2>2
<1>3. ASSUME NEW g \in LeftSides(raw) PROVE es[Last(g)].local_group = Admitted(LastToken(raw, g))
  <2>1. raw # Malformed
    BY LastTokenOf
  <2>2. PICK i : LastAt(raw, g, i) /\ LastToken(raw, g) = raw[i][2]
    BY LastTokenOf
  <2>3. /\ i \in DOMAIN es /\ es[i].remote_group = g
        /\ \A j \in DOMAIN es : es[j].remote_group = g => j <= i
    BY <2>1, <2>2, InEntriesAre DEF LastAt
  <2>4. DOMAIN es \subseteq Nat
    BY <2>1, InEntriesAre DEF IsText
  <2>5. es[i].local_group = Admitted(raw[i][2])
    BY <2>1, <2>2, InEntriesAre DEF LastAt
  <2> HIDE DEF es
  <2>6. /\ Last(g) \in DOMAIN es /\ es[Last(g)].remote_group = g
        /\ \A j \in DOMAIN es : es[j].remote_group = g => j <= Last(g)
    BY <2>3
  <2>7. Last(g) = i
    <3> DEFINE m == Last(g)
    <3>1. m \in Nat /\ i \in Nat /\ m <= i /\ i <= m
      BY <2>3, <2>4, <2>6
    <3> HIDE DEF m
    <3> QED
      BY <3>1 DEF m
  <2> QED
    BY <2>2, <2>5, <2>7
<1> HIDE DEF es, ks, Last, t2
<1>4. DOMAIN t2 = DOMAIN t \cup LeftSides(raw)
  BY <1>1, <1>2
<1>5. ASSUME NEW g \in LeftSides(raw) PROVE t2[g] = Admitted(LastToken(raw, g))
  BY <1>1, <1>2, <1>3
<1>6. ASSUME NEW g \in DOMAIN t \ LeftSides(raw) PROVE t2[g] = t[g]
  BY <1>1, <1>2
<1> QED
  BY <1>4, <1>5, <1>6 DEF OverIn, t2, es

LEMMA OverwritesOut ==
  ASSUME NEW raw, IsText(raw), NEW t
  PROVE  OverOut(OverwriteOut(t, OutEntries(raw)), t, raw)
<1> DEFINE es == OutEntries(raw)
           ks == {es[i].local_group : i \in DOMAIN es}
           t2 == OverwriteOut(t, es)
           Last(k) == CHOOSE i \in DOMAIN es :
                        /\ es[i].local_group = k
                        /\ \A j \in DOMAIN es : es[j].local_group = k => j <= i
<1>1. t2 = [k \in DOMAIN t \cup ks |-> IF k \in ks THEN es[Last(k)].remote_group ELSE t[k]]
  BY DEF OverwriteOut, Overwrite, Keys, LastWith, remote_of, local_of
<1>2. ks = SharedSides(raw)
  <2>1. CASE raw = Malformed
    BY <2>1 DEF OutEntries, WithLocal, parse_group_map, EmptyTable, SharedSides, LeftSides,
                Tokens
  <2>2. CASE raw # Malformed
    <3>1. LeftSides(raw) = {raw[i][1] : i \in DOMAIN raw}
      BY <2>2 DEF LeftSides, Tokens
    <3>2. /\ DOMAIN es = {i \in DOMAIN raw : raw[i][1] \notin {Star, Empty}}
          /\ \A i \in DOMAIN es : es[i].local_group = raw[i][1]
      BY <2>2, OutEntriesAre
    <3> HIDE DEF es
    <3>3. ks = {raw[i][1] : i \in DOMAIN es}
      BY <3>2
    <3> HIDE DEF ks
    <3> QED
      BY <3>1, <3>2, <3>3 DEF SharedSides
  <2> QED
    BY <2>1, <2>2
<1>3. ASSUME NEW g \in SharedSides(raw) PROVE es[Last(g)].remote_group = LastToken(raw, g)
  <2>0. g \in LeftSides(raw) /\ g \notin {Star, Empty}
    BY DEF SharedSides
  <2>1. raw # Malformed
    BY <2>0, LastTokenOf
  <2>2. PICK i : LastAt(raw, g, i) /\ LastToken(raw, g) = raw[i][2]
    BY <2>0, LastTokenOf
  <2>3. /\ i \in DOMAIN es /\ es[i].local_group = g
        /\ \A j \in DOMAIN es : es[j].local_group = g => j <= i
    BY <2>0, <2>1, <2>2, OutEntriesAre DEF LastAt
  <2>4. DOMAIN es \subseteq Nat
    BY <2>1, OutEntriesAre DEF IsText
  <2>5. es[i].remote_group = raw[i][2]
    BY <2>1, <2>3, OutEntriesAre
  <2> HIDE DEF es
  <2>6. /\ Last(g) \in DOMAIN es /\ es[Last(g)].local_group = g
        /\ \A j \in DOMAIN es : es[j].local_group = g => j <= Last(g)
    BY <2>3
  <2>7. Last(g) = i
    <3> DEFINE m == Last(g)
    <3>1. m \in Nat /\ i \in Nat /\ m <= i /\ i <= m
      BY <2>3, <2>4, <2>6
    <3> HIDE DEF m
    <3> QED
      BY <3>1 DEF m
  <2> QED
    BY <2>2, <2>5, <2>7
<1> HIDE DEF es, ks, Last, t2
<1>4. DOMAIN t2 = DOMAIN t \cup SharedSides(raw)
  BY <1>1, <1>2
<1>5. ASSUME NEW g \in SharedSides(raw) PROVE t2[g] = LastToken(raw, g)
  BY <1>1, <1>2, <1>3
<1>6. ASSUME NEW g \in DOMAIN t \ SharedSides(raw) PROVE t2[g] = t[g]
  BY <1>1, <1>2
<1> QED
  BY <1>4, <1>5, <1>6 DEF OverOut, t2, es

\* Overwriting twice with one text is overwriting once.
LEMMA OverInTwice ==
  ASSUME NEW t, NEW t1, NEW t2, NEW raw, OverIn(t1, t, raw), OverIn(t2, t1, raw)
  PROVE  OverIn(t2, t, raw)
BY DEF OverIn

LEMMA OverOutTwice ==
  ASSUME NEW t, NEW t1, NEW t2, NEW raw, OverOut(t1, t, raw), OverOut(t2, t1, raw)
  PROVE  OverOut(t2, t, raw)
BY DEF OverOut
-----------------------------------------------------------------------------
(* What registering a section does to the registry.                         *)

IsRegistry(r) ==
  DOMAIN r = {"inbound", "outbound", "announced", "fallback", "defaultIn", "defaultOut",
              "fingerprint"}

\* The tables m2 are the tables m, with those of the keys K overwritten with raw.
TablesIn(m2, m, K, raw) ==
  /\ DOMAIN m2 = DOMAIN m \cup IF LeftSides(raw) = {} THEN {} ELSE K
  /\ \A k \in DOMAIN m : (k \notin K \/ LeftSides(raw) = {}) => m2[k] = m[k]
  /\ LeftSides(raw) # {} => \A k \in K : OverIn(m2[k], Get(m, k, EmptyTable), raw)

TablesOut(m2, m, K, raw) ==
  /\ DOMAIN m2 = DOMAIN m \cup IF SharedSides(raw) = {} THEN {} ELSE K
  /\ \A k \in DOMAIN m : (k \notin K \/ SharedSides(raw) = {}) => m2[k] = m[k]
  /\ SharedSides(raw) # {} => \A k \in K : OverOut(m2[k], Get(m, k, EmptyTable), raw)

LEMMA TwiceIn ==
  ASSUME NEW m, NEW m1, NEW m2, NEW raw, NEW a, NEW b,
         TablesIn(m1, m, {a}, raw), TablesIn(m2, m1, {b}, raw)
  PROVE  TablesIn(m2, m, {a, b}, raw)
<1>1. CASE LeftSides(raw) = {}
  BY <1>1 DEF TablesIn
<1>2. CASE LeftSides(raw) # {}
  <2>1. /\ DOMAIN m1 = DOMAIN m \cup {a} /\ DOMAIN m2 = DOMAIN m \cup {a, b}
        /\ \A k \in DOMAIN m : k \notin {a} => m1[k] = m[k]
        /\ \A k \in DOMAIN m1 : k \notin {b} => m2[k] = m1[k]
        /\ OverIn(m1[a], Get(m, a, EmptyTable), raw)
        /\ OverIn(m2[b], Get(m1, b, EmptyTable), raw)
    BY <1>2 DEF TablesIn
  <2>2. CASE a = b
    <3>1. Get(m1, b, EmptyTable) = m1[a]
      BY <2>1, <2>2 DEF Get
    <3>2. OverIn(m2[b], Get(m, b, EmptyTable), raw)
      BY <2>1, <2>2, <3>1, OverInTwice
    <3> QED
      BY <1>2, <2>1, <2>2, <3>2 DEF TablesIn
  <2>3. CASE a # b
    <3>1. Get(m1, b, EmptyTable) = Get(m, b, EmptyTable) /\ m2[a] = m1[a]
      BY <2>1, <2>3 DEF Get
    <3> QED
      BY <1>2, <2>1, <2>3, <3>1 DEF TablesIn
  <2> QED
    BY <2>2, <2>3
<1> QED
  BY <1>1, <1>2

LEMMA TwiceOut ==
  ASSUME NEW m, NEW m1, NEW m2, NEW raw, NEW a, NEW b,
         TablesOut(m1, m, {a}, raw), TablesOut(m2, m1, {b}, raw)
  PROVE  TablesOut(m2, m, {a, b}, raw)
<1>1. CASE SharedSides(raw) = {}
  BY <1>1 DEF TablesOut
<1>2. CASE SharedSides(raw) # {}
  <2>1. /\ DOMAIN m1 = DOMAIN m \cup {a} /\ DOMAIN m2 = DOMAIN m \cup {a, b}
        /\ \A k \in DOMAIN m : k \notin {a} => m1[k] = m[k]
        /\ \A k \in DOMAIN m1 : k \notin {b} => m2[k] = m1[k]
        /\ OverOut(m1[a], Get(m, a, EmptyTable), raw)
        /\ OverOut(m2[b], Get(m1, b, EmptyTable), raw)
    BY <1>2 DEF TablesOut
  <2>2. CASE a = b
    <3>1. Get(m1, b, EmptyTable) = m1[a]
      BY <2>1, <2>2 DEF Get
    <3>2. OverOut(m2[b], Get(m, b, EmptyTable), raw)
      BY <2>1, <2>2, <3>1, OverOutTwice
    <3> QED
      BY <1>2, <2>1, <2>2, <3>2 DEF TablesOut
  <2>3. CASE a # b
    <3>1. Get(m1, b, EmptyTable) = Get(m, b, EmptyTable) /\ m2[a] = m1[a]
      BY <2>1, <2>3 DEF Get
    <3> QED
      BY <1>2, <2>1, <2>3, <3>1 DEF TablesOut
  <2> QED
    BY <2>2, <2>3
<1> QED
  BY <1>1, <1>2

\* r2 is r but for its tables in one direction.
OnlyInbound(r2, r) ==
  /\ IsRegistry(r2)
  /\ r2.outbound = r.outbound /\ r2.announced = r.announced /\ r2.fallback = r.fallback
  /\ r2.defaultIn = r.defaultIn /\ r2.defaultOut = r.defaultOut
  /\ r2.fingerprint = r.fingerprint

OnlyOutbound(r2, r) ==
  /\ IsRegistry(r2)
  /\ r2.inbound = r.inbound /\ r2.announced = r.announced /\ r2.fallback = r.fallback
  /\ r2.defaultIn = r.defaultIn /\ r2.defaultOut = r.defaultOut
  /\ r2.fingerprint = r.fingerprint

AddIn(r, k, raw) == add_peer_map_in(r, k, InEntries(raw))
AddOut(r, k, raw) == add_peer_map_out(r, k, parse_group_map(raw, "out"))

LEMMA AddsIn ==
  ASSUME NEW r, IsRegistry(r), NEW k, NEW raw, IsText(raw)
  PROVE  /\ OnlyInbound(AddIn(r, k, raw), r)
         /\ TablesIn(AddIn(r, k, raw).inbound, r.inbound, {k}, raw)
<1> DEFINE es == InEntries(raw)
<1>1. DOMAIN es = {} <=> LeftSides(raw) = {}
  <2>1. CASE raw = Malformed
    BY <2>1 DEF InEntries, parse_group_map, EmptyTable, LeftSides, Tokens
  <2>2. CASE raw # Malformed
    <3>1. LeftSides(raw) = {raw[i][1] : i \in DOMAIN raw}
      BY <2>2 DEF LeftSides, Tokens
    <3>2. DOMAIN es = DOMAIN raw
      BY <2>2, InEntriesAre
    <3> HIDE DEF es
    <3> QED
      BY <3>1, <3>2
  <2> QED
    BY <2>1, <2>2
<1> HIDE DEF es
<1>2. CASE DOMAIN es = {}
  <2>1. AddIn(r, k, raw) = r
    BY <1>2 DEF AddIn, add_peer_map_in, es
  <2> QED
    BY <1>1, <1>2, <2>1 DEF OnlyInbound, TablesIn
<1>3. CASE DOMAIN es # {}
  <2> DEFINE t == OverwriteIn(Get(r.inbound, k, EmptyTable), es)
             m2 == Put(r.inbound, k, t)
  <2>1. AddIn(r, k, raw) = [r EXCEPT !.inbound = m2]
    BY <1>3 DEF AddIn, add_peer_map_in, OverwriteIn, es
  <2>2. OverIn(t, Get(r.inbound, k, EmptyTable), raw)
    BY OverwritesIn DEF es
  <2> HIDE DEF t
  <2>3. /\ DOMAIN m2 = DOMAIN r.inbound \cup {k} /\ m2[k] = t
        /\ \A x \in DOMAIN r.inbound : x \notin {k} => m2[x] = r.inbound[x]
    BY DEF Put
  <2> HIDE DEF m2
  <2>4. OnlyInbound(AddIn(r, k, raw), r) /\ AddIn(r, k, raw).inbound = m2
    BY <2>1 DEF OnlyInbound, IsRegistry
  <2> QED
    BY <1>1, <1>3, <2>2, <2>3, <2>4 DEF TablesIn
<1> QED
  BY <1>2, <1>3

LEMMA AddsOut ==
  ASSUME NEW r, IsRegistry(r), NEW k, NEW raw, IsText(raw)
  PROVE  /\ OnlyOutbound(AddOut(r, k, raw), r)
         /\ TablesOut(AddOut(r, k, raw).outbound, r.outbound, {k}, raw)
<1> DEFINE es == OutEntries(raw)
<1>1. DOMAIN es = {} <=> SharedSides(raw) = {}
  <2>1. CASE raw = Malformed
    BY <2>1 DEF OutEntries, WithLocal, parse_group_map, EmptyTable, SharedSides, LeftSides,
                Tokens
  <2>2. CASE raw # Malformed
    <3>1. LeftSides(raw) = {raw[i][1] : i \in DOMAIN raw}
      BY <2>2 DEF LeftSides, Tokens
    <3>2. DOMAIN es = {i \in DOMAIN raw : raw[i][1] \notin {Star, Empty}}
      BY <2>2, OutEntriesAre
    <3> HIDE DEF es
    <3> QED
      BY <3>1, <3>2 DEF SharedSides
  <2> QED
    BY <2>1, <2>2
<1> HIDE DEF es
<1>2. CASE DOMAIN es = {}
  <2>1. AddOut(r, k, raw) = r
    BY <1>2 DEF AddOut, add_peer_map_out, es, OutEntries
  <2> QED
    BY <1>1, <1>2, <2>1 DEF OnlyOutbound, TablesOut
<1>3. CASE DOMAIN es # {}
  <2> DEFINE t == OverwriteOut(Get(r.outbound, k, EmptyTable), es)
             m2 == Put(r.outbound, k, t)
  <2>1. AddOut(r, k, raw) = [r EXCEPT !.outbound = m2]
    BY <1>3 DEF AddOut, add_peer_map_out, OverwriteOut, es, OutEntries
  <2>2. OverOut(t, Get(r.outbound, k, EmptyTable), raw)
    BY OverwritesOut DEF es
  <2> HIDE DEF t
  <2>3. /\ DOMAIN m2 = DOMAIN r.outbound \cup {k} /\ m2[k] = t
        /\ \A x \in DOMAIN r.outbound : x \notin {k} => m2[x] = r.outbound[x]
    BY DEF Put
  <2> HIDE DEF m2
  <2>4. OnlyOutbound(AddOut(r, k, raw), r) /\ AddOut(r, k, raw).outbound = m2
    BY <2>1 DEF OnlyOutbound, IsRegistry
  <2> QED
    BY <1>1, <1>3, <2>2, <2>3, <2>4 DEF TablesOut
<1> QED
  BY <1>2, <1>3

\* The entries of one section, in one direction, under both its keys.
BothIn(r, p) ==
  IF p.server_id = Empty THEN AddIn(r, p.provisional, p.group_map_in)
  ELSE AddIn(AddIn(r, p.provisional, p.group_map_in), p.server_id, p.group_map_in)

BothOut(r, p) ==
  IF p.server_id = Empty THEN AddOut(r, p.provisional, p.group_map_out)
  ELSE AddOut(AddOut(r, p.provisional, p.group_map_out), p.server_id, p.group_map_out)

LEMMA RegisterIs ==
  ASSUME NEW r, NEW p, p.enabled
  PROVE  register_peer(r, p) =
           BothOut(BothIn(allow_fallback(register_fingerprints(r, p), p), p), p)
BY DEF register_peer, both_keys, BothIn, BothOut, AddIn, AddOut, InEntries

LEMMA BothInIs ==
  ASSUME NEW r, IsRegistry(r), NEW p, IsText(p.group_map_in)
  PROVE  /\ OnlyInbound(BothIn(r, p), r)
         /\ TablesIn(BothIn(r, p).inbound, r.inbound, policy_keys(p), p.group_map_in)
<1> DEFINE raw == p.group_map_in
           a == p.provisional
           b == p.server_id
           r1 == AddIn(r, a, raw)
           r2 == AddIn(r1, b, raw)
<1> HIDE DEF raw, a, b
<1>1. OnlyInbound(r1, r) /\ TablesIn(r1.inbound, r.inbound, {a}, raw)
  BY AddsIn DEF raw
<1>2. OnlyInbound(r2, r1) /\ TablesIn(r2.inbound, r1.inbound, {b}, raw)
  BY <1>1, AddsIn DEF raw, OnlyInbound
<1> HIDE DEF r1, r2
<1>3. OnlyInbound(r2, r) /\ TablesIn(r2.inbound, r.inbound, {a, b}, raw)
  BY <1>1, <1>2, TwiceIn DEF OnlyInbound
<1>4. CASE b = Empty
  <2>1. BothIn(r, p) = r1 /\ policy_keys(p) = {a}
    BY <1>4 DEF BothIn, policy_keys, r1, a, b, raw
  <2> QED
    BY <1>1, <2>1 DEF raw
<1>5. CASE b # Empty
  <2>1. BothIn(r, p) = r2 /\ policy_keys(p) = {a, b}
    BY <1>5 DEF BothIn, policy_keys, r1, r2, a, b, raw
  <2> QED
    BY <1>3, <2>1 DEF raw
<1> QED
  BY <1>4, <1>5

LEMMA BothOutIs ==
  ASSUME NEW r, IsRegistry(r), NEW p, IsText(p.group_map_out)
  PROVE  /\ OnlyOutbound(BothOut(r, p), r)
         /\ TablesOut(BothOut(r, p).outbound, r.outbound, policy_keys(p), p.group_map_out)
<1> DEFINE raw == p.group_map_out
           a == p.provisional
           b == p.server_id
           r1 == AddOut(r, a, raw)
           r2 == AddOut(r1, b, raw)
<1> HIDE DEF raw, a, b
<1>1. OnlyOutbound(r1, r) /\ TablesOut(r1.outbound, r.outbound, {a}, raw)
  BY AddsOut DEF raw
<1>2. OnlyOutbound(r2, r1) /\ TablesOut(r2.outbound, r1.outbound, {b}, raw)
  BY <1>1, AddsOut DEF raw, OnlyOutbound
<1> HIDE DEF r1, r2
<1>3. OnlyOutbound(r2, r) /\ TablesOut(r2.outbound, r.outbound, {a, b}, raw)
  BY <1>1, <1>2, TwiceOut DEF OnlyOutbound
<1>4. CASE b = Empty
  <2>1. BothOut(r, p) = r1 /\ policy_keys(p) = {a}
    BY <1>4 DEF BothOut, policy_keys, r1, a, b, raw
  <2> QED
    BY <1>1, <2>1 DEF raw
<1>5. CASE b # Empty
  <2>1. BothOut(r, p) = r2 /\ policy_keys(p) = {a, b}
    BY <1>5 DEF BothOut, policy_keys, r1, r2, a, b, raw
  <2> QED
    BY <1>3, <2>1 DEF raw
<1> QED
  BY <1>4, <1>5

\* Registering one section, in all.
LEMMA Registers ==
  ASSUME NEW r, IsRegistry(r), NEW p, p.enabled,
         IsText(p.group_map_in), IsText(p.group_map_out), NEW r2, r2 = register_peer(r, p)
  PROVE  /\ IsRegistry(r2)
         /\ r2.announced = r.announced
         /\ r2.defaultIn = r.defaultIn /\ r2.defaultOut = r.defaultOut
         /\ r2.fallback = r.fallback \cup IF p.fallback_allow THEN policy_keys(p) ELSE {}
         /\ DOMAIN r2.fingerprint = DOMAIN r.fingerprint \cup p.fingerprints
         /\ \A f \in p.fingerprints : r2.fingerprint[f] = bound_key(p)
         /\ \A f \in DOMAIN r.fingerprint \ p.fingerprints :
              r2.fingerprint[f] = r.fingerprint[f]
         /\ TablesIn(r2.inbound, r.inbound, policy_keys(p), p.group_map_in)
         /\ TablesOut(r2.outbound, r.outbound, policy_keys(p), p.group_map_out)
<1> DEFINE a == register_fingerprints(r, p)
           b == allow_fallback(a, p)
           c == BothIn(b, p)
           d == BothOut(c, p)
<1>1. r2 = d
  BY RegisterIs
<1>2. /\ IsRegistry(a) /\ a.inbound = r.inbound /\ a.outbound = r.outbound
      /\ a.announced = r.announced /\ a.fallback = r.fallback
      /\ a.defaultIn = r.defaultIn /\ a.defaultOut = r.defaultOut
      /\ a.fingerprint = [f \in DOMAIN r.fingerprint \cup p.fingerprints |->
                            IF f \in p.fingerprints THEN bound_key(p) ELSE r.fingerprint[f]]
  BY DEF register_fingerprints, IsRegistry
<1> HIDE DEF a
<1>3. /\ IsRegistry(b) /\ b.inbound = r.inbound /\ b.outbound = r.outbound
      /\ b.announced = r.announced /\ b.fingerprint = a.fingerprint
      /\ b.defaultIn = r.defaultIn /\ b.defaultOut = r.defaultOut
      /\ b.fallback = r.fallback \cup IF p.fallback_allow THEN policy_keys(p) ELSE {}
  BY <1>2 DEF allow_fallback, IsRegistry
<1> HIDE DEF b
<1>4. OnlyInbound(c, b) /\ TablesIn(c.inbound, b.inbound, policy_keys(p), p.group_map_in)
  BY <1>3, BothInIs
<1> HIDE DEF c
<1>5. OnlyOutbound(d, c) /\ TablesOut(d.outbound, c.outbound, policy_keys(p), p.group_map_out)
  BY <1>4, BothOutIs DEF OnlyInbound
<1> HIDE DEF d
<1>6. /\ IsRegistry(r2) /\ r2.announced = r.announced
      /\ r2.defaultIn = r.defaultIn /\ r2.defaultOut = r.defaultOut
      /\ r2.fallback = b.fallback /\ r2.fingerprint = a.fingerprint
      /\ r2.inbound = c.inbound /\ c.outbound = r.outbound
  BY <1>1, <1>3, <1>4, <1>5 DEF OnlyInbound, OnlyOutbound
<1>7. /\ TablesIn(r2.inbound, r.inbound, policy_keys(p), p.group_map_in)
      /\ TablesOut(r2.outbound, r.outbound, policy_keys(p), p.group_map_out)
  BY <1>1, <1>3, <1>4, <1>5, <1>6
<1> QED
  BY <1>2, <1>3, <1>6, <1>7
-----------------------------------------------------------------------------
(* The invariant.                                                           *)

\* One of the sections has the key k and a token which makes of group g value v.
FromIn(sections, k, g, v) ==
  \E p \in sections :
    k \in policy_keys(p) /\ \E t \in Tokens(p.group_map_in) : t[1] = g /\ v = Admitted(t[2])

FromOut(sections, k, g, v) ==
  \E p \in sections :
    k \in policy_keys(p) /\ \E t \in Tokens(p.group_map_out) : t[1] = g /\ v = t[2]

\* Everything in the registry is there because of a section that is registered.
Provenance ==
  /\ \A k \in DOMAIN reg.inbound :
       /\ k \in PolicyKeys
       /\ \A g \in DOMAIN reg.inbound[k] : FromIn(Registered, k, g, reg.inbound[k][g])
  /\ \A k \in DOMAIN reg.outbound :
       /\ k \in PolicyKeys
       /\ \A g \in DOMAIN reg.outbound[k] : FromOut(Registered, k, g, reg.outbound[k][g])
  /\ \A k \in reg.fallback : \E p \in Registered : k \in policy_keys(p) /\ p.fallback_allow
  /\ \A f \in DOMAIN reg.fingerprint : \E p \in Registered :
       f \in p.fingerprints /\ reg.fingerprint[f] = bound_key(p)

Defaults ==
  /\ OverIn(reg.defaultIn, EmptyTable, config.default_in)
  /\ OverOut(reg.defaultOut, EmptyTable, config.default_out)

\* The table of k is the one of p's text alone.
OwnIn(p, k) ==
  IF LeftSides(p.group_map_in) = {} THEN k \notin DOMAIN reg.inbound
  ELSE k \in DOMAIN reg.inbound /\ OverIn(reg.inbound[k], EmptyTable, p.group_map_in)

OwnOut(p, k) ==
  IF SharedSides(p.group_map_out) = {} THEN k \notin DOMAIN reg.outbound
  ELSE k \in DOMAIN reg.outbound /\ OverOut(reg.outbound[k], EmptyTable, p.group_map_out)

\* A section that shares nothing has its keys and fingerprints to itself.
Owned ==
  \A p \in Registered : Unshared(p) =>
    /\ \A f \in p.fingerprints : f \in DOMAIN reg.fingerprint /\ reg.fingerprint[f] = bound_key(p)
    /\ \A k \in policy_keys(p) :
         OwnIn(p, k) /\ OwnOut(p, k) /\ (k \in reg.fallback <=> p.fallback_allow)

Reading ==
  /\ config \in Configs
  /\ built \in 0..Len(config.peers)
  /\ IsRegistry(reg)
  /\ \A k \in DOMAIN reg.announced : reg.announced[k] \in Announcements

IInv == Reading /\ Defaults /\ Provenance /\ Owned
-----------------------------------------------------------------------------
(* One section more.                                                        *)

\* What the configuration guarantees of a section.
LEMMA SectionIs ==
  ASSUME config \in Configs, NEW i \in DOMAIN config.peers, NEW p, p = config.peers[i]
  PROVE  /\ p.enabled \in BOOLEAN /\ p.fallback_allow \in BOOLEAN
         /\ IsText(p.group_map_in) /\ IsText(p.group_map_out)
BY ConfigsAssumption

LEMMA PeersLength ==
  ASSUME Reading
  PROVE  /\ built \in Nat /\ Len(config.peers) \in Nat /\ built <= Len(config.peers)
         /\ DOMAIN config.peers = 1..Len(config.peers)
BY ConfigsAssumption DEF Reading

\* The section at hand joins the registered ones.
LEMMA RegisteredGrows ==
  ASSUME Reading, RegisterPeer, NEW p, p = config.peers[built + 1]
  PROVE  /\ built + 1 \in DOMAIN config.peers /\ built' = built + 1 /\ config' = config
         /\ Registered' = Registered \cup IF p.enabled THEN {p} ELSE {}
         /\ Registered \subseteq Registered' /\ PolicyKeys \subseteq PolicyKeys'
<1>1. built + 1 \in DOMAIN config.peers /\ built' = built + 1 /\ config' = config
  BY PeersLength DEF RegisterPeer
<1>2. 1..(built + 1) = 1..built \cup {built + 1}
  BY PeersLength
<1>3. Peers' = Peers \cup {p}
  BY <1>1, <1>2 DEF Peers
<1>4. Registered' = Registered \cup IF p.enabled THEN {p} ELSE {}
  BY <1>3 DEF Registered
<1> QED
  BY <1>1, <1>4 DEF PolicyKeys

\* A section that shares nothing now has shared nothing before, least of all with the
\* section at hand.
LEMMA UnsharedEarlier ==
  ASSUME Reading, RegisterPeer, NEW p, p = config.peers[built + 1],
         NEW q \in Registered, Unshared(q)'
  PROVE  /\ Unshared(q)
         /\ p.enabled => /\ policy_keys(p) \cap policy_keys(q) = {}
                         /\ p.fingerprints \cap q.fingerprints = {}
<1>1. built \in Nat /\ built' = built + 1 /\ config' = config
  BY PeersLength, RegisteredGrows
<1>2. PICK i \in 1..built : q = config.peers[i]
  BY DEF Registered, Peers
<1>3. \A x, y \in 1..(built + 1) :
         /\ config.peers[x] = q /\ config.peers[y].enabled
         /\ (policy_keys(config.peers[y]) \cap policy_keys(q) # {}
             \/ config.peers[y].fingerprints \cap q.fingerprints # {})
         => x = y
  BY <1>1, Zenon DEF Unshared
<1>4. Unshared(q)
  BY <1>1, <1>3 DEF Unshared
<1>5. i \in 1..(built + 1) /\ built + 1 \in 1..(built + 1) /\ i # built + 1
  BY <1>1
<1>6. p.enabled => /\ policy_keys(p) \cap policy_keys(q) = {}
                   /\ p.fingerprints \cap q.fingerprints = {}
  BY <1>2, <1>3, <1>5, Zenon
<1> QED
  BY <1>4, <1>6

LEMMA UnsharedNew ==
  ASSUME Reading, RegisterPeer, NEW p, p = config.peers[built + 1], Unshared(p)',
         NEW q \in Registered
  PROVE  /\ policy_keys(p) \cap policy_keys(q) = {}
         /\ p.fingerprints \cap q.fingerprints = {}
<1>1. built \in Nat /\ built' = built + 1 /\ config' = config
  BY PeersLength, RegisteredGrows
<1>2. PICK i \in 1..built : q = config.peers[i] /\ q.enabled
  BY DEF Registered, Peers
<1>3. \A x, y \in 1..(built + 1) :
         /\ config.peers[x] = p /\ config.peers[y].enabled
         /\ (policy_keys(config.peers[y]) \cap policy_keys(p) # {}
             \/ config.peers[y].fingerprints \cap p.fingerprints # {})
         => x = y
  BY <1>1, Zenon DEF Unshared
<1>4. i \in 1..(built + 1) /\ built + 1 \in 1..(built + 1) /\ i # built + 1
  BY <1>1
<1>5. policy_keys(q) \cap policy_keys(p) = {} /\ q.fingerprints \cap p.fingerprints = {}
  BY <1>2, <1>3, <1>4, Zenon
<1> QED
  BY <1>5

\* A token of a text makes each of its entries.
LEMMA OverInFrom ==
  ASSUME NEW raw, IsText(raw), NEW t, NEW t2, OverIn(t2, t, raw), NEW g \in DOMAIN t2
  PROVE  \/ g \in DOMAIN t /\ t2[g] = t[g]
         \/ \E e \in Tokens(raw) : e[1] = g /\ t2[g] = Admitted(e[2])
<1>1. CASE g \in LeftSides(raw)
  BY <1>1, LastTokenOf DEF OverIn
<1>2. CASE g \notin LeftSides(raw)
  BY <1>2 DEF OverIn
<1> QED
  BY <1>1, <1>2

LEMMA OverOutFrom ==
  ASSUME NEW raw, IsText(raw), NEW t, NEW t2, OverOut(t2, t, raw), NEW g \in DOMAIN t2
  PROVE  \/ g \in DOMAIN t /\ t2[g] = t[g]
         \/ \E e \in Tokens(raw) : e[1] = g /\ t2[g] = e[2]
<1>1. CASE g \in SharedSides(raw)
  <2>1. g \in LeftSides(raw)
    BY <1>1 DEF SharedSides
  <2> QED
    BY <1>1, <2>1, LastTokenOf DEF OverOut
<1>2. CASE g \notin SharedSides(raw)
  BY <1>2 DEF OverOut
<1> QED
  BY <1>1, <1>2

LEMMA ProvenanceStep ==
  ASSUME IInv, RegisterPeer, NEW p, p = config.peers[built + 1], p.enabled
  PROVE  Provenance'
<1> DEFINE K == policy_keys(p)
<1>1. Reading /\ Provenance
  BY DEF IInv
<1>2. /\ p \in Registered' /\ Registered \subseteq Registered' /\ PolicyKeys \subseteq PolicyKeys'
      /\ built + 1 \in DOMAIN config.peers
  BY <1>1, RegisteredGrows
<1>3. IsText(p.group_map_in) /\ IsText(p.group_map_out)
  BY <1>1, <1>2, SectionIs DEF Reading
<1>4. reg' = register_peer(reg, p)
  BY <1>1, RegisteredGrows DEF RegisterPeer
<1>5. /\ reg'.fallback = reg.fallback \cup IF p.fallback_allow THEN K ELSE {}
      /\ DOMAIN reg'.fingerprint = DOMAIN reg.fingerprint \cup p.fingerprints
      /\ \A f \in p.fingerprints : reg'.fingerprint[f] = bound_key(p)
      /\ \A f \in DOMAIN reg.fingerprint \ p.fingerprints :
           reg'.fingerprint[f] = reg.fingerprint[f]
      /\ TablesIn(reg'.inbound, reg.inbound, K, p.group_map_in)
      /\ TablesOut(reg'.outbound, reg.outbound, K, p.group_map_out)
  BY <1>1, <1>3, <1>4, Registers DEF Reading
<1>6. K \subseteq PolicyKeys'
  BY <1>2 DEF PolicyKeys
<1> HIDE DEF K
<1>7. ASSUME NEW k \in DOMAIN reg'.inbound
      PROVE  /\ k \in PolicyKeys'
             /\ \A g \in DOMAIN reg'.inbound[k] : FromIn(Registered', k, g, reg'.inbound[k][g])
  <2>1. CASE k \in DOMAIN reg.inbound /\ reg'.inbound[k] = reg.inbound[k]
    BY <1>1, <1>2, <2>1 DEF Provenance, FromIn
  <2>2. CASE k \in K /\ LeftSides(p.group_map_in) # {}
    <3>1. OverIn(reg'.inbound[k], Get(reg.inbound, k, EmptyTable), p.group_map_in)
      BY <1>5, <2>2 DEF TablesIn
    <3>2. ASSUME NEW g \in DOMAIN reg'.inbound[k]
          PROVE  FromIn(Registered', k, g, reg'.inbound[k][g])
      <4> DEFINE t == Get(reg.inbound, k, EmptyTable)
                 t2 == reg'.inbound[k]
      <4>1. \/ g \in DOMAIN t /\ t2[g] = t[g]
            \/ \E e \in Tokens(p.group_map_in) : e[1] = g /\ t2[g] = Admitted(e[2])
        BY <1>3, <3>1, <3>2, OverInFrom
      <4>2. CASE g \in DOMAIN t /\ t2[g] = t[g]
        <5>1. k \in DOMAIN reg.inbound /\ t = reg.inbound[k]
          BY <4>2 DEF Get, EmptyTable
        <5> QED
          BY <1>1, <1>2, <4>2, <5>1 DEF Provenance, FromIn
      <4>3. CASE \E e \in Tokens(p.group_map_in) : e[1] = g /\ t2[g] = Admitted(e[2])
        BY <1>2, <2>2, <4>3, Zenon DEF FromIn, K
      <4> QED
        BY <4>1, <4>2, <4>3
    <3> QED
      BY <1>6, <2>2, <3>2
  <2> QED
    BY <1>5, <2>1, <2>2 DEF TablesIn
<1>8. ASSUME NEW k \in DOMAIN reg'.outbound
      PROVE  /\ k \in PolicyKeys'
             /\ \A g \in DOMAIN reg'.outbound[k] : FromOut(Registered', k, g, reg'.outbound[k][g])
  <2>1. CASE k \in DOMAIN reg.outbound /\ reg'.outbound[k] = reg.outbound[k]
    BY <1>1, <1>2, <2>1 DEF Provenance, FromOut
  <2>2. CASE k \in K /\ SharedSides(p.group_map_out) # {}
    <3>1. OverOut(reg'.outbound[k], Get(reg.outbound, k, EmptyTable), p.group_map_out)
      BY <1>5, <2>2 DEF TablesOut
    <3>2. ASSUME NEW g \in DOMAIN reg'.outbound[k]
          PROVE  FromOut(Registered', k, g, reg'.outbound[k][g])
      <4> DEFINE t == Get(reg.outbound, k, EmptyTable)
                 t2 == reg'.outbound[k]
      <4>1. \/ g \in DOMAIN t /\ t2[g] = t[g]
            \/ \E e \in Tokens(p.group_map_out) : e[1] = g /\ t2[g] = e[2]
        BY <1>3, <3>1, <3>2, OverOutFrom
      <4>2. CASE g \in DOMAIN t /\ t2[g] = t[g]
        <5>1. k \in DOMAIN reg.outbound /\ t = reg.outbound[k]
          BY <4>2 DEF Get, EmptyTable
        <5> QED
          BY <1>1, <1>2, <4>2, <5>1 DEF Provenance, FromOut
      <4>3. CASE \E e \in Tokens(p.group_map_out) : e[1] = g /\ t2[g] = e[2]
        BY <1>2, <2>2, <4>3, Zenon DEF FromOut, K
      <4> QED
        BY <4>1, <4>2, <4>3
    <3> QED
      BY <1>6, <2>2, <3>2
  <2> QED
    BY <1>5, <2>1, <2>2 DEF TablesOut
<1>9. \A k \in reg'.fallback : \E q \in Registered' : k \in policy_keys(q) /\ q.fallback_allow
  BY <1>1, <1>2, <1>5 DEF Provenance, K
<1>10. \A f \in DOMAIN reg'.fingerprint : \E q \in Registered' :
          f \in q.fingerprints /\ reg'.fingerprint[f] = bound_key(q)
  BY <1>1, <1>2, <1>5 DEF Provenance
<1> QED
  BY <1>7, <1>8, <1>9, <1>10 DEF Provenance

LEMMA OwnedStep ==
  ASSUME IInv, RegisterPeer, NEW p, p = config.peers[built + 1], p.enabled
  PROVE  Owned'
<1> DEFINE K == policy_keys(p)
<1>1. Reading /\ Provenance /\ Owned
  BY DEF IInv
<1>2. Registered' = Registered \cup {p} /\ built + 1 \in DOMAIN config.peers
  BY <1>1, RegisteredGrows
<1>3. /\ IsText(p.group_map_in) /\ IsText(p.group_map_out)
      /\ p.fallback_allow \in BOOLEAN
  BY <1>1, <1>2, SectionIs DEF Reading
<1>4. reg' = register_peer(reg, p)
  BY <1>1, RegisteredGrows DEF RegisterPeer
<1>5. /\ reg'.fallback = reg.fallback \cup IF p.fallback_allow THEN K ELSE {}
      /\ DOMAIN reg'.fingerprint = DOMAIN reg.fingerprint \cup p.fingerprints
      /\ \A f \in p.fingerprints : reg'.fingerprint[f] = bound_key(p)
      /\ \A f \in DOMAIN reg.fingerprint \ p.fingerprints :
           reg'.fingerprint[f] = reg.fingerprint[f]
      /\ TablesIn(reg'.inbound, reg.inbound, K, p.group_map_in)
      /\ TablesOut(reg'.outbound, reg.outbound, K, p.group_map_out)
  BY <1>1, <1>3, <1>4, Registers DEF Reading
<1> HIDE DEF K
<1> SUFFICES ASSUME NEW q \in Registered', Unshared(q)'
             PROVE  /\ \A f \in q.fingerprints :
                         f \in DOMAIN reg'.fingerprint /\ reg'.fingerprint[f] = bound_key(q)
                    /\ \A k \in policy_keys(q) :
                         /\ OwnIn(q, k)' /\ OwnOut(q, k)'
                         /\ k \in reg'.fallback <=> q.fallback_allow
  BY Zenon DEF Owned
<1>6. CASE q \in Registered
  <2>1. Unshared(q) /\ K \cap policy_keys(q) = {} /\ p.fingerprints \cap q.fingerprints = {}
    BY <1>1, <1>6, UnsharedEarlier DEF K
  <2>2. /\ \A f \in q.fingerprints : /\ f \in DOMAIN reg.fingerprint
                                      /\ reg.fingerprint[f] = bound_key(q)
        /\ \A k \in policy_keys(q) :
             OwnIn(q, k) /\ OwnOut(q, k) /\ (k \in reg.fallback <=> q.fallback_allow)
    BY <1>1, <1>6, <2>1, Zenon DEF Owned
  <2>3. ASSUME NEW k \in policy_keys(q)
        PROVE  OwnIn(q, k)' /\ OwnOut(q, k)' /\ (k \in reg'.fallback <=> q.fallback_allow)
    <3>1. k \notin K
      BY <2>1
    <3>2. /\ k \in DOMAIN reg'.inbound <=> k \in DOMAIN reg.inbound
          /\ k \in DOMAIN reg.inbound => reg'.inbound[k] = reg.inbound[k]
      BY <1>5, <3>1 DEF TablesIn
    <3>3. /\ k \in DOMAIN reg'.outbound <=> k \in DOMAIN reg.outbound
          /\ k \in DOMAIN reg.outbound => reg'.outbound[k] = reg.outbound[k]
      BY <1>5, <3>1 DEF TablesOut
    <3>4. k \in reg'.fallback <=> k \in reg.fallback
      BY <1>5, <3>1
    <3>5. OwnIn(q, k)'
      BY <2>2, <3>2, Zenon DEF OwnIn
    <3>6. OwnOut(q, k)'
      BY <2>2, <3>3, Zenon DEF OwnOut
    <3> QED
      BY <2>2, <3>4, <3>5, <3>6, Zenon
  <2>4. ASSUME NEW f \in q.fingerprints
        PROVE  f \in DOMAIN reg'.fingerprint /\ reg'.fingerprint[f] = bound_key(q)
    BY <1>5, <2>1, <2>2
  <2> QED
    BY <2>3, <2>4, Zenon
<1>7. CASE q = p
  <2>1. \A r \in Registered : K \cap policy_keys(r) = {} /\ p.fingerprints \cap r.fingerprints = {}
    BY <1>1, <1>7, UnsharedNew DEF K
  <2>2. K \cap PolicyKeys = {}
    BY <2>1 DEF PolicyKeys
  <2>3. ASSUME NEW k \in K
        PROVE  OwnIn(p, k)' /\ OwnOut(p, k)' /\ (k \in reg'.fallback <=> p.fallback_allow)
    <3>1. k \notin DOMAIN reg.inbound /\ k \notin DOMAIN reg.outbound /\ k \notin reg.fallback
      BY <1>1, <2>1, <2>2 DEF Provenance
    <3>2. OwnIn(p, k)'
      BY <1>5, <3>1 DEF OwnIn, TablesIn, Get
    <3>3. OwnOut(p, k)'
      BY <1>5, <3>1 DEF OwnOut, TablesOut, Get
    <3>4. k \in reg'.fallback <=> p.fallback_allow
      BY <1>3, <1>5, <3>1
    <3> QED
      BY <3>2, <3>3, <3>4, Zenon
  <2> QED
    BY <1>5, <1>7, <2>3 DEF K
<1> QED
  BY <1>2, <1>6, <1>7
-----------------------------------------------------------------------------
(* The invariant holds.                                                     *)

LEMMA InitIInv == Init => IInv
<1> SUFFICES ASSUME Init PROVE IInv
  OBVIOUS
<1>1. config \in Configs /\ built = 0 /\ reg = register_defaults(config)
  BY DEF Init
<1>2. IsText(config.default_in) /\ IsText(config.default_out) /\ Len(config.peers) \in Nat
  BY <1>1, ConfigsAssumption
<1> DEFINE ti == OverwriteIn(EmptyTable, InEntries(config.default_in))
           to == OverwriteOut(EmptyTable, OutEntries(config.default_out))
<1>3. OverIn(ti, EmptyTable, config.default_in) /\ OverOut(to, EmptyTable, config.default_out)
  BY <1>2, OverwritesIn, OverwritesOut
<1>4. reg = [[EmptyRegistry EXCEPT !.defaultIn = ti] EXCEPT !.defaultOut = to]
  BY <1>1 DEF register_defaults, set_default_in_map, set_default_out_map, OverwriteIn,
              OverwriteOut, InEntries, OutEntries
<1> HIDE DEF ti, to
<1>5. /\ IsRegistry(reg) /\ reg.defaultIn = ti /\ reg.defaultOut = to
      /\ reg.inbound = EmptyTable /\ reg.outbound = EmptyTable /\ reg.announced = EmptyTable
      /\ reg.fallback = {} /\ reg.fingerprint = EmptyTable
  BY <1>4 DEF EmptyRegistry, IsRegistry
<1>6. DOMAIN EmptyTable = {}
  BY DEF EmptyTable
<1>7. Reading
  BY <1>1, <1>2, <1>5, <1>6 DEF Reading
<1>8. Defaults
  BY <1>3, <1>5 DEF Defaults
<1>9. Provenance
  BY <1>5, <1>6 DEF Provenance
<1>10. Registered = {}
  BY <1>1 DEF Registered, Peers
<1>11. Owned
  BY <1>10 DEF Owned
<1> QED
  BY <1>7, <1>8, <1>9, <1>11 DEF IInv

\* A step that moves no table but announced keeps what the tables say.
LEMMA TablesFrame ==
  ASSUME IInv, Registered' = Registered, config' = config,
         \A q \in Registered : Unshared(q)' => Unshared(q),
         reg'.inbound = reg.inbound, reg'.outbound = reg.outbound,
         reg'.fallback = reg.fallback, reg'.fingerprint = reg.fingerprint,
         reg'.defaultIn = reg.defaultIn, reg'.defaultOut = reg.defaultOut
  PROVE  Defaults' /\ Provenance' /\ Owned'
<1>1. Defaults'
  BY Zenon DEF IInv, Defaults
<1>2. PolicyKeys' = PolicyKeys
  BY DEF PolicyKeys
<1>3. Provenance'
  BY <1>2, Zenon DEF IInv, Provenance
<1>4. \A p, k : (OwnIn(p, k)' <=> OwnIn(p, k)) /\ (OwnOut(p, k)' <=> OwnOut(p, k))
  BY Zenon DEF OwnIn, OwnOut
<1>5. Owned'
  BY <1>4, Zenon DEF IInv, Owned
<1> QED
  BY <1>1, <1>3, <1>5

LEMMA NextIInv == IInv /\ [Next]_vars => IInv'
<1> SUFFICES ASSUME IInv, [Next]_vars PROVE IInv'
  OBVIOUS
<1>1. CASE RegisterPeer
  <2> DEFINE p == config.peers[built + 1]
  <2>1. /\ built + 1 \in DOMAIN config.peers /\ built' = built + 1 /\ config' = config
        /\ Registered' = Registered \cup IF p.enabled THEN {p} ELSE {}
        /\ reg' = register_peer(reg, p)
    BY <1>1, RegisteredGrows DEF IInv, RegisterPeer
  <2>2. IsText(p.group_map_in) /\ IsText(p.group_map_out)
    BY <2>1, SectionIs DEF IInv, Reading
  <2>3. built' \in 0..Len(config'.peers)
    BY <2>1, PeersLength DEF IInv
  <2>4. CASE p.enabled
    <3>1. /\ IsRegistry(reg') /\ reg'.announced = reg.announced
          /\ reg'.defaultIn = reg.defaultIn /\ reg'.defaultOut = reg.defaultOut
      BY <2>1, <2>2, <2>4, Registers DEF IInv, Reading
    <3>2. Reading' /\ Defaults'
      BY <2>1, <2>3, <3>1 DEF IInv, Reading, Defaults
    <3>3. Provenance' /\ Owned'
      BY <1>1, <2>4, ProvenanceStep, OwnedStep
    <3> QED
      BY <3>2, <3>3 DEF IInv
  <2>5. CASE ~p.enabled
    <3>1. reg' = reg /\ Registered' = Registered
      BY <2>1, <2>5 DEF register_peer
    <3>2. Reading'
      BY <2>1, <2>3, <3>1 DEF IInv, Reading
    <3>3. \A q \in Registered : Unshared(q)' => Unshared(q)
      BY <1>1, UnsharedEarlier DEF IInv
    <3>4. Defaults' /\ Provenance' /\ Owned'
      BY <2>1, <3>1, <3>3, TablesFrame
    <3> QED
      BY <3>2, <3>4 DEF IInv
  <2> QED
    BY <2>4, <2>5
<1>2. ASSUME NEW fp \in DOMAIN reg.fingerprint, NEW groups \in Announcements,
             Announce(fp, groups)
      PROVE  IInv'
  <2> DEFINE pid == resolve_peer_id_by_fingerprint(reg, fp)
  <2>1. reg' = [reg EXCEPT !.announced = Put(@, pid, groups)] /\ UNCHANGED <<config, built>>
    BY <1>2 DEF Announce, update_from_federate_groups
  <2> HIDE DEF pid
  <2>2. /\ IsRegistry(reg') /\ reg'.announced = Put(reg.announced, pid, groups)
        /\ reg'.inbound = reg.inbound /\ reg'.outbound = reg.outbound
        /\ reg'.fallback = reg.fallback /\ reg'.fingerprint = reg.fingerprint
        /\ reg'.defaultIn = reg.defaultIn /\ reg'.defaultOut = reg.defaultOut
    BY <2>1 DEF IInv, Reading, IsRegistry
  <2>3. \A k \in DOMAIN reg'.announced : reg'.announced[k] \in Announcements
    BY <2>2 DEF IInv, Reading, Put
  <2>4. Reading'
    BY <2>1, <2>2, <2>3 DEF IInv, Reading
  <2>5. Registered' = Registered /\ \A q \in Registered : Unshared(q)' => Unshared(q)
    BY <2>1 DEF Registered, Peers, Unshared
  <2>6. Defaults' /\ Provenance' /\ Owned'
    BY <2>1, <2>2, <2>5, TablesFrame
  <2> QED
    BY <2>4, <2>6 DEF IInv
<1>3. CASE UNCHANGED vars
  <2>1. UNCHANGED <<config, built, reg>>
    BY <1>3 DEF vars
  <2>2. Registered' = Registered /\ \A q \in Registered : Unshared(q)' => Unshared(q)
    BY <2>1 DEF Registered, Peers, Unshared
  <2>3. Defaults' /\ Provenance' /\ Owned'
    BY <2>1, <2>2, TablesFrame
  <2> QED
    BY <2>1, <2>3 DEF IInv, Reading
<1> QED
  BY <1>1, <1>2, <1>3 DEF Next

LEMMA Invariant == Spec => []IInv
BY InitIInv, NextIInv, PTL DEF Spec
-----------------------------------------------------------------------------
(* Lookups.                                                                 *)

LEMMA InboundIs ==
  ASSUME NEW r, NEW k, NEW g, NEW t, t = InboundTable(r, k)
  PROVE  map_inbound(r, k, g) =
           IF g \in DOMAIN t THEN t[g]
           ELSE IF Star \in DOMAIN t THEN t[Star]
           ELSE IF k \in r.fallback THEN g ELSE None
BY DEF map_inbound

\* FAIL CLOSED.  Whatever sections share and peers announce, a lookup admits or shares only
\* what a token, the default or the passthrough an operator wrote says
\* (FederateGroupRegistry.map_inbound, map_outbound; _build_group_registry).
THEOREM FailsClosed == Spec => []FailClosed
<1>1. ASSUME IInv, NEW k, NEW g, NEW l, l = map_inbound(reg, k, g), l # None
      PROVE  InboundGranted(k, g, l)
  <2> DEFINE t == InboundTable(reg, k)
  <2>1. l = IF g \in DOMAIN t THEN t[g]
            ELSE IF Star \in DOMAIN t THEN t[Star]
            ELSE IF k \in reg.fallback THEN g ELSE None
    BY <1>1, InboundIs
  <2> HIDE DEF t
  <2>2. ASSUME NEW x \in DOMAIN t, x \in {g, Star}, l = t[x]
        PROVE  InboundGranted(k, g, l)
    <3>1. CASE k \in DOMAIN reg.inbound
      <4>1. t = reg.inbound[k]
        BY <3>1 DEF t, InboundTable, Get
      <4>2. FromIn(Registered, k, x, l)
        BY <1>1, <2>2, <3>1, <4>1 DEF IInv, Provenance
      <4>3. PICK p \in Registered :
               /\ k \in policy_keys(p)
               /\ \E e \in Tokens(p.group_map_in) : e[1] = x /\ l = Admitted(e[2])
        BY <4>2 DEF FromIn
      <4>4. PICK e \in Tokens(p.group_map_in) : e[1] = x /\ l = Admitted(e[2])
        BY <4>3
      <4>5. e[2] = l
        BY <1>1, <4>4 DEF Admitted
      <4>6. Names(p.group_map_in, g, l, TRUE)
        BY <2>2, <4>4, <4>5 DEF Names
      <4> QED
        BY <4>3, <4>6, Zenon DEF InboundGranted
    <3>2. CASE k \notin DOMAIN reg.inbound
      <4>1. t = reg.defaultIn
        BY <3>2 DEF t, InboundTable, Get
      <4>2. OverIn(t, EmptyTable, config.default_in) /\ IsText(config.default_in)
        BY <1>1, <4>1, ConfigsAssumption DEF IInv, Defaults, Reading
      <4>3. PICK e \in Tokens(config.default_in) : e[1] = x /\ l = Admitted(e[2])
        BY <2>2, <4>2, OverInFrom DEF EmptyTable
      <4>4. e[2] = l
        BY <1>1, <4>3 DEF Admitted
      <4>5. Names(config.default_in, g, l, TRUE)
        BY <2>2, <4>3, <4>4 DEF Names
      <4> QED
        BY <3>2, <4>5, Zenon DEF InboundGranted
    <3> QED
      BY <3>1, <3>2
  <2>3. CASE g \notin DOMAIN t /\ Star \notin DOMAIN t
    <3>1. l = g /\ k \in reg.fallback
      BY <1>1, <2>1, <2>3
    <3> QED
      BY <1>1, <3>1 DEF IInv, Provenance, InboundGranted
  <2> QED
    BY <2>1, <2>2, <2>3
<1>2. ASSUME IInv, NEW k, NEW g, NEW r, r = map_outbound(reg, k, g), r # None
      PROVE  OutboundGranted(k, g, r)
  <2> DEFINE t == OutboundTable(reg, k)
  <2>1. g \in DOMAIN t /\ r = t[g]
    BY <1>2 DEF map_outbound, Get
  <2> HIDE DEF t
  <2>2. CASE k \in DOMAIN reg.outbound
    <3>1. t = reg.outbound[k]
      BY <2>2 DEF t, OutboundTable, Get
    <3>2. FromOut(Registered, k, g, r)
      BY <1>2, <2>1, <2>2, <3>1 DEF IInv, Provenance
    <3>3. PICK p \in Registered :
             /\ k \in policy_keys(p)
             /\ \E e \in Tokens(p.group_map_out) : e[1] = g /\ r = e[2]
      BY <3>2 DEF FromOut
    <3>4. Names(p.group_map_out, g, r, FALSE)
      BY <3>3 DEF Names
    <3> QED
      BY <3>3, <3>4, Zenon DEF OutboundGranted
  <2>3. CASE k \notin DOMAIN reg.outbound
    <3>1. t = reg.defaultOut
      BY <2>3 DEF t, OutboundTable, Get
    <3>2. OverOut(t, EmptyTable, config.default_out) /\ IsText(config.default_out)
      BY <1>2, <3>1, ConfigsAssumption DEF IInv, Defaults, Reading
    <3>3. PICK e \in Tokens(config.default_out) : e[1] = g /\ r = e[2]
      BY <2>1, <3>2, OverOutFrom DEF EmptyTable
    <3>4. Names(config.default_out, g, r, FALSE)
      BY <3>3 DEF Names
    <3> QED
      BY <2>3, <3>4, Zenon DEF OutboundGranted
  <2> QED
    BY <2>2, <2>3
<1>3. IInv => FailClosed
  BY <1>1, <1>2, Zenon DEF FailClosed
<1> QED
  BY <1>3, Invariant, PTL

\* What the table of a text, and it alone, gives.
LEMMA TextRulesIn ==
  ASSUME NEW text, IsText(text), NEW t, OverIn(t, EmptyTable, text), NEW g
  PROVE  LET v == IF Tokens(text) = {} THEN None ELSE Verdict(text, g)
         IN /\ v = None <=> g \notin DOMAIN t /\ Star \notin DOMAIN t
            /\ v # None => Admitted(v) = IF g \in DOMAIN t THEN t[g] ELSE t[Star]
<1>1. DOMAIN t = LeftSides(text) /\ \A x \in LeftSides(text) : t[x] = Admitted(LastToken(text, x))
  BY DEF OverIn, EmptyTable
<1>2. CASE Tokens(text) = {}
  BY <1>1, <1>2 DEF LeftSides
<1>3. CASE Tokens(text) # {}
  <2>1. text # Malformed
    BY <1>3 DEF Tokens
  <2>2. \A x : IF x \in LeftSides(text) THEN LastToken(text, x) # None
               ELSE LastToken(text, x) = None
    BY <2>1, LastTokenOf, NoTokenOf, Zenon
  <2> QED
    BY <1>1, <1>3, <2>2, Zenon DEF Verdict
<1> QED
  BY <1>2, <1>3

LEMMA TextRulesOut ==
  ASSUME NEW text, IsText(text), NEW t, OverOut(t, EmptyTable, text), NEW g
  PROVE  Get(t, g, None) =
           IF Tokens(text) = {} \/ g \in {Star, Empty} THEN None ELSE LastToken(text, g)
<1>1. /\ DOMAIN t = SharedSides(text)
      /\ \A x \in SharedSides(text) : t[x] = LastToken(text, x)
  BY DEF OverOut, EmptyTable
<1>2. CASE Tokens(text) = {} \/ g \in {Star, Empty}
  BY <1>1, <1>2 DEF SharedSides, LeftSides, Get
<1>3. CASE Tokens(text) # {} /\ g \notin {Star, Empty}
  <2>1. text # Malformed
    BY <1>3 DEF Tokens
  <2>2. CASE g \in LeftSides(text)
    BY <1>1, <1>3, <2>2 DEF SharedSides, Get
  <2>3. CASE g \notin LeftSides(text)
    <3>1. LastToken(text, g) = None
      BY <2>1, <2>3, NoTokenOf
    <3> QED
      BY <1>1, <1>3, <2>3, <3>1 DEF SharedSides, Get
  <2> QED
    BY <2>2, <2>3
<1> QED
  BY <1>2, <1>3

\* What the configuration guarantees of a registered section.
LEMMA RegisteredIs ==
  ASSUME Reading, NEW p \in Registered
  PROVE  IsText(p.group_map_in) /\ IsText(p.group_map_out)
<1>1. PICK i \in 1..built : p = config.peers[i]
  BY DEF Registered, Peers
<1>2. i \in DOMAIN config.peers
  BY PeersLength
<1> QED
  BY <1>1, <1>2, SectionIs DEF Reading

\* The lookups under a key of a section that shares nothing read that section's text.
LEMMA OwnLookups ==
  ASSUME IInv, NEW p \in Registered, Unshared(p), NEW k \in policy_keys(p), NEW g
  PROVE  map_inbound(reg, k, g) = ReadIn(p, g) /\ map_outbound(reg, k, g) = ReadOut(p, g)
<1>1. OwnIn(p, k) /\ OwnOut(p, k) /\ (k \in reg.fallback <=> p.fallback_allow)
  BY Zenon DEF IInv, Owned
<1>2. /\ IsText(p.group_map_in) /\ IsText(p.group_map_out)
      /\ IsText(config.default_in) /\ IsText(config.default_out)
  BY RegisteredIs, ConfigsAssumption DEF IInv, Reading
<1>3. map_inbound(reg, k, g) = ReadIn(p, g)
  <2> DEFINE t == InboundTable(reg, k)
             text == IF Tokens(p.group_map_in) # {} THEN p.group_map_in ELSE config.default_in
             v == IF Tokens(text) = {} THEN None ELSE Verdict(text, g)
  <2>1. LeftSides(p.group_map_in) = {} <=> Tokens(p.group_map_in) = {}
    BY DEF LeftSides
  <2>2. OverIn(t, EmptyTable, text) /\ IsText(text)
    BY <1>1, <1>2, <2>1 DEF OwnIn, IInv, Defaults, InboundTable, Get
  <2>3. ReadIn(p, g) = IF v = None THEN IF p.fallback_allow THEN g ELSE None
                       ELSE Admitted(v)
    BY Zenon DEF ReadIn, Admitted
  <2>4. map_inbound(reg, k, g) = IF g \in DOMAIN t THEN t[g]
                                 ELSE IF Star \in DOMAIN t THEN t[Star]
                                 ELSE IF k \in reg.fallback THEN g ELSE None
    BY InboundIs
  <2> HIDE DEF t, text
  <2>5. /\ v = None <=> g \notin DOMAIN t /\ Star \notin DOMAIN t
        /\ v # None => Admitted(v) = IF g \in DOMAIN t THEN t[g] ELSE t[Star]
    BY <2>2, TextRulesIn
  <2> HIDE DEF v
  <2>6. CASE v = None
    <3>1. map_inbound(reg, k, g) = IF k \in reg.fallback THEN g ELSE None
      BY <2>4, <2>5, <2>6, Zenon
    <3>2. ReadIn(p, g) = IF p.fallback_allow THEN g ELSE None
      BY <2>3, <2>6, Zenon
    <3> QED
      <4>1. CASE p.fallback_allow
        BY <1>1, <3>1, <3>2, <4>1, Zenon
      <4>2. CASE ~p.fallback_allow
        BY <1>1, <3>1, <3>2, <4>2, Zenon
      <4> QED
        BY <4>1, <4>2
  <2>7. CASE v # None
    <3>1. ReadIn(p, g) = IF g \in DOMAIN t THEN t[g] ELSE t[Star]
      BY <2>3, <2>5, <2>7, Zenon
    <3>2. CASE g \in DOMAIN t
      BY <2>4, <3>1, <3>2, Zenon
    <3>3. CASE g \notin DOMAIN t
      BY <2>4, <2>5, <2>7, <3>1, <3>3, Zenon
    <3> QED
      BY <3>2, <3>3
  <2> QED
    BY <2>6, <2>7
<1>4. map_outbound(reg, k, g) = ReadOut(p, g)
  <2> DEFINE t == OutboundTable(reg, k)
             text == IF SharedSides(p.group_map_out) # {} THEN p.group_map_out
                     ELSE config.default_out
  <2>1. SharedSides(p.group_map_out) # {} <=>
          {e \in Tokens(p.group_map_out) : e[1] \notin {Star, Empty}} # {}
    BY DEF SharedSides, LeftSides
  <2>2. OverOut(t, EmptyTable, text) /\ IsText(text)
    BY <1>1, <1>2 DEF OwnOut, IInv, Defaults, OutboundTable, Get
  <2>3. ReadOut(p, g) =
          IF Tokens(text) = {} \/ g \in {Star, Empty} THEN None ELSE LastToken(text, g)
    BY <2>1, Zenon DEF ReadOut
  <2>4. map_outbound(reg, k, g) = Get(t, g, None)
    BY DEF map_outbound
  <2> HIDE DEF t, text
  <2> QED
    BY <2>2, <2>3, <2>4, TextRulesOut
<1> QED
  BY <1>3, <1>4

\* OWN SECTION.  In every configuration, a certificate bound to a section that shares no key
\* and no fingerprint gets exactly the policy that section's text says
\* (_build_group_registry, parse_group_map, map_inbound_groups, map_outbound_groups).
THEOREM OwnSection == Spec => []FollowsOwnSection
<1>1. ASSUME IInv PROVE FollowsOwnSection
  <2> SUFFICES ASSUME NEW p \in Registered, Unshared(p), NEW f \in p.fingerprints,
                      NEW k, k = resolve_peer_id_by_fingerprint(reg, f)
               PROVE  /\ \A rgs \in SUBSET Groups :
                           map_inbound_groups(reg, k, rgs) =
                             IF rgs = {} THEN {ReadIn(p, Star)} \ {None, Star}
                                         ELSE {ReadIn(p, g) : g \in rgs} \ {None}
                      /\ \A lgs \in SUBSET Groups :
                           map_outbound_groups(reg, k, lgs) = {ReadOut(p, g) : g \in lgs} \ {None}
    BY Zenon DEF FollowsOwnSection
  <2>1. k = bound_key(p)
    BY <1>1 DEF IInv, Owned, resolve_peer_id_by_fingerprint, Get
  <2>2. k \in policy_keys(p)
    BY <2>1 DEF bound_key, policy_keys
  <2>3. \A g : map_inbound(reg, k, g) = ReadIn(p, g) /\ map_outbound(reg, k, g) = ReadOut(p, g)
    BY <1>1, <2>2, OwnLookups
  <2>4. ASSUME NEW rgs \in SUBSET Groups
        PROVE  map_inbound_groups(reg, k, rgs) =
                 IF rgs = {} THEN {ReadIn(p, Star)} \ {None, Star}
                             ELSE {ReadIn(p, g) : g \in rgs} \ {None}
    BY <2>3 DEF map_inbound_groups
  <2>5. ASSUME NEW lgs \in SUBSET Groups
        PROVE  map_outbound_groups(reg, k, lgs) = {ReadOut(p, g) : g \in lgs} \ {None}
    BY <2>3 DEF map_outbound_groups
  <2> QED
    BY <2>4, <2>5
<1> QED
  BY <1>1, Invariant, PTL

\* Lookups depend on the tables of their key.
LEMMA SameLookups ==
  ASSUME NEW r, NEW r2, NEW k, NEW g,
         k \in DOMAIN r2.inbound <=> k \in DOMAIN r.inbound,
         k \in DOMAIN r.inbound => r2.inbound[k] = r.inbound[k],
         k \in DOMAIN r2.outbound <=> k \in DOMAIN r.outbound,
         k \in DOMAIN r.outbound => r2.outbound[k] = r.outbound[k],
         k \in r2.fallback <=> k \in r.fallback,
         r2.defaultIn = r.defaultIn, r2.defaultOut = r.defaultOut
  PROVE  /\ map_inbound(r2, k, g) = map_inbound(r, k, g)
         /\ map_outbound(r2, k, g) = map_outbound(r, k, g)
<1>1. InboundTable(r2, k) = InboundTable(r, k) /\ OutboundTable(r2, k) = OutboundTable(r, k)
  BY DEF InboundTable, OutboundTable, Get
<1>2. map_outbound(r2, k, g) = map_outbound(r, k, g)
  BY <1>1, Zenon DEF map_outbound
<1>3. map_inbound(r2, k, g) = map_inbound(r, k, g)
  <2> DEFINE Is(x, t) == map_inbound(x, k, g) =
                           IF g \in DOMAIN t THEN t[g]
                           ELSE IF Star \in DOMAIN t THEN t[Star]
                           ELSE IF k \in x.fallback THEN g ELSE None
  <2>1. Is(r, InboundTable(r, k))
    BY InboundIs
  <2>2. Is(r2, InboundTable(r2, k))
    BY InboundIs
  <2>3. Is(r2, InboundTable(r, k))
    BY <1>1, <2>2, Zenon
  <2> DEFINE t == InboundTable(r, k)
  <2>4. k \in r2.fallback <=> k \in r.fallback
    OBVIOUS
  <2>5. Is(r, t) /\ Is(r2, t)
    BY <2>1, <2>3
  <2> HIDE DEF t
  <2>6. CASE g \in DOMAIN t
    BY <2>5, <2>6, Zenon
  <2>7. CASE g \notin DOMAIN t /\ Star \in DOMAIN t
    BY <2>5, <2>7, Zenon
  <2>8. CASE g \notin DOMAIN t /\ Star \notin DOMAIN t
    <3>1. CASE k \in r.fallback
      BY <2>4, <2>5, <2>8, <3>1, Zenon
    <3>2. CASE k \notin r.fallback
      BY <2>4, <2>5, <2>8, <3>2, Zenon
    <3> QED
      BY <3>1, <3>2
  <2> QED
    BY <2>6, <2>7, <2>8
<1> QED
  BY <1>2, <1>3

\* NOBODY ELSE'S POLICY.  In every configuration a lookup changes only when a section of its
\* very key is registered: no other peer's section and no announcement
\* (update_from_federate_groups) can change it.
THEOREM OnlyOwnSection == Spec => PolicyFromOwnSectionOnly
<1>1. ASSUME IInv, [Next]_vars, NEW k, NEW g,
             \/ map_inbound(reg', k, g) # map_inbound(reg, k, g)
             \/ map_outbound(reg', k, g) # map_outbound(reg, k, g)
      PROVE  built' = built + 1 /\ k \in policy_keys(config.peers[built'])
  <2>1. CASE RegisterPeer
    <3> DEFINE p == config.peers[built + 1]
    <3>1. built + 1 \in DOMAIN config.peers /\ built' = built + 1 /\ reg' = register_peer(reg, p)
      BY <1>1, <2>1, RegisteredGrows DEF IInv, RegisterPeer
    <3>2. p.enabled
      BY <1>1, <3>1 DEF register_peer
    <3>3. IsText(p.group_map_in) /\ IsText(p.group_map_out) /\ p.fallback_allow \in BOOLEAN
      BY <1>1, <3>1, SectionIs DEF IInv, Reading
    <3> HIDE DEF p
    <3>4. /\ reg'.defaultIn = reg.defaultIn /\ reg'.defaultOut = reg.defaultOut
          /\ reg'.fallback = reg.fallback \cup IF p.fallback_allow THEN policy_keys(p) ELSE {}
          /\ TablesIn(reg'.inbound, reg.inbound, policy_keys(p), p.group_map_in)
          /\ TablesOut(reg'.outbound, reg.outbound, policy_keys(p), p.group_map_out)
      BY <1>1, <3>1, <3>2, <3>3, Registers DEF IInv, Reading
    <3>5. ASSUME k \notin policy_keys(p) PROVE FALSE
      <4>1. /\ k \in DOMAIN reg'.inbound <=> k \in DOMAIN reg.inbound
            /\ k \in DOMAIN reg.inbound => reg'.inbound[k] = reg.inbound[k]
        BY <3>4, <3>5 DEF TablesIn
      <4>2. /\ k \in DOMAIN reg'.outbound <=> k \in DOMAIN reg.outbound
            /\ k \in DOMAIN reg.outbound => reg'.outbound[k] = reg.outbound[k]
        BY <3>4, <3>5 DEF TablesOut
      <4>3. k \in reg'.fallback <=> k \in reg.fallback
        BY <3>4, <3>5
      <4> QED
        BY <1>1, <3>4, <4>1, <4>2, <4>3, SameLookups
    <3> QED
      BY <3>1, <3>5 DEF p
  <2>2. ASSUME NEW fp \in DOMAIN reg.fingerprint, NEW groups \in Announcements,
               Announce(fp, groups)
        PROVE  FALSE
    <3> DEFINE new == Put(reg.announced, resolve_peer_id_by_fingerprint(reg, fp), groups)
    <3>1. reg' = [reg EXCEPT !.announced = new]
      BY <2>2 DEF Announce, update_from_federate_groups
    <3> HIDE DEF new
    <3>2. /\ reg'.inbound = reg.inbound /\ reg'.outbound = reg.outbound
          /\ reg'.fallback = reg.fallback
          /\ reg'.defaultIn = reg.defaultIn /\ reg'.defaultOut = reg.defaultOut
      BY <1>1, <3>1 DEF IInv, Reading, IsRegistry
    <3> QED
      BY <1>1, <3>2, SameLookups
  <2>3. CASE UNCHANGED vars
    BY <1>1, <2>3 DEF vars
  <2> QED
    BY <1>1, <2>1, <2>2, <2>3 DEF Next
<1>2. IInv /\ [Next]_vars =>
        [\A k \in PolicyKeys \cup PolicyKeys' \cup {UnknownKey}, g \in Groups \cup {Star} :
           \/ map_inbound(reg', k, g) # map_inbound(reg, k, g)
           \/ map_outbound(reg', k, g) # map_outbound(reg, k, g)
           => /\ built' = built + 1
              /\ k \in policy_keys(config.peers[built'])]_vars
  BY <1>1
<1> QED
  BY <1>2, Invariant, PTL DEF Spec, PolicyFromOwnSectionOnly
-----------------------------------------------------------------------------
(* Types.                                                                   *)

\* TYPE.  In every configuration the registry's tables map groups to groups that the
\* configuration names, and its keys are those of registered sections.
THEOREM TypeCorrect == Spec => []TypeOK
<1>1. ASSUME IInv PROVE TypeOK
  <2> DEFINE Sections == UNION {Tokens(p.group_map_in) \cup Tokens(p.group_map_out) :
                                  p \in Peers}
             Texts == Sections \cup Tokens(config.default_in) \cup Tokens(config.default_out)
             Known == Groups \cup {Star, Empty, None} \cup UNION {{t[1], t[2]} : t \in Texts}
             IsTable(f) == \A k \in DOMAIN f : {k, f[k]} \subseteq Known
  <2>1. \A t \in Texts : t[1] \in Known /\ t[2] \in Known
    OBVIOUS
  <2>2. None \in Known
    OBVIOUS
  <2>3. \A p \in Registered : Tokens(p.group_map_in) \cup Tokens(p.group_map_out) \subseteq Texts
    BY DEF Registered
  <2> HIDE DEF Sections
  <2>4. Tokens(config.default_in) \cup Tokens(config.default_out) \subseteq Texts
    OBVIOUS
  <2> HIDE DEF Texts, Known
  <2>5. \A e \in Texts : Admitted(e[2]) \in Known
    BY <2>1, <2>2 DEF Admitted
  <2>6. \A k \in DOMAIN reg.inbound : IsTable(reg.inbound[k])
    BY <1>1, <2>1, <2>3, <2>5 DEF IInv, Provenance, FromIn
  <2>7. \A k \in DOMAIN reg.outbound : IsTable(reg.outbound[k])
    BY <1>1, <2>1, <2>3 DEF IInv, Provenance, FromOut
  <2>8. IsText(config.default_in) /\ IsText(config.default_out)
    BY <1>1, ConfigsAssumption DEF IInv, Reading
  <2>9. IsTable(reg.defaultIn)
    BY <1>1, <2>1, <2>4, <2>5, <2>8, OverInFrom DEF IInv, Defaults, EmptyTable
  <2>10. IsTable(reg.defaultOut)
    BY <1>1, <2>1, <2>4, <2>8, OverOutFrom DEF IInv, Defaults, EmptyTable
  <2>11. \A p \in Registered : policy_keys(p) \subseteq PolicyKeys /\ bound_key(p) \in PolicyKeys
    BY DEF PolicyKeys, policy_keys, bound_key
  <2>12. reg.fallback \subseteq PolicyKeys
    BY <1>1, <2>11 DEF IInv, Provenance
  <2>13. \A f \in DOMAIN reg.fingerprint : reg.fingerprint[f] \in PolicyKeys
    BY <1>1, <2>11 DEF IInv, Provenance
  <2>14. /\ config \in Configs /\ built \in 0..Len(config.peers)
         /\ \A k \in DOMAIN reg.announced : reg.announced[k] \in Announcements
    BY <1>1 DEF IInv, Reading
  <2> QED
    BY <2>6, <2>7, <2>9, <2>10, <2>12, <2>13, <2>14, Zenon DEF TypeOK, Texts, Known, Sections
<1> QED
  BY <1>1, Invariant, PTL
=============================================================================
