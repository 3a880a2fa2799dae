---------------------------- MODULE SetUpProofs ----------------------------
(***************************************************************************)
(* Theorems about SetUp, for any number of generations: a quickstart or an  *)
(* apply without --force overwrites nothing, a hand-out that was completed  *)
(* after a complete generate fits the server's files, and credentials       *)
(* loaded undisturbed match.                                                *)
(*                                                                          *)
(* The first two rest on one invariant about what a command has done and    *)
(* has still to do (Underway), and on the disjointness of the files of the  *)
(* four stages.                                                             *)
(***************************************************************************)
EXTENDS SetUp, SequenceTheorems, TLAPS

(* What a command does.                                                     *)

\* The stage whose writes are at hand.
AtGenerate ==
  \/ cmd.name = "generate" /\ stages = <<>>
  \/ cmd.name = "quickstart" /\ stages = <<"ini", "export">>
AtIni == cmd.name = "quickstart" /\ stages = <<"export">>
AtExport == cmd.name \in {"export", "quickstart"} /\ stages = <<>>
AtApply == cmd.name = "apply" /\ stages = <<>>

\* The command has been dispatched and has begun no stage.
AtOutset ==
  /\ cmd.name \in DOMAIN Stages /\ stages = Stages[cmd.name]
  /\ todo = <<>> /\ ~open

Idle == cmd = NoCommand /\ stages = <<>> /\ todo = <<>> /\ ~open

IniWrites == <<Write(Ini, <<Text(gen)>>)>>

\* The first d writes of w are on the disk dk ...
OnDisk(dk, w, d) ==
  \A i \in 1..d : w[i].file \in DOMAIN dk /\ dk[w[i].file] = w[i].blocks

\* ... for some d, and the others are at hand.
Underway(dk, w, td) ==
  \E d \in 0..Len(w) : td = SubSeq(w, d + 1, Len(w)) /\ OnDisk(dk, w, d)

Complete(dk, w) == OnDisk(dk, w, Len(w))

ApplyInputs ==
  /\ Exists(CrtFile("ca")) /\ Exists(KeyFile("server"))
  /\ Exists(ChainFile("server")) \/ Exists(CrtFile("server"))

\* Every command is idle, at its outset or in the middle of the writes of one stage.  What
\* export and apply copy stays on the disk while they write.
Generating == AtGenerate /\ Underway(disk, Generated(gen), todo) /\ ~whole
WritingIni == AtIni /\ Underway(disk, IniWrites, todo)
Exporting ==
  /\ AtExport /\ Underway(disk, cmd_export, todo)
  /\ CanExport /\ "bundle" \notin handed
Applying ==
  /\ AtApply /\ Underway(disk, cmd_apply, todo)
  /\ ApplyInputs /\ "staging" \notin handed
  /\ cmd.force \/ Staging \notin had

Plan ==
  /\ Idle \/ AtOutset \/ Generating \/ WritingIni \/ Exporting \/ Applying
  /\ open => todo # <<>>

\* Without --force, what quickstart writes was not there when it began.
Untouched ==
  /\ had \subseteq DOMAIN disk
  /\ cmd.name = "quickstart" /\ ~cmd.force =>
       had \cap (_GENERATE_OUTPUT_FILES \cup {Ini} \cup Bundle) = {}

\* The files a hand-out was made from are still there, and so is the hand-out.
Handed ==
  /\ handed \subseteq {"bundle", "staging"}
  /\ whole => Complete(disk, Generated(gen))
  /\ handed # {} => whole
  /\ "bundle" \in handed => Complete(disk, cmd_export)
  /\ "staging" \in handed => Complete(disk, cmd_apply)

TypeOK ==
  /\ open \in BOOLEAN /\ whole \in BOOLEAN
  /\ cmd \in [name : {"none"} \cup DOMAIN Stages, force : BOOLEAN]
  /\ gen \in Nat
  /\ disk = [f \in DOMAIN disk |-> disk[f]]

IInv == TypeOK /\ Plan /\ Untouched /\ Handed

\* The path of the i-th read of a load.
PathOf(i) == _PATHS[1 + ((i - 1) % 3)]

IsSequence(s) == s \in Seq({s[i] : i \in DOMAIN s})

\* While nobody writes, what was read is what is there, and the first three reads validated.
Loaded ==
  /\ IsSequence(seen) /\ Len(seen) <= 6
  /\ ~touched => \A i \in 1..Len(seen) : Exists(PathOf(i)) /\ seen[i] = disk[PathOf(i)]
  /\ Len(seen) >= 3 => _validate_pem_with_ssl(seen[1], seen[2], seen[3])
-----------------------------------------------------------------------------
(* The files of the four stages.                                            *)

\* w writes files of F, each once.
IsPlan(w, F) ==
  /\ w \in Seq({w[i] : i \in 1..Len(w)})
  /\ \A i \in 1..Len(w) : w[i].file \in F
  /\ \A i, j \in 1..Len(w) : w[i].file = w[j].file => i = j

LEMMA FilesDisjoint ==
  /\ Ini \notin _GENERATE_OUTPUT_FILES /\ Staging \notin _GENERATE_OUTPUT_FILES
  /\ _GENERATE_OUTPUT_FILES \cap Bundle = {}
  /\ Ini \notin Bundle /\ Staging \notin Bundle /\ Ini # Staging
BY DEF _GENERATE_OUTPUT_FILES, Stems, KeyFile, CrtFile, ChainFile, Ini, Staging, Bundle, Bundled

LEMMA GeneratePlan ==
  ASSUME NEW n
  PROVE  IsPlan(Generated(n), _GENERATE_OUTPUT_FILES) /\ Len(Generated(n)) = 8
<1> DEFINE w == Generated(n)
<1>1. Len(w) = 8
  BY DEF Generated
<1>2. w \in Seq({w[i] : i \in 1..Len(w)})
  BY DEF Generated
<1>3. /\ w[1].file = KeyFile("ca") /\ w[2].file = CrtFile("ca")
      /\ w[3].file = KeyFile("server") /\ w[4].file = CrtFile("server")
      /\ w[5].file = ChainFile("server")
      /\ w[6].file = KeyFile("client") /\ w[7].file = CrtFile("client")
      /\ w[8].file = ChainFile("client")
  BY DEF Generated, _write_private_key, _write_cert, _write_cert_chain, Write
<1> HIDE DEF w
<1>4. \A i \in 1..8 : w[i].file \in _GENERATE_OUTPUT_FILES
  BY <1>3 DEF _GENERATE_OUTPUT_FILES, Stems
<1>5. \A i, j \in 1..8 : w[i].file = w[j].file => i = j
  BY <1>3 DEF KeyFile, CrtFile, ChainFile
<1> QED
  BY <1>1, <1>2, <1>4, <1>5 DEF IsPlan, w

LEMMA IniPlan == IsPlan(IniWrites, {Ini}) /\ Len(IniWrites) = 1
<1>1. Len(IniWrites) = 1 /\ IniWrites[1].file = Ini
  BY DEF IniWrites, Write
<1>2. IniWrites \in Seq({IniWrites[i] : i \in 1..Len(IniWrites)})
  BY DEF IniWrites
<1> QED
  BY <1>1, <1>2 DEF IsPlan

LEMMA ExportPlan == IsPlan(cmd_export, Bundle) /\ Len(cmd_export) = 4
<1> DEFINE w == cmd_export
<1>1. Len(w) = 4
  BY DEF cmd_export
<1>2. w \in Seq({w[i] : i \in 1..Len(w)})
  BY DEF cmd_export
<1>3. /\ w[1].file = Bundled("fed-ca.crt") /\ w[2].file = Bundled("stanza.ini")
      /\ w[3].file = Bundled("stanza.xml") /\ w[4].file = Bundled("README.md")
  BY DEF cmd_export, Write
<1> HIDE DEF w
<1>4. \A i \in 1..4 : w[i].file \in Bundle
  BY <1>3 DEF Bundle
<1>5. \A i, j \in 1..4 : w[i].file = w[j].file => i = j
  BY <1>3 DEF Bundled
<1> QED
  BY <1>1, <1>2, <1>4, <1>5 DEF IsPlan, w

LEMMA ApplyPlan == IsPlan(cmd_apply, {Staging}) /\ Len(cmd_apply) = 1
<1>1. Len(cmd_apply) = 1 /\ cmd_apply[1].file = Staging
  BY DEF cmd_apply, Write
<1>2. cmd_apply \in Seq({cmd_apply[i] : i \in 1..Len(cmd_apply)})
  BY DEF cmd_apply
<1> QED
  BY <1>1, <1>2 DEF IsPlan
-----------------------------------------------------------------------------
(* Writing a plan.                                                          *)

\* The disk after one file was put there, or put there again.
AfterPut(dk2, dk, f, b) ==
  dk2 = [x \in DOMAIN dk \cup {f} |-> IF x = f THEN b ELSE dk[x]]

\* What is on the disk stays there when another file is put there.
LEMMA PutKeeps ==
  ASSUME NEW dk, NEW dk2, NEW f, NEW b, AfterPut(dk2, dk, f, b),
         NEW w, NEW d \in Nat, OnDisk(dk, w, d), \A i \in 1..d : w[i].file # f
  PROVE  OnDisk(dk2, w, d)
BY DEF AfterPut, OnDisk

\* d writes of w are on the disk, and td is the other ones.
AtHand(dk, w, td, d) ==
  /\ OnDisk(dk, w, d)
  /\ td = SubSeq(w, d + 1, Len(w))
  /\ Head(td) = w[d + 1] /\ Tail(td) = SubSeq(w, d + 2, Len(w))

LEMMA PlanHead ==
  ASSUME NEW dk, NEW w, NEW F, IsPlan(w, F), NEW td, td # <<>>, Underway(dk, w, td)
  PROVE  \E d \in 0..(Len(w) - 1) : AtHand(dk, w, td, d)
<1> DEFINE S == {w[i] : i \in 1..Len(w)}
<1>1. PICK d \in 0..Len(w) : td = SubSeq(w, d + 1, Len(w)) /\ OnDisk(dk, w, d)
  BY DEF Underway
<1>2. w \in Seq(S) /\ Len(w) \in Nat
  BY DEF IsPlan
<1> HIDE DEF S
<1>3. d # Len(w)
  BY <1>1, <1>2, SubSeqEmpty
<1>4. d + 1 \in 1..Len(w) /\ Len(w) \in (d + 1)..Len(w) /\ d \in 0..(Len(w) - 1)
  BY <1>2, <1>3
<1>5. Head(td) = w[d + 1] /\ Tail(td) = SubSeq(w, (d + 1) + 1, Len(w))
  BY <1>1, <1>2, <1>4, HeadTailOfSubSeq
<1>6. (d + 1) + 1 = d + 2
  BY <1>2
<1> QED
  BY <1>1, <1>4, <1>5, <1>6, Zenon DEF AtHand

\* The file at hand is one of the stage, and not one that is written already.
LEMMA HeadInPlan ==
  ASSUME NEW w, NEW F, IsPlan(w, F), NEW dk, NEW td, NEW d \in 0..(Len(w) - 1),
         AtHand(dk, w, td, d)
  PROVE  Head(td).file \in F /\ \A i \in 1..d : w[i].file # Head(td).file
<1>1. Len(w) \in Nat
  BY DEF IsPlan
<1>2. Head(td) = w[d + 1]
  BY Zenon DEF AtHand
<1>3. d + 1 \in 1..Len(w) /\ \A i \in 1..d : i \in 1..Len(w) /\ i # d + 1
  BY <1>1
<1>4. w[d + 1].file \in F
  BY <1>3, Zenon DEF IsPlan
<1>5. \A i \in 1..d : w[i].file # w[d + 1].file
  BY <1>3, Zenon DEF IsPlan
<1> QED
  BY <1>2, <1>4, <1>5, Zenon

\* Opening the file at hand, or writing part of it, leaves the rest of the stage to do ...
LEMMA OpenAtHand ==
  ASSUME NEW dk, NEW w, NEW F, IsPlan(w, F), NEW td, td # <<>>, Underway(dk, w, td),
         NEW dk2, NEW b, AfterPut(dk2, dk, Head(td).file, b)
  PROVE  Underway(dk2, w, td)
<1>1. PICK d \in 0..(Len(w) - 1) : AtHand(dk, w, td, d)
  BY PlanHead
<1>2. Len(w) \in Nat
  BY DEF IsPlan
<1>3. OnDisk(dk2, w, d)
  <2>1. OnDisk(dk, w, d) /\ d \in Nat
    BY <1>1, <1>2 DEF AtHand
  <2>2. \A i \in 1..d : w[i].file # Head(td).file
    BY <1>1, HeadInPlan, Zenon
  <2> QED
    BY <2>1, <2>2, PutKeeps, Zenon
<1> QED
  BY <1>1, <1>2, <1>3 DEF Underway, AtHand

\* ... and writing it all takes the stage one file further.
LEMMA WriteAtHand ==
  ASSUME NEW dk, NEW w, NEW F, IsPlan(w, F), NEW td, td # <<>>, Underway(dk, w, td),
         NEW dk2, AfterPut(dk2, dk, Head(td).file, Head(td).blocks)
  PROVE  Underway(dk2, w, Tail(td))
<1>1. PICK d \in 0..(Len(w) - 1) : AtHand(dk, w, td, d)
  BY PlanHead
<1>2. Len(w) \in Nat
  BY DEF IsPlan
<1>3. OnDisk(dk2, w, d)
  <2>1. OnDisk(dk, w, d) /\ d \in Nat
    BY <1>1, <1>2 DEF AtHand
  <2>2. \A i \in 1..d : w[i].file # Head(td).file
    BY <1>1, HeadInPlan, Zenon
  <2> QED
    BY <2>1, <2>2, PutKeeps, Zenon
<1>4. Head(td).file \in DOMAIN dk2 /\ dk2[Head(td).file] = Head(td).blocks
  BY DEF AfterPut
<1>5. Head(td) = w[d + 1] /\ Tail(td) = SubSeq(w, d + 2, Len(w))
  BY <1>1 DEF AtHand
<1>6. OnDisk(dk2, w, d + 1)
  <2>1. w[d + 1].file \in DOMAIN dk2 /\ dk2[w[d + 1].file] = w[d + 1].blocks
    BY <1>4, <1>5, Zenon
  <2>2. \A i \in 1..(d + 1) : i \in 1..d \/ i = d + 1
    BY <1>2
  <2> QED
    BY <1>3, <2>1, <2>2, Zenon DEF OnDisk
<1>7. (d + 1) + 1 = d + 2 /\ d + 1 \in 0..Len(w)
  BY <1>2
<1> QED
  BY <1>5, <1>6, <1>7, Zenon DEF Underway

\* A stage begins with nothing on the disk, and ends with all of it.
LEMMA Begins ==
  ASSUME NEW dk, NEW w, NEW F, IsPlan(w, F)
  PROVE  Underway(dk, w, w)
<1>1. w = SubSeq(w, 1, Len(w)) /\ Len(w) \in Nat
  BY SubSeqFull DEF IsPlan
<1>2. OnDisk(dk, w, 0)
  BY DEF OnDisk
<1> QED
  BY <1>1, <1>2 DEF Underway

LEMMA Ends ==
  ASSUME NEW dk, NEW w, NEW F, IsPlan(w, F), Underway(dk, w, <<>>)
  PROVE  Complete(dk, w)
<1> DEFINE S == {w[i] : i \in 1..Len(w)}
<1>1. PICK d \in 0..Len(w) : <<>> = SubSeq(w, d + 1, Len(w)) /\ OnDisk(dk, w, d)
  BY DEF Underway
<1>2. w \in Seq(S) /\ Len(w) \in Nat
  BY DEF IsPlan
<1> HIDE DEF S
<1>3. \A i \in (d + 1)..Len(w) : w[i] \in S
  BY <1>2, ElementOfSeq
<1>4. Len(SubSeq(w, d + 1, Len(w))) = IF d + 1 <= Len(w) THEN Len(w) - (d + 1) + 1 ELSE 0
  BY <1>2, <1>3, SubSeqProperties
<1>5. Len(SubSeq(w, d + 1, Len(w))) = 0
  BY <1>1, EmptySeq, Zenon
<1> DEFINE n == Len(SubSeq(w, d + 1, Len(w)))
<1> HIDE DEF n
<1>6. d = Len(w)
  <2>1. n = 0 /\ n = IF d + 1 <= Len(w) THEN Len(w) - (d + 1) + 1 ELSE 0
    BY <1>4, <1>5, Zenon DEF n
  <2> QED
    BY ONLY <2>1, <1>2, d \in 0..Len(w)
<1> QED
  BY <1>1, <1>6 DEF Complete
-----------------------------------------------------------------------------
(* What a write leaves alone.                                               *)

\* The file at hand is one of the stage the command is in.
LEMMA FileAtHand ==
  ASSUME IInv, todo # <<>>
  PROVE  \/ AtGenerate /\ Head(todo).file \in _GENERATE_OUTPUT_FILES /\ ~whole
         \/ AtIni /\ Head(todo).file = Ini
         \/ AtExport /\ Head(todo).file \in Bundle /\ "bundle" \notin handed
         \/ /\ AtApply /\ Head(todo).file = Staging /\ "staging" \notin handed
            /\ cmd.force \/ Staging \notin had
<1>1. Generating \/ WritingIni \/ Exporting \/ Applying
  BY DEF IInv, Plan, Idle, AtOutset
<1>2. CASE Generating
  <2>1. \E d \in 0..(Len(Generated(gen)) - 1) : AtHand(disk, Generated(gen), todo, d)
    BY <1>2, GeneratePlan, PlanHead, Zenon DEF Generating
  <2>2. Head(todo).file \in _GENERATE_OUTPUT_FILES
    BY <2>1, GeneratePlan, HeadInPlan, Zenon
  <2> QED
    BY <1>2, <2>2, Zenon DEF Generating
<1>3. CASE WritingIni
  <2>1. \E d \in 0..(Len(IniWrites) - 1) : AtHand(disk, IniWrites, todo, d)
    BY <1>3, IniPlan, PlanHead, Zenon DEF WritingIni
  <2>2. Head(todo).file \in {Ini}
    BY <2>1, IniPlan, HeadInPlan, Zenon
  <2> QED
    BY <1>3, <2>2, Zenon DEF WritingIni
<1>4. CASE Exporting
  <2>1. \E d \in 0..(Len(cmd_export) - 1) : AtHand(disk, cmd_export, todo, d)
    BY <1>4, ExportPlan, PlanHead, Zenon DEF Exporting
  <2>2. Head(todo).file \in Bundle
    BY <2>1, ExportPlan, HeadInPlan, Zenon
  <2> QED
    BY <1>4, <2>2, Zenon DEF Exporting
<1>5. CASE Applying
  <2>1. \E d \in 0..(Len(cmd_apply) - 1) : AtHand(disk, cmd_apply, todo, d)
    BY <1>5, ApplyPlan, PlanHead, Zenon DEF Applying
  <2>2. Head(todo).file \in {Staging}
    BY <2>1, ApplyPlan, HeadInPlan, Zenon
  <2> QED
    BY <1>5, <2>2, Zenon DEF Applying
<1> QED
  BY <1>1, <1>2, <1>3, <1>4, <1>5, Zenon

\* A step leaves the disk as it is or puts the file at hand there.
LEMMA DiskStep ==
  ASSUME IInv, [Next]_vars
  PROVE  \/ disk' = disk
         \/ todo # <<>> /\ \E b : AfterPut(disk', disk, Head(todo).file, b)
<1>1. open => todo # <<>>
  BY DEF IInv, Plan
<1>2. CASE OpenFile
  BY <1>2 DEF OpenFile, Put, AfterPut
<1>3. CASE WriteFile
  BY <1>1, <1>3 DEF WriteFile, Put, AfterPut
<1>4. CASE Abort
  BY <1>1, <1>4 DEF Abort, Put, AfterPut
<1>5. CASE UNCHANGED vars
  BY <1>5 DEF vars
<1>6. CASE Command
  BY <1>6 DEF Command, Quickstart, Dispatch
<1>7. CASE Generate \/ WriteIni \/ Export \/ Apply \/ Return
  BY <1>7 DEF Generate, WriteIni, Export, Apply, Return
<1>8. CASE _read_pem_bytes \/ EndLoad
  BY <1>8 DEF _read_pem_bytes, EndLoad
<1> QED
  BY <1>2, <1>3, <1>4, <1>5, <1>6, <1>7, <1>8 DEF Next

\* export and apply read files that only generate writes.
LEMMA SameExport ==
  ASSUME NEW f, NEW b, AfterPut(disk', disk, f, b), f \notin _GENERATE_OUTPUT_FILES, CanExport
  PROVE  cmd_export' = cmd_export /\ CanExport'
<1>1. CrtFile("ca") \in _GENERATE_OUTPUT_FILES /\ CrtFile("server") \in _GENERATE_OUTPUT_FILES
  BY DEF _GENERATE_OUTPUT_FILES, Stems
<1>2. /\ disk'[CrtFile("ca")] = disk[CrtFile("ca")] /\ CrtFile("ca") \in DOMAIN disk'
      /\ disk'[CrtFile("server")] = disk[CrtFile("server")] /\ CrtFile("server") \in DOMAIN disk'
  BY <1>1 DEF AfterPut, CanExport, Exists
<1>3. cmd_export' = cmd_export
  BY <1>2, Zenon DEF cmd_export
<1> QED
  BY <1>2, <1>3, Zenon DEF CanExport, Exists

LEMMA SameApply ==
  ASSUME NEW f, NEW b, AfterPut(disk', disk, f, b), f \notin _GENERATE_OUTPUT_FILES, ApplyInputs
  PROVE  cmd_apply' = cmd_apply /\ ApplyInputs'
<1>1. /\ CrtFile("ca") \in _GENERATE_OUTPUT_FILES /\ CrtFile("server") \in _GENERATE_OUTPUT_FILES
      /\ KeyFile("server") \in _GENERATE_OUTPUT_FILES
      /\ ChainFile("server") \in _GENERATE_OUTPUT_FILES
  BY DEF _GENERATE_OUTPUT_FILES, Stems
<1>2. \A g \in _GENERATE_OUTPUT_FILES :
        /\ g \in DOMAIN disk' <=> g \in DOMAIN disk
        /\ g \in DOMAIN disk => disk'[g] = disk[g]
  BY DEF AfterPut
<1>3. ApplyInputs'
  BY <1>1, <1>2, Zenon DEF ApplyInputs, Exists
<1>4. CASE Exists(ChainFile("server"))
  <2>1. Exists(ChainFile("server"))'
    BY <1>1, <1>2, <1>4, Zenon DEF Exists
  <2>2. /\ disk'[CrtFile("ca")] = disk[CrtFile("ca")]
        /\ disk'[ChainFile("server")] = disk[ChainFile("server")]
        /\ disk'[KeyFile("server")] = disk[KeyFile("server")]
    BY <1>1, <1>2, <1>4, Zenon DEF Exists, ApplyInputs
  <2> QED
    BY <1>3, <1>4, <2>1, <2>2, Zenon DEF cmd_apply
<1>5. CASE ~Exists(ChainFile("server"))
  <2>1. ~Exists(ChainFile("server"))'
    BY <1>1, <1>2, <1>5, Zenon DEF Exists
  <2>2. /\ disk'[CrtFile("ca")] = disk[CrtFile("ca")]
        /\ disk'[CrtFile("server")] = disk[CrtFile("server")]
        /\ disk'[KeyFile("server")] = disk[KeyFile("server")]
    BY <1>1, <1>2, <1>5, Zenon DEF Exists, ApplyInputs
  <2> QED
    BY <1>3, <1>5, <2>1, <2>2, Zenon DEF cmd_apply
<1> QED
  BY <1>4, <1>5, Zenon

\* What a complete generate leaves.
LEMMA GeneratedFiles ==
  ASSUME NEW dk, NEW n, Complete(dk, Generated(n))
  PROVE  /\ CrtFile("ca") \in DOMAIN dk /\ dk[CrtFile("ca")] = <<Cert("ca", n, n)>>
         /\ KeyFile("server") \in DOMAIN dk /\ dk[KeyFile("server")] = <<Key("server", n)>>
         /\ CrtFile("server") \in DOMAIN dk
         /\ dk[CrtFile("server")] = <<Cert("server", n, n)>>
         /\ ChainFile("server") \in DOMAIN dk
         /\ dk[ChainFile("server")] = <<Cert("server", n, n), Cert("ca", n, n)>>
<1> DEFINE w == Generated(n)
<1>1. /\ w[2] = Write(CrtFile("ca"), <<Cert("ca", n, n)>>)
      /\ w[3] = Write(KeyFile("server"), <<Key("server", n)>>)
      /\ w[4] = Write(CrtFile("server"), <<Cert("server", n, n)>>)
      /\ w[5] = Write(ChainFile("server"), <<Cert("server", n, n), Cert("ca", n, n)>>)
  BY DEF Generated, _write_private_key, _write_cert, _write_cert_chain, generate_ca,
         generate_peer_cert, Cert
<1>2. Len(w) = 8 /\ Complete(dk, w)
  BY GeneratePlan
<1> HIDE DEF w
<1>3. \A i \in 1..8 : w[i].file \in DOMAIN dk /\ dk[w[i].file] = w[i].blocks
  BY <1>2 DEF Complete, OnDisk
<1>4. /\ w[2].file \in DOMAIN dk /\ dk[w[2].file] = w[2].blocks
      /\ w[3].file \in DOMAIN dk /\ dk[w[3].file] = w[3].blocks
      /\ w[4].file \in DOMAIN dk /\ dk[w[4].file] = w[4].blocks
      /\ w[5].file \in DOMAIN dk /\ dk[w[5].file] = w[5].blocks
  BY <1>3
<1>5. /\ w[2].file = CrtFile("ca") /\ w[2].blocks = <<Cert("ca", n, n)>>
      /\ w[3].file = KeyFile("server") /\ w[3].blocks = <<Key("server", n)>>
      /\ w[4].file = CrtFile("server") /\ w[4].blocks = <<Cert("server", n, n)>>
      /\ w[5].file = ChainFile("server")
      /\ w[5].blocks = <<Cert("server", n, n), Cert("ca", n, n)>>
  BY <1>1 DEF Write
<1> QED
  BY <1>4, <1>5, Zenon
\* A plan that is complete stays so when a file of another one is written.
LEMMA PutElsewhere ==
  ASSUME NEW dk, NEW dk2, NEW f, NEW b, AfterPut(dk2, dk, f, b),
         NEW w, NEW F, IsPlan(w, F), f \notin F, Complete(dk, w)
  PROVE  Complete(dk2, w)
<1>1. Len(w) \in Nat /\ \A i \in 1..Len(w) : w[i].file # f
  BY DEF IsPlan
<1> QED
  BY <1>1, PutKeeps, Zenon DEF Complete

\* While the bundle or the staging file is handed out, what it was made from exists.
LEMMA HandedInputs ==
  ASSUME IInv
  PROVE  whole => CanExport /\ ApplyInputs
<1> SUFFICES ASSUME whole PROVE CanExport /\ ApplyInputs
  OBVIOUS
<1>1. Complete(disk, Generated(gen))
  BY DEF IInv, Handed
<1>2. disk[CrtFile("server")] # <<>>
  BY <1>1, GeneratedFiles
<1> QED
  BY <1>1, <1>2, GeneratedFiles, Zenon DEF CanExport, ApplyInputs, Exists

\* Writing the file at hand spoils no hand-out.
LEMMA HandedKept ==
  ASSUME IInv, todo # <<>>, NEW b, AfterPut(disk', disk, Head(todo).file, b),
         UNCHANGED <<gen, whole, handed>>
  PROVE  Handed'
<1> DEFINE f == Head(todo).file
<1>1. Handed
  BY DEF IInv
<1>2. /\ whole => f \notin _GENERATE_OUTPUT_FILES
      /\ "bundle" \in handed => f \notin Bundle
      /\ "staging" \in handed => f # Staging
  BY FileAtHand, FilesDisjoint DEF Handed, AtGenerate, AtIni, AtExport, AtApply
<1>3. AfterPut(disk', disk, f, b)
  OBVIOUS
<1> HIDE DEF f
<1>4. whole' => Complete(disk', Generated(gen'))
  BY <1>1, <1>2, <1>3, GeneratePlan, PutElsewhere, Zenon DEF Handed
<1>5. ASSUME "bundle" \in handed PROVE Complete(disk', cmd_export')
  <2>1. cmd_export' = cmd_export
    BY <1>1, <1>2, <1>3, <1>5, SameExport, HandedInputs, Zenon DEF Handed
  <2>2. Complete(disk', cmd_export)
    BY <1>1, <1>2, <1>3, <1>5, ExportPlan, PutElsewhere, Zenon DEF Handed
  <2> QED
    BY <2>1, <2>2, Zenon
<1>6. ASSUME "staging" \in handed PROVE Complete(disk', cmd_apply')
  <2>1. cmd_apply' = cmd_apply
    BY <1>1, <1>2, <1>3, <1>6, SameApply, HandedInputs, Zenon DEF Handed
  <2>2. f \notin {Staging}
    BY <1>2, <1>6
  <2>3. Complete(disk', cmd_apply)
    BY <1>1, <2>2, <1>3, <1>6, ApplyPlan, PutElsewhere, Zenon DEF Handed
  <2> QED
    BY <2>1, <2>3, Zenon
<1>7. handed' \subseteq {"bundle", "staging"} /\ (handed' # {} => whole')
  BY <1>1 DEF Handed
<1> QED
  BY <1>4, <1>5, <1>6, <1>7, Zenon DEF Handed, Complete
-----------------------------------------------------------------------------
(* One step.                                                                *)

LEMMA TypeStep ==
  ASSUME IInv, [Next]_vars
  PROVE  TypeOK'
<1>1. disk' = [f \in DOMAIN disk' |-> disk'[f]]
  BY DiskStep DEF IInv, TypeOK, AfterPut
<1>2. open' \in BOOLEAN /\ whole' \in BOOLEAN
  <2> USE DEF IInv, TypeOK
  <2>1. CASE Command
    BY <2>1, Zenon DEF Command, Quickstart, Dispatch
  <2>2. CASE Generate \/ WriteIni \/ Export \/ Apply
    BY <2>2, Zenon DEF Generate, WriteIni, Export, Apply
  <2>3. CASE OpenFile \/ WriteFile \/ Return \/ Abort
    BY <2>3, Zenon DEF OpenFile, WriteFile, Return, Abort
  <2>4. CASE _read_pem_bytes \/ EndLoad \/ UNCHANGED vars
    BY <2>4, Zenon DEF _read_pem_bytes, EndLoad, vars, command
  <2> QED
    BY <2>1, <2>2, <2>3, <2>4 DEF Next
<1>3. cmd' \in [name : {"none"} \cup DOMAIN Stages, force : BOOLEAN] /\ gen' \in Nat
  <2> USE DEF IInv, TypeOK, NoCommand
  <2>1. CASE Command
    BY <2>1 DEF Command, Quickstart, Dispatch, Stages
  <2>2. CASE Generate \/ WriteIni \/ Export \/ Apply
    BY <2>2 DEF Generate, WriteIni, Export, Apply
  <2>3. NoCommand \in [name : {"none"} \cup DOMAIN Stages, force : BOOLEAN]
    OBVIOUS
  <2>4. CASE Return \/ Abort
    BY <2>3, <2>4, Zenon DEF Return, Abort
  <2>5. CASE OpenFile \/ WriteFile
    BY <2>5, Zenon DEF OpenFile, WriteFile
  <2>6. CASE _read_pem_bytes \/ EndLoad \/ UNCHANGED vars
    BY <2>6, Zenon DEF _read_pem_bytes, EndLoad, vars, command
  <2> QED
    BY <2>1, <2>2, <2>4, <2>5, <2>6 DEF Next
<1> QED
  BY <1>1, <1>2, <1>3, Zenon DEF TypeOK

LEMMA UntouchedStep ==
  ASSUME IInv, [Next]_vars
  PROVE  Untouched'
<1>1. DOMAIN disk \subseteq DOMAIN disk'
  BY DiskStep DEF AfterPut
<1>2. Untouched
  BY DEF IInv
<1>3. CASE cmd' = cmd /\ had' = had
  BY <1>1, <1>2, <1>3 DEF Untouched
<1>4. CASE had' = {}
  BY <1>4 DEF Untouched
<1>5. CASE Command
  <2>1. CASE \E force \in BOOLEAN : Quickstart(force)
    BY <2>1 DEF Quickstart, Dispatch, Untouched, _existing_outputs, Exists
  <2>2. CASE \E name \in {"generate", "export", "apply"}, force \in BOOLEAN :
               Dispatch(name, force)
    BY <2>2 DEF Dispatch, Untouched
  <2> QED
    BY <1>5, <2>1, <2>2 DEF Command
<1>6. CASE Generate \/ WriteIni \/ Export \/ Apply \/ OpenFile \/ WriteFile
  BY <1>3, <1>6 DEF Generate, WriteIni, Export, Apply, OpenFile, WriteFile
<1>7. CASE Return \/ Abort
  BY <1>4, <1>7 DEF Return, Abort
<1>8. CASE _read_pem_bytes \/ EndLoad \/ UNCHANGED vars
  BY <1>3, <1>8 DEF _read_pem_bytes, EndLoad, vars, command
<1> QED
  BY <1>5, <1>6, <1>7, <1>8 DEF Next

\* What a stage does when the file at hand is put there: td is what is left of it.
LEMMA PlanKept ==
  ASSUME IInv, todo # <<>>, NEW b, AfterPut(disk', disk, Head(todo).file, b),
         UNCHANGED <<cmd, stages, gen, had, whole, handed>>,
         \/ todo' = todo
         \/ todo' = Tail(todo) /\ b = Head(todo).blocks
  PROVE  (Generating \/ WritingIni \/ Exporting \/ Applying)'
<1>1. ASSUME NEW w, NEW F, IsPlan(w, F), Underway(disk, w, todo)
      PROVE  Underway(disk', w, todo')
  <2>1. CASE todo' = todo
    BY <1>1, <2>1, OpenAtHand, Zenon
  <2>2. CASE todo' = Tail(todo) /\ b = Head(todo).blocks
    BY <1>1, <2>2, WriteAtHand, Zenon
  <2> QED
    BY <2>1, <2>2
<1>2. Generating \/ WritingIni \/ Exporting \/ Applying
  BY DEF IInv, Plan, Idle, AtOutset
<1>3. CASE Generating
  <2>1. Underway(disk', Generated(gen), todo')
    BY <1>1, <1>3, GeneratePlan, Zenon DEF Generating
  <2> QED
    BY <1>3, <2>1, Zenon DEF Generating, AtGenerate
<1>4. CASE WritingIni
  <2>1. Underway(disk', IniWrites, todo') /\ IniWrites' = IniWrites
    BY <1>1, <1>4, IniPlan, Zenon DEF WritingIni, IniWrites
  <2> QED
    BY <1>4, <2>1, Zenon DEF WritingIni, AtIni
<1>5. CASE Exporting
  <2>1. Underway(disk', cmd_export, todo')
    BY <1>1, <1>5, ExportPlan, Zenon DEF Exporting
  <2>2. Head(todo).file \notin _GENERATE_OUTPUT_FILES
    BY <1>5, FileAtHand, FilesDisjoint
       DEF Exporting, AtGenerate, AtIni, AtExport, AtApply
  <2>3. cmd_export' = cmd_export /\ CanExport'
    BY <1>5, <2>2, SameExport, Zenon DEF Exporting
  <2> QED
    BY <1>5, <2>1, <2>3, Zenon DEF Exporting, AtExport
<1>6. CASE Applying
  <2>1. Underway(disk', cmd_apply, todo')
    BY <1>1, <1>6, ApplyPlan, Zenon DEF Applying
  <2>2. Head(todo).file \notin _GENERATE_OUTPUT_FILES
    BY <1>6, FileAtHand, FilesDisjoint
       DEF Applying, AtGenerate, AtIni, AtExport, AtApply
  <2>3. cmd_apply' = cmd_apply /\ ApplyInputs'
    BY <1>6, <2>2, SameApply, Zenon DEF Applying
  <2> QED
    BY <1>6, <2>1, <2>3, Zenon DEF Applying, AtApply
<1> QED
  BY <1>2, <1>3, <1>4, <1>5, <1>6, Zenon

\* A step that moves neither the disk nor what Plan reads keeps it.
LEMMA PlanFrame ==
  ASSUME Plan, UNCHANGED <<disk, command, gen, had, whole, handed>>
  PROVE  Plan'
<1> USE DEF command
<1>1. IniWrites' = IniWrites /\ cmd_export' = cmd_export /\ cmd_apply' = cmd_apply
  BY Zenon DEF IniWrites, cmd_export, cmd_apply, Exists
<1>2. /\ Idle' = Idle /\ AtOutset' = AtOutset /\ AtGenerate' = AtGenerate /\ AtIni' = AtIni
      /\ AtExport' = AtExport /\ AtApply' = AtApply
  BY Zenon DEF Idle, AtOutset, AtGenerate, AtIni, AtExport, AtApply
<1>3. (Generating => Generating') /\ (WritingIni => WritingIni')
  BY <1>1, <1>2, Zenon DEF Generating, WritingIni
<1>4. (Exporting => Exporting') /\ (Applying => Applying')
  BY <1>1, <1>2, Zenon DEF Exporting, Applying, CanExport, ApplyInputs, Exists
<1> QED
  BY <1>2, <1>3, <1>4, Zenon DEF Plan

\* A stage begins where the last one ended, or at the outset.
LEMMA StageBegins ==
  ASSUME IInv, NEW s, Stage(s)
  PROVE  /\ ~open
         /\ \/ s = "generate" /\ cmd.name = "generate" /\ Tail(stages) = <<>>
            \/ s = "generate" /\ cmd.name = "quickstart" /\ Tail(stages) = <<"ini", "export">>
            \/ /\ s = "ini" /\ cmd.name = "quickstart" /\ Tail(stages) = <<"export">>
               /\ Complete(disk, Generated(gen)) /\ ~whole
            \/ s = "export" /\ cmd.name \in {"export", "quickstart"} /\ Tail(stages) = <<>>
            \/ s = "apply" /\ cmd.name = "apply" /\ Tail(stages) = <<>>
<1>1. stages # <<>> /\ Head(stages) = s /\ todo = <<>>
  BY DEF Stage
<1>2. AtOutset \/ Generating \/ WritingIni
  BY <1>1 DEF IInv, Plan, Idle, Exporting, Applying, AtExport, AtApply
<1>3. ~open
  BY <1>1 DEF IInv, Plan, TypeOK
<1>4. CASE Generating
  <2>1. Complete(disk, Generated(gen)) /\ ~whole
    BY <1>1, <1>4, GeneratePlan, Ends, Zenon DEF Generating
  <2>2. cmd.name = "quickstart" /\ stages = <<"ini", "export">>
    BY <1>1, <1>4, Zenon DEF Generating, AtGenerate
  <2>3. s = "ini" /\ Tail(stages) = <<"export">>
    BY <1>1, <2>2
  <2> QED
    BY <1>3, <2>1, <2>2, <2>3
<1>5. CASE WritingIni
  <2>1. cmd.name = "quickstart" /\ stages = <<"export">>
    BY <1>5, Zenon DEF WritingIni, AtIni
  <2>2. s = "export" /\ Tail(stages) = <<>>
    BY <1>1, <2>1
  <2> QED
    BY <1>3, <2>1, <2>2
<1>6. CASE AtOutset
  <2>1. \/ cmd.name = "generate" /\ stages = <<"generate">>
        \/ cmd.name = "export" /\ stages = <<"export">>
        \/ cmd.name = "apply" /\ stages = <<"apply">>
        \/ cmd.name = "quickstart" /\ stages = <<"generate", "ini", "export">>
    BY <1>6 DEF AtOutset, Stages
  <2>2. CASE cmd.name = "generate" /\ stages = <<"generate">>
    BY <1>1, <1>3, <2>2
  <2>3. CASE cmd.name = "export" /\ stages = <<"export">>
    BY <1>1, <1>3, <2>3
  <2>4. CASE cmd.name = "apply" /\ stages = <<"apply">>
    BY <1>1, <1>3, <2>4
  <2>5. CASE cmd.name = "quickstart" /\ stages = <<"generate", "ini", "export">>
    <3>1. s = "generate" /\ Tail(stages) = <<"ini", "export">>
      BY <1>1, <2>5
    <3> QED
      BY <1>3, <2>5, <3>1
  <2> QED
    BY <2>1, <2>2, <2>3, <2>4, <2>5
<1> QED
  BY <1>2, <1>4, <1>5, <1>6

LEMMA GenerateStep ==
  ASSUME IInv, Generate
  PROVE  Plan' /\ Handed'
<1>1. Stage("generate") /\ UNCHANGED <<cmd, open>> /\ stages' = Tail(stages)
  BY DEF Generate
<1>2. AtGenerate' /\ ~open'
  BY <1>1, StageBegins DEF AtGenerate
<1>3. todo' = Generated(gen') /\ ~whole' /\ handed' = {}
  BY Zenon DEF Generate, cmd_generate
<1>4. Underway(disk', Generated(gen'), todo')
  BY <1>3, GeneratePlan, Begins, Zenon
<1> QED
  BY <1>2, <1>3, <1>4 DEF Plan, Generating, Handed

LEMMA WriteIniStep ==
  ASSUME IInv, WriteIni
  PROVE  Plan' /\ Handed'
<1>1. Stage("ini") /\ UNCHANGED <<cmd, open>> /\ stages' = Tail(stages)
  BY DEF WriteIni
<1>2. Complete(disk, Generated(gen)) /\ ~whole
  BY <1>1, StageBegins
<1>3. handed = {}
  BY <1>2 DEF IInv, Handed
<1>4. AtIni' /\ ~open'
  BY <1>1, StageBegins DEF AtIni
<1>5. todo' = IniWrites'
  BY DEF WriteIni, IniWrites
<1>6. IsPlan(IniWrites', {Ini})
  <2>1. IniWrites' = IniWrites
    BY DEF WriteIni, IniWrites
  <2> QED
    BY <2>1, IniPlan, Zenon
<1>7. Underway(disk', IniWrites', todo')
  BY <1>5, <1>6, Begins, Zenon
<1>8. Plan'
  BY <1>4, <1>5, <1>7, Zenon DEF Plan, WritingIni
<1>9. Handed'
  BY <1>2, <1>3 DEF WriteIni, Handed
<1> QED
  BY <1>8, <1>9

LEMMA ExportStep ==
  ASSUME IInv, Export
  PROVE  Plan' /\ Handed'
<1>1. AtExport' /\ ~open'
  <2>1. Stage("export") /\ UNCHANGED <<cmd, open>> /\ stages' = Tail(stages)
    BY DEF Export
  <2> QED
    BY <2>1, StageBegins DEF AtExport
<1>2. cmd_export' = cmd_export /\ cmd_apply' = cmd_apply /\ CanExport'
  BY Zenon DEF Export, cmd_export, cmd_apply, Exists, CanExport
<1>3. todo' = cmd_export' /\ "bundle" \notin handed'
  BY <1>2 DEF Export
<1>4. Underway(disk', cmd_export', todo')
  BY <1>2, <1>3, ExportPlan, Begins, Zenon
<1>5. Plan'
  BY <1>1, <1>2, <1>3, <1>4, Zenon DEF Plan, Exporting
<1>6. UNCHANGED <<disk, gen, whole>> /\ handed' \subseteq handed
  BY DEF Export
<1>7. Handed'
  BY <1>2, <1>3, <1>6 DEF Handed, IInv
<1> QED
  BY <1>5, <1>7

LEMMA ApplyStep ==
  ASSUME IInv, Apply
  PROVE  Plan' /\ Handed'
<1>1. AtApply' /\ ~open'
  <2>1. Stage("apply") /\ UNCHANGED <<cmd, open>> /\ stages' = Tail(stages)
    BY DEF Apply
  <2> QED
    BY <2>1, StageBegins DEF AtApply
<1>2. cmd_export' = cmd_export /\ cmd_apply' = cmd_apply /\ ApplyInputs'
  BY Zenon DEF Apply, cmd_export, cmd_apply, Exists, CanApply, ApplyInputs
<1>3. todo' = cmd_apply' /\ "staging" \notin handed'
  BY <1>2 DEF Apply
<1>4. cmd'.force \/ Staging \notin had'
  BY DEF Apply, CanApply, Exists, IInv, Untouched
<1>5. Underway(disk', cmd_apply', todo')
  BY <1>2, <1>3, ApplyPlan, Begins, Zenon
<1>6. Plan'
  BY <1>1, <1>2, <1>3, <1>4, <1>5, Zenon DEF Plan, Applying
<1>7. UNCHANGED <<disk, gen, whole>> /\ handed' \subseteq handed
  BY DEF Apply
<1>8. Handed'
  BY <1>2, <1>3, <1>7 DEF Handed, IInv
<1> QED
  BY <1>6, <1>8

LEMMA DispatchStep ==
  ASSUME IInv, Command
  PROVE  Plan' /\ Handed'
<1>1. PICK name \in DOMAIN Stages, force \in BOOLEAN : Dispatch(name, force)
  BY DEF Command, Quickstart, Stages
<1>2. todo = <<>> /\ ~open
  BY <1>1 DEF Dispatch, NoCommand, IInv, Plan, Idle, AtOutset, Stages, TypeOK, Generating,
              WritingIni, Exporting, Applying, AtGenerate, AtIni, AtExport, AtApply
<1>3. AtOutset' /\ ~open'
  BY <1>1, <1>2 DEF Dispatch, AtOutset
<1>4. UNCHANGED <<disk, gen, whole, handed>>
  BY <1>1 DEF Dispatch
<1>5. Handed'
  BY <1>4, Zenon DEF IInv, Handed, cmd_export, cmd_apply, Exists
<1> QED
  BY <1>3, <1>5, Zenon DEF Plan

LEMMA WriteStep ==
  ASSUME IInv, OpenFile \/ WriteFile
  PROVE  Plan' /\ Handed'
<1>1. todo # <<>>
  BY DEF IInv, Plan, OpenFile, WriteFile
<1>2. UNCHANGED <<cmd, stages, gen, had, whole, handed>>
  BY DEF OpenFile, WriteFile
<1>3. CASE OpenFile
  <2>1. AfterPut(disk', disk, Head(todo).file, <<>>) /\ todo' = todo
    BY <1>3, Zenon DEF OpenFile, Put, AfterPut
  <2>2. (Generating \/ WritingIni \/ Exporting \/ Applying)' /\ Handed'
    BY <1>1, <1>2, <2>1, PlanKept, HandedKept, Zenon
  <2> QED
    BY <1>1, <2>1, <2>2, Zenon DEF Plan
<1>4. CASE WriteFile
  <2>1. AfterPut(disk', disk, Head(todo).file, Head(todo).blocks) /\ todo' = Tail(todo)
    BY <1>4, Zenon DEF WriteFile, Put, AfterPut
  <2>2. (Generating \/ WritingIni \/ Exporting \/ Applying)' /\ Handed'
    BY <1>1, <1>2, <2>1, PlanKept, HandedKept, Zenon
  <2>3. ~open'
    BY <1>4, Zenon DEF WriteFile
  <2> QED
    BY <2>2, <2>3, Zenon DEF Plan
<1> QED
  BY <1>3, <1>4

LEMMA ReturnStep ==
  ASSUME IInv, Return
  PROVE  Plan' /\ Handed'
<1>1. cmd # NoCommand /\ stages = <<>> /\ todo = <<>> /\ UNCHANGED <<disk, open, gen>>
  BY DEF Return
<1>2. Idle'
  BY <1>1 DEF Return, Idle, IInv, Plan, TypeOK
<1>3. Generating \/ Exporting \/ Applying
  BY <1>1 DEF IInv, Plan, Idle, AtOutset, Stages, WritingIni, AtIni
<1>4. cmd_export' = cmd_export /\ cmd_apply' = cmd_apply
  BY <1>1, Zenon DEF cmd_export, cmd_apply, Exists
<1>5. CASE Generating
  <2>1. Complete(disk, Generated(gen)) /\ ~whole
    BY <1>1, <1>5, GeneratePlan, Ends, Zenon DEF Generating
  <2>2. handed' = handed
    BY <2>1 DEF Return
  <2> QED
    BY <1>1, <1>2, <1>4, <2>1, <2>2 DEF Plan, Handed, IInv, Idle
<1>6. ASSUME Exporting \/ Applying
      PROVE  whole' = whole
  BY <1>1, <1>6 DEF Return, Exporting, Applying, AtExport, AtApply, IInv, TypeOK
<1>7. CASE Exporting
  <2>1. Complete(disk, cmd_export) /\ cmd.name \in {"export", "quickstart"}
    BY <1>1, <1>7, ExportPlan, Ends, Zenon DEF Exporting, AtExport
  <2>2. handed' = handed \cup IF ~whole THEN {} ELSE {"bundle"}
    BY <2>1 DEF Return
  <2> QED
    BY <1>1, <1>2, <1>4, <1>6, <1>7, <2>1, <2>2 DEF Plan, Handed, IInv, Idle
<1>8. CASE Applying
  <2>1. Complete(disk, cmd_apply) /\ cmd.name = "apply"
    BY <1>1, <1>8, ApplyPlan, Ends, Zenon DEF Applying, AtApply
  <2>2. handed' = handed \cup IF ~whole THEN {} ELSE {"staging"}
    BY <2>1 DEF Return
  <2> QED
    BY <1>1, <1>2, <1>4, <1>6, <1>8, <2>1, <2>2 DEF Plan, Handed, IInv, Idle
<1> QED
  BY <1>3, <1>5, <1>7, <1>8

LEMMA AbortStep ==
  ASSUME IInv, Abort
  PROVE  Plan' /\ Handed'
<1>1. Idle' /\ UNCHANGED <<gen, whole, handed>>
  BY DEF Abort, Idle
<1>2. CASE UNCHANGED disk
  BY <1>1, <1>2, Zenon DEF IInv, Handed, Plan, Idle, cmd_export, cmd_apply, Exists
<1>3. CASE disk' # disk
  <2>1. open /\ todo # <<>>
    BY <1>3, Zenon DEF Abort, IInv, Plan
  <2>2. PICK k : disk' = Put(Head(todo).file, SubSeq(Head(todo).blocks, 1, k))
    BY <1>3, Zenon DEF Abort
  <2>3. AfterPut(disk', disk, Head(todo).file, SubSeq(Head(todo).blocks, 1, k))
    BY <2>2, Zenon DEF Put, AfterPut
  <2>4. Handed'
    BY <1>1, <2>1, <2>3, HandedKept, Zenon
  <2> QED
    BY <1>1, <2>4, Zenon DEF Plan, Idle
<1> QED
  BY <1>2, <1>3
-----------------------------------------------------------------------------
(* The invariant, and what follows from it.                                 *)

LEMMA InitIInv == Init => IInv
<1> SUFFICES ASSUME Init PROVE IInv
  OBVIOUS
<1>1. TypeOK
  BY DEF Init, TypeOK, NoCommand
<1>2. Plan
  BY DEF Init, Plan, Idle
<1>3. Untouched /\ Handed
  BY DEF Init, Untouched, Handed, NoCommand
<1> QED
  BY <1>1, <1>2, <1>3 DEF IInv

LEMMA NextIInv == IInv /\ [Next]_vars => IInv'
<1> SUFFICES ASSUME IInv, [Next]_vars PROVE Plan' /\ Handed'
  BY TypeStep, UntouchedStep, Zenon DEF IInv
<1>1. CASE Command
  BY <1>1, DispatchStep
<1>2. CASE Generate
  BY <1>2, GenerateStep
<1>3. CASE WriteIni
  BY <1>3, WriteIniStep
<1>4. CASE Export
  BY <1>4, ExportStep
<1>5. CASE Apply
  BY <1>5, ApplyStep
<1>6. CASE OpenFile \/ WriteFile
  BY <1>6, WriteStep
<1>7. CASE Return
  BY <1>7, ReturnStep
<1>8. CASE Abort
  BY <1>8, AbortStep
<1>9. CASE _read_pem_bytes \/ EndLoad \/ UNCHANGED vars
  <2>1. UNCHANGED <<disk, command, gen, had, whole, handed>>
    BY <1>9, Zenon DEF _read_pem_bytes, EndLoad, vars
  <2>2. Handed'
    BY <2>1, Zenon DEF IInv, Handed, cmd_export, cmd_apply, Exists
  <2> QED
    BY <2>1, <2>2, PlanFrame, Zenon DEF IInv
<1> QED
  BY <1>1, <1>2, <1>3, <1>4, <1>5, <1>6, <1>7, <1>8, <1>9 DEF Next

LEMMA Invariant == Spec => []IInv
BY InitIInv, NextIInv, PTL DEF Spec

\* NO CLOBBER.  In any directory earlier commands left, a quickstart or an apply without
\* --force (gen_fed_ca.py, quickstart.py) changes no file that was there when it began.
THEOREM NothingClobbered == Spec => NoClobber
<1>1. ASSUME IInv, [Next]_vars, cmd.name \in {"quickstart", "apply"}, ~cmd.force,
             NEW f \in had
      PROVE  f \in DOMAIN disk' /\ disk'[f] = disk[f]
  <2>1. f \in DOMAIN disk
    BY <1>1 DEF IInv, Untouched
  <2>2. CASE disk' = disk
    BY <2>1, <2>2
  <2>3. CASE todo # <<>> /\ \E b : AfterPut(disk', disk, Head(todo).file, b)
    <3>1. Head(todo).file # f
      BY <1>1, <2>3, FileAtHand
         DEF IInv, Untouched, AtGenerate, AtIni, AtExport, AtApply
    <3> QED
      BY <2>1, <2>3, <3>1 DEF AfterPut
  <2> QED
    BY <1>1, <2>2, <2>3, DiskStep
<1>2. IInv /\ [Next]_vars =>
        [cmd.name \in {"quickstart", "apply"} /\ ~cmd.force =>
           \A f \in had : f \in DOMAIN disk' /\ disk'[f] = disk[f]]_vars
  BY <1>1
<1> QED
  BY <1>2, Invariant, PTL DEF Spec, NoClobber

\* HAND-OUTS ACCEPTED.  However many generates, exports and applies ran or were cut off, a
\* bundle or a staging file completed since the last complete generate fits the files the
\* server presents (cmd_export, cmd_apply of gen_fed_ca.py, quickstart.py).
THEOREM HandOutsFit == Spec => []HandOutsAccepted
<1>1. ASSUME IInv PROVE HandOutsAccepted
  <2> DEFINE ca == Cert("ca", gen, gen)
             leaf == Cert("server", gen, gen)
             stanza == Fingerprint(leaf)
  <2>1. ASSUME whole
        PROVE  /\ disk[CrtFile("ca")] = <<ca>>
               /\ disk[KeyFile("server")] = <<Key("server", gen)>>
               /\ disk[CrtFile("server")] = <<leaf>>
               /\ disk[ChainFile("server")] = <<leaf, ca>> /\ Exists(ChainFile("server"))
    BY <1>1, <2>1, GeneratedFiles DEF IInv, Handed, Exists
  <2>2. Accepts(<<ca>>, <<stanza>>, <<leaf, ca>>)
    BY DEF Accepts, Fingerprint, Cert
  <2>3. ASSUME "bundle" \in handed, NEW s \in {"stanza.ini", "stanza.xml", "README.md"}
        PROVE  disk[Bundled("fed-ca.crt")] = <<ca>> /\ disk[Bundled(s)] = <<stanza>>
    <3>1. Complete(disk, cmd_export) /\ whole
      BY <1>1, <2>3 DEF IInv, Handed
    <3>2. Stanza(disk[CrtFile("server")][1]) = <<stanza>>
      BY <2>1, <3>1 DEF Stanza
    <3>3. /\ cmd_export[1].file = Bundled("fed-ca.crt") /\ cmd_export[1].blocks = <<ca>>
          /\ cmd_export[2].file = Bundled("stanza.ini") /\ cmd_export[2].blocks = <<stanza>>
          /\ cmd_export[3].file = Bundled("stanza.xml") /\ cmd_export[3].blocks = <<stanza>>
          /\ cmd_export[4].file = Bundled("README.md") /\ cmd_export[4].blocks = <<stanza>>
      BY <2>1, <3>1, <3>2 DEF cmd_export, Write
    <3>4. \A i \in 1..4 : disk[cmd_export[i].file] = cmd_export[i].blocks
      BY <3>1, ExportPlan DEF Complete, OnDisk
    <3>5. /\ disk[cmd_export[1].file] = cmd_export[1].blocks
          /\ disk[cmd_export[2].file] = cmd_export[2].blocks
          /\ disk[cmd_export[3].file] = cmd_export[3].blocks
          /\ disk[cmd_export[4].file] = cmd_export[4].blocks
      BY <3>4
    <3> QED
      BY <2>3, <3>3, <3>5, Zenon
  <2>4. ASSUME "staging" \in handed
        PROVE  disk[Staging] = <<Staged(<<ca>>, <<leaf, ca>>, <<Key("server", gen)>>)>>
    <3>1. Complete(disk, cmd_apply) /\ whole
      BY <1>1, <2>4 DEF IInv, Handed
    <3>2. /\ cmd_apply[1].file = Staging
          /\ cmd_apply[1].blocks =
               <<Staged(disk[CrtFile("ca")], disk[ChainFile("server")],
                        disk[KeyFile("server")])>>
      BY <2>1, <3>1 DEF cmd_apply, Write
    <3>3. disk[cmd_apply[1].file] = cmd_apply[1].blocks
      BY <3>1, ApplyPlan DEF Complete, OnDisk
    <3> QED
      BY <2>1, <3>1, <3>2, <3>3, Zenon
  <2>5. Head(<<leaf, ca>>) = leaf /\ Stanza(leaf) = <<stanza>>
    BY DEF Stanza
  <2>6. Key("server", gen).gen = leaf.gen /\ Len(<<Key("server", gen)>>) = 1
    BY DEF Key, Cert
  <2>7. handed # {} => whole
    BY <1>1 DEF IInv, Handed
  <2> HIDE DEF ca, leaf, stanza
  <2> QED
    BY <2>1, <2>2, <2>3, <2>4, <2>5, <2>6, <2>7 DEF HandOutsAccepted
<1> QED
  BY <1>1, Invariant, PTL
-----------------------------------------------------------------------------
(* The engine's loads.                                                      *)

LEMMA FunctionIsSequence ==
  ASSUME NEW T, NEW n \in Nat, NEW t \in [1..n -> T]
  PROVE  t \in Seq(T)
<1>1. [1..n -> T] \in {[1..m -> T] : m \in Nat}
  OBVIOUS
<1> QED
  BY <1>1, SeqDef, Zenon

\* What is read is appended to what was read.
LEMMA OneMore ==
  ASSUME NEW s, IsSequence(s), NEW e, NEW t, t = Append(s, e)
  PROVE  /\ IsSequence(t) /\ Len(s) \in Nat /\ Len(t) = Len(s) + 1 /\ t[Len(s) + 1] = e
         /\ \A i \in 1..Len(s) : t[i] = s[i]
<1> DEFINE S == {s[i] : i \in DOMAIN s} \cup {e}
<1>1. s \in Seq(S)
  BY SeqMonotonic DEF IsSequence
<1> HIDE DEF S
<1>2. e \in S
  BY DEF S
<1>3. /\ Len(s) \in Nat /\ t \in Seq(S) /\ Len(t) = Len(s) + 1 /\ t[Len(s) + 1] = e
      /\ \A i \in 1..Len(s) : t[i] = s[i]
  BY <1>1, <1>2
<1>4. IsSequence(t)
  <2>1. t \in [1..Len(t) -> S] /\ DOMAIN t = 1..Len(t) /\ Len(t) \in Nat
    BY <1>3, LenProperties
  <2> DEFINE T == {t[i] : i \in DOMAIN t}
  <2>2. t \in [1..Len(t) -> T]
    BY <2>1
  <2> HIDE DEF T
  <2>3. t \in Seq(T)
    BY <2>1, <2>2, FunctionIsSequence, Zenon
  <2> QED
    BY <2>3 DEF T, IsSequence
<1> QED
  BY <1>3, <1>4

LEMMA ReadStep ==
  ASSUME Loaded, _read_pem_bytes
  PROVE  Loaded'
<1> DEFINE n == Len(seen)
           f == _PATHS[1 + (n % 3)]
<1>1. n < 6 /\ Exists(f) /\ seen' = Append(seen, disk[f]) /\ UNCHANGED <<disk, touched>>
  BY DEF _read_pem_bytes
<1>2. /\ n \in Nat /\ Len(seen') = n + 1 /\ seen'[n + 1] = disk[f]
      /\ \A i \in 1..n : seen'[i] = seen[i]
      /\ IsSequence(seen')
  <2>1. IsSequence(seen)
    BY DEF Loaded
  <2> DEFINE e == disk[f]
             t == seen'
  <2>2. t = Append(seen, e)
    BY <1>1
  <2> HIDE DEF e, t
  <2>3. IsSequence(t) /\ Len(seen) \in Nat /\ Len(t) = Len(seen) + 1
    BY <2>1, <2>2, OneMore, Zenon
  <2>4. t[Len(seen) + 1] = e
    BY <2>1, <2>2, OneMore, Zenon
  <2>5. \A i \in 1..Len(seen) : t[i] = seen[i]
    BY <2>1, <2>2, OneMore
  <2> QED
    BY <2>3, <2>4, <2>5, Zenon DEF e, t
<1>3. f = PathOf(n + 1)
  <2>1. (n + 1) - 1 = n
    BY <1>2
  <2> QED
    BY <2>1, Zenon DEF PathOf
<1> HIDE DEF n, f
<1>4. ASSUME ~touched', NEW i \in 1..(n + 1)
      PROVE  PathOf(i) \in DOMAIN disk' /\ seen'[i] = disk'[PathOf(i)]
  <2>1. CASE i = n + 1
    BY <1>1, <1>2, <1>3, <2>1, Zenon DEF Exists
  <2>2. CASE i \in 1..n
    BY <1>1, <1>2, <1>4, <2>2, Zenon DEF Loaded, Exists, n
  <2> QED
    BY <1>2, <2>1, <2>2
<1>5. ASSUME n + 1 >= 3 PROVE _validate_pem_with_ssl(seen'[1], seen'[2], seen'[3])
  <2>1. CASE n + 1 = 3
    BY <1>2, <2>1, Zenon DEF _read_pem_bytes
  <2>2. CASE n >= 3
    <3>1. seen'[1] = seen[1] /\ seen'[2] = seen[2] /\ seen'[3] = seen[3]
      BY <1>2, <2>2
    <3>2. _validate_pem_with_ssl(seen[1], seen[2], seen[3])
      BY <2>2 DEF Loaded, n
    <3> QED
      BY <3>1, <3>2, Zenon
  <2> QED
    BY <1>2, <1>5, <2>1, <2>2
<1>6. Len(seen') <= 6
  BY <1>1, <1>2
<1> QED
  BY <1>2, <1>4, <1>5, <1>6, Zenon DEF Loaded, Exists

\* A step that writes marks the load as disturbed.
LEMMA WriteTouches ==
  ASSUME [Next]_vars, seen' # <<>>, ~touched'
  PROVE  disk' = disk /\ ~touched
<1>1. CASE OpenFile \/ WriteFile
  BY <1>1, Zenon DEF OpenFile, WriteFile
<1>2. CASE Abort
  BY <1>2, Zenon DEF Abort
<1>3. CASE disk' = disk /\ touched' = touched
  BY <1>3, Zenon
<1>4. CASE Command
  BY <1>3, <1>4 DEF Command, Quickstart, Dispatch, engine
<1>5. CASE Generate \/ WriteIni \/ Export \/ Apply \/ Return
  BY <1>3, <1>5 DEF Generate, WriteIni, Export, Apply, Return, engine
<1>6. CASE _read_pem_bytes \/ EndLoad \/ UNCHANGED vars
  BY <1>3, <1>6 DEF _read_pem_bytes, EndLoad, vars, engine
<1> QED
  BY <1>1, <1>2, <1>4, <1>5, <1>6 DEF Next

LEMMA LoadedStep == Loaded /\ [Next]_vars => Loaded'
<1> SUFFICES ASSUME Loaded, [Next]_vars PROVE Loaded'
  OBVIOUS
<1>1. CASE _read_pem_bytes
  BY <1>1, ReadStep
<1>2. CASE seen' = <<>>
  BY <1>2 DEF Loaded, IsSequence
<1>3. CASE seen' = seen /\ seen' # <<>>
  <2>1. ~touched' => disk' = disk /\ ~touched
    BY <1>3, WriteTouches
  <2> QED
    BY <1>3, <2>1, Zenon DEF Loaded, Exists
<1>4. _read_pem_bytes \/ seen' = <<>> \/ seen' = seen
  <2>1. CASE Command
    BY <2>1, Zenon DEF Command, Quickstart, Dispatch, engine
  <2>2. CASE Generate \/ WriteIni \/ Export \/ Apply
    BY <2>2, Zenon DEF Generate, WriteIni, Export, Apply, engine
  <2>3. CASE OpenFile \/ WriteFile \/ Return \/ Abort
    BY <2>3, Zenon DEF OpenFile, WriteFile, Return, Abort, engine
  <2>4. CASE _read_pem_bytes \/ EndLoad \/ UNCHANGED vars
    BY <2>4, Zenon DEF EndLoad, vars, engine
  <2> QED
    BY <2>1, <2>2, <2>3, <2>4 DEF Next
<1> QED
  BY <1>1, <1>2, <1>3, <1>4

\* LOADED MATCH.  Whatever commands were cut off before, credentials the engine loaded while
\* nobody wrote (build_grpc_server_credentials, build_grpc_client_credentials of tls.py) hold
\* a key and its certificate: the files used are the files that were validated.
THEOREM LoadsMatch == Spec => []LoadedMatch
<1>1. Init => Loaded
  BY DEF Init, Loaded, IsSequence
<1>2. ASSUME Loaded PROVE LoadedMatch
  <2> SUFFICES ASSUME Len(seen) = 6, ~touched
               PROVE  /\ seen[5] # <<>> /\ seen[6] # <<>>
                      /\ seen[5][1].gen = seen[6][1].gen
    BY DEF LoadedMatch
  <2>1. \A i \in 1..6 : seen[i] = disk[PathOf(i)]
    BY <1>2 DEF Loaded
  <2>2. PathOf(5) = PathOf(2) /\ PathOf(6) = PathOf(3)
    BY DEF PathOf
  <2>3. seen[5] = seen[2] /\ seen[6] = seen[3]
    BY <2>1, <2>2
  <2>4. _validate_pem_with_ssl(seen[1], seen[2], seen[3])
    BY <1>2 DEF Loaded
  <2> QED
    BY <2>3, <2>4 DEF _validate_pem_with_ssl
<1> QED
  BY <1>1, <1>2, LoadedStep, PTL DEF Spec
=============================================================================
