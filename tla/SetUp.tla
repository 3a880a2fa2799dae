------------------------------- MODULE SetUp -------------------------------
(***************************************************************************)
(* The files a federated server is set up from: ots-fed-certs (generate,    *)
(* export, apply; gen_fed_ca.py), ots-federation-quickstart, which runs     *)
(* generate and export itself, and the engine, which loads its credentials  *)
(* from the same files (tls.py).                                            *)
(*                                                                          *)
(* A file is the sequence of its blocks: keys, certificates, the            *)
(* fingerprint of a stanza, text.  A command opens a file, which empties    *)
(* it, and then writes it; it may be killed, or fail, at any point and      *)
(* leaves what it has written of the open file.  Nothing is undone, so the  *)
(* next command meets any such directory.  One command runs at a time; the  *)
(* engine may load while it does.                                           *)
(***************************************************************************)
EXTENDS Naturals, Sequences

CONSTANT MaxGenerations   \* bound on the generate commands

ASSUME SetUpAssumption == MaxGenerations \in Nat \ {0}

VARIABLES
  disk,       \* files that exist, with their blocks
  cmd,        \* the command that runs, and whether with --force
  stages,     \* what it has still to do after the writes at hand
  todo,       \* the writes at hand
  open,       \* the first of them is open and empty
  gen,        \* generations of keys drawn so far
  seen,       \* what the engine has read so far: six reads are a load
  had,        \* history: the files that existed when a command without --force began
  whole,      \* history: the last generate ran to its end
  handed,     \* history: hand-outs that were completed since
  touched     \* history: a file was written while the engine loaded

command == <<cmd, stages, todo, open>>
engine == <<seen, touched>>
vars == <<disk, command, gen, engine, had, whole, handed>>
-----------------------------------------------------------------------------
(* Keys, certificates and files.                                           *)

Key(who, n) == [block |-> "key", of |-> who, gen |-> n, signer |-> 0]
Cert(who, n, ca) == [block |-> "cert", of |-> who, gen |-> n, signer |-> ca]
Fingerprint(cert) == [cert EXCEPT !.block = "fingerprint"]
Text(n) == [block |-> "text", of |-> "", gen |-> n, signer |-> 0]

generate_ca(n) == [key |-> Key("ca", n), cert |-> Cert("ca", n, n)]
generate_peer_cert(who, n, ca) == [key |-> Key(who, n), cert |-> Cert(who, n, ca.cert.gen)]

Stems == {"server", "client"}
KeyFile(who) == <<who, "key">>
CrtFile(who) == <<who, "crt">>
ChainFile(who) == <<who, "chain">>
Ini == <<"federation", "ini">>
Staging == <<"ots-federation.plaintext", "yml">>
Bundled(f) == <<"export-bundle", f>>
Bundle == {Bundled(f) : f \in {"fed-ca.crt", "stanza.ini", "stanza.xml", "README.md"}}

_GENERATE_OUTPUT_FILES ==
  {KeyFile("ca"), CrtFile("ca")}
  \cup {KeyFile(who) : who \in Stems} \cup {CrtFile(who) : who \in Stems}
  \cup {ChainFile(who) : who \in Stems}

Exists(f) == f \in DOMAIN disk
Put(f, blocks) == [x \in DOMAIN disk \cup {f} |-> IF x = f THEN blocks ELSE disk[x]]
-----------------------------------------------------------------------------
(* What the commands write, in order.                                      *)

Write(f, blocks) == [file |-> f, blocks |-> blocks]

_write_private_key(who, id) == Write(KeyFile(who), <<id.key>>)
_write_cert(who, id) == Write(CrtFile(who), <<id.cert>>)
_write_cert_chain(who, id, ca) == Write(ChainFile(who), <<id.cert, ca.cert>>)

Generated(n) ==
  LET ca == generate_ca(n)
      server == generate_peer_cert("server", n, ca)
      client == generate_peer_cert("client", n, ca)
  IN <<_write_private_key("ca", ca), _write_cert("ca", ca),
       _write_private_key("server", server), _write_cert("server", server),
       _write_cert_chain("server", server, ca),
       _write_private_key("client", client), _write_cert("client", client),
       _write_cert_chain("client", client, ca)>>

\* Mutant: files that are there already are kept.
M_cmd_generate(n) ==
  LET missing(w) == ~Exists(w.file)
  IN SelectSeq(Generated(n), missing)

\* Every file is written, also over one that is there.
cmd_generate(n) == Generated(n)

\* The templates of a bundle: a stanza, or the README, with the fingerprint of a leaf.
Stanza(leaf) == <<Fingerprint(leaf)>>

\* The CA certificate is copied as it is, and the stanzas and the README carry the
\* fingerprint of the server's leaf certificate.
cmd_export ==
  LET stanza == Stanza(disk[CrtFile("server")][1])
  IN <<Write(Bundled("fed-ca.crt"), disk[CrtFile("ca")]),
       Write(Bundled("stanza.ini"), stanza), Write(Bundled("stanza.xml"), stanza),
       Write(Bundled("README.md"), stanza)>>

\* The staging file is one block.
Staged(ca, cert, key) == ca \o cert \o key

\* apply stages the chain, or for want of it the leaf.
cmd_apply ==
  LET cert == IF Exists(ChainFile("server")) THEN ChainFile("server") ELSE CrtFile("server")
  IN <<Write(Staging, <<Staged(disk[CrtFile("ca")], disk[cert], disk[KeyFile("server")])>>)>>

\* export parses the leaf, which therefore must be complete; it does not parse the CA.
CanExport ==
  /\ Exists(CrtFile("ca")) /\ Exists(CrtFile("server"))
  /\ disk[CrtFile("server")] # <<>>

CanApply ==
  /\ Exists(CrtFile("ca")) /\ Exists(KeyFile("server"))
  /\ Exists(ChainFile("server")) \/ Exists(CrtFile("server"))
  /\ ~Exists(Staging) \/ cmd.force

\* Mutant: only the file written last is looked for.
M_existing_outputs == {f \in Bundle : Exists(f)}

_existing_outputs ==
  {f \in _GENERATE_OUTPUT_FILES \cup {Ini} \cup Bundle : Exists(f)}
-----------------------------------------------------------------------------
NoCommand == [name |-> "none", force |-> FALSE]

Init ==
  /\ disk = [f \in {} |-> <<>>]
  /\ cmd = NoCommand /\ stages = <<>> /\ todo = <<>> /\ open = FALSE
  /\ gen = 0
  /\ seen = <<>> /\ touched = FALSE
  /\ had = {} /\ whole = FALSE /\ handed = {}

Stages == [generate |-> <<"generate">>, export |-> <<"export">>, apply |-> <<"apply">>,
           quickstart |-> <<"generate", "ini", "export">>]

\* main dispatches to a subcommand.  Only quickstart and apply know --force.
Dispatch(name, force) ==
  /\ cmd = NoCommand
  /\ force => name \in {"quickstart", "apply"}
  /\ cmd' = [name |-> name, force |-> force]
  /\ stages' = Stages[name]
  /\ had' = IF name \in {"quickstart", "apply"} /\ ~force THEN DOMAIN disk ELSE {}
  /\ UNCHANGED <<disk, todo, open, gen, engine, whole, handed>>

\* quickstart goes on if there is nothing to clobber.
Quickstart(force) ==
  /\ _existing_outputs = {} \/ force
  /\ Dispatch("quickstart", force)

Command ==
  \/ \E name \in {"generate", "export", "apply"}, force \in BOOLEAN : Dispatch(name, force)
  \/ \E force \in BOOLEAN : Quickstart(force)

Stage(s) == stages # <<>> /\ Head(stages) = s /\ todo = <<>>

Generate ==
  /\ Stage("generate") /\ gen < MaxGenerations
  /\ gen' = gen + 1
  /\ todo' = cmd_generate(gen + 1) /\ stages' = Tail(stages)
  /\ whole' = FALSE /\ handed' = {}
  /\ UNCHANGED <<disk, cmd, open, engine, had>>

WriteIni ==
  /\ Stage("ini")
  /\ todo' = <<Write(Ini, <<Text(gen)>>)>> /\ stages' = Tail(stages)
  /\ whole' = TRUE
  /\ UNCHANGED <<disk, cmd, open, gen, engine, had, handed>>

Export ==
  /\ Stage("export") /\ CanExport
  /\ todo' = cmd_export /\ stages' = Tail(stages)
  /\ handed' = handed \ {"bundle"}
  /\ UNCHANGED <<disk, cmd, open, gen, engine, had, whole>>

Apply ==
  /\ Stage("apply") /\ CanApply
  /\ todo' = cmd_apply /\ stages' = Tail(stages)
  /\ handed' = handed \ {"staging"}
  /\ UNCHANGED <<disk, cmd, open, gen, engine, had, whole>>

\* os.open with O_CREAT | O_TRUNC.
OpenFile ==
  /\ todo # <<>> /\ ~open
  /\ open' = TRUE
  /\ disk' = Put(Head(todo).file, <<>>)
  /\ touched' = (seen # <<>>)
  /\ UNCHANGED <<cmd, stages, todo, gen, seen, had, whole, handed>>

WriteFile ==
  /\ open
  /\ open' = FALSE /\ todo' = Tail(todo)
  /\ disk' = Put(Head(todo).file, Head(todo).blocks)
  /\ touched' = (seen # <<>>)
  /\ UNCHANGED <<cmd, stages, gen, seen, had, whole, handed>>

\* The command returns 0.
Return ==
  /\ cmd # NoCommand /\ stages = <<>> /\ todo = <<>>
  /\ cmd' = NoCommand
  /\ whole' = (whole \/ cmd.name = "generate")
  /\ handed' = handed \cup
       IF ~whole THEN {}
       ELSE CASE cmd.name \in {"export", "quickstart"} -> {"bundle"}
              [] cmd.name = "apply" -> {"staging"}
              [] OTHER -> {}
  /\ had' = {}
  /\ UNCHANGED <<disk, stages, todo, open, gen, engine>>

\* It is killed, fails to write, or returns 1 because of what it found.
Abort ==
  /\ cmd # NoCommand
  /\ cmd' = NoCommand /\ stages' = <<>> /\ todo' = <<>> /\ open' = FALSE /\ had' = {}
  /\ \/ UNCHANGED disk
     \/ /\ open
        /\ \E k \in 1..(Len(Head(todo).blocks) - 1) :
             disk' = Put(Head(todo).file, SubSeq(Head(todo).blocks, 1, k))
  /\ touched' = (touched \/ (open /\ seen # <<>>))
  /\ UNCHANGED <<gen, seen, whole, handed>>
-----------------------------------------------------------------------------
(* The engine: build_grpc_server_credentials, build_grpc_client_credentials. *)

\* The paths quickstart writes into federation.ini.
_PATHS == <<CrtFile("ca"), ChainFile("server"), KeyFile("server")>>

\* Mutant: each file is looked at by itself.
M_validate_pem_with_ssl(ca, chain, key) == ca # <<>> /\ chain # <<>> /\ key # <<>>

\* Each file holds something, and the key is that of the leaf.  Whether the CA signed the
\* leaf is not looked at.
_validate_pem_with_ssl(ca, chain, key) ==
  /\ ca # <<>> /\ chain # <<>> /\ key # <<>>
  /\ chain[1].of = key[1].of /\ chain[1].gen = key[1].gen

\* Three files are read to be validated, and read again to be used.  The config comes first.
_read_pem_bytes ==
  /\ seen = <<>> => Exists(Ini) /\ disk[Ini] # <<>>
  /\ Len(seen) < 6
  /\ LET f == _PATHS[1 + (Len(seen) % 3)]
     IN Exists(f) /\ seen' = Append(seen, disk[f])
  /\ Len(seen') = 3 => _validate_pem_with_ssl(seen'[1], seen'[2], seen'[3])
  /\ UNCHANGED <<disk, command, gen, touched, had, whole, handed>>

\* The credentials go to gRPC, or the load is given up.
EndLoad ==
  /\ seen # <<>>
  /\ seen' = <<>> /\ touched' = FALSE
  /\ UNCHANGED <<disk, command, gen, had, whole, handed>>
-----------------------------------------------------------------------------
Next ==
  \/ Command \/ Generate \/ WriteIni \/ Export \/ Apply
  \/ OpenFile \/ WriteFile \/ Return \/ Abort
  \/ _read_pem_bytes \/ EndLoad

Spec == Init /\ [][Next]_vars
-----------------------------------------------------------------------------
(* Properties.                                                             *)

\* NO CLOBBER.  Whatever earlier commands left, complete or not, a quickstart or an apply
\* without --force writes no file that was there when it began.
NoClobber ==
  [][cmd.name \in {"quickstart", "apply"} /\ ~cmd.force =>
       \A f \in had : f \in DOMAIN disk' /\ disk'[f] = disk[f]]_vars

\* A peer that trusts a CA file and knows a leaf's fingerprint accepts a chain.
Accepts(ca, stanza, chain) ==
  /\ Len(chain) = 2 /\ Len(stanza) = 1 /\ Len(ca) = 1
  /\ Fingerprint(chain[1]) = stanza[1]
  /\ ca[1] = chain[2] /\ ca[1].gen = chain[1].signer

\* HAND-OUTS ACCEPTED.  A bundle or a staging file that was completed after a complete
\* generate fits the server's files until the next generate: a peer that follows the bundle
\* accepts what the server presents, and the staged CA, chain and key are the server's and
\* belong together.
HandOutsAccepted ==
  LET ca == disk[CrtFile("ca")]
      chain == disk[ChainFile("server")]
      key == disk[KeyFile("server")]
  IN /\ "bundle" \in handed =>
          \A s \in {"stanza.ini", "stanza.xml", "README.md"} :
            Accepts(disk[Bundled("fed-ca.crt")], disk[Bundled(s)], chain)
     /\ "staging" \in handed =>
          /\ disk[Staging] = <<Staged(ca, chain, key)>>
          /\ Accepts(ca, Stanza(Head(chain)), chain)
          /\ Len(key) = 1 /\ key[1].gen = Head(chain).gen

\* LOADED MATCH.  Credentials the engine loaded while nobody wrote hold a key and its
\* certificate, whatever commands were cut off before.
LoadedMatch ==
  Len(seen) = 6 /\ ~touched =>
    /\ seen[5] # <<>> /\ seen[6] # <<>>
    /\ seen[5][1].gen = seen[6][1].gen
=============================================================================
