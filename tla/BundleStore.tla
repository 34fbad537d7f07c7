---------------------------- MODULE BundleStore ----------------------------
(***************************************************************************)
(* Signed policy bundles (policy/bundle.py, signing.py), the store that    *)
(* holds them (policy/bundle_store.py), the commands of an operator that   *)
(* write it and a gateway that starts from it (cli/__init__.py).           *)
(*                                                                         *)
(* Every file write is temp + fsync + os.replace, so one write is one      *)
(* step; a command is several, and it may die between any two of them.     *)
(* One pack name is modelled: packs live in directories of their own.      *)
(***************************************************************************)
EXTENDS Integers, FiniteSets

CONSTANTS
  Texts,        \* policy documents (all the layers of a bundle together)
  Compiles,     \* the texts that also merge and compile into a PolicyEngine
  Versions, Stems,
  SafeStem,     \* _safe: [Versions -> Stems], the file name of a version
  Releases,     \* the <<text, version>> pairs the pipeline built and signed
  OtherKey, TrustedKey,
  Operators,
  MaxTampers,   \* bound on the changes made to bundle files behind the store
  NoSig, NoFile, NoVersion, NoBundle,
  Garbage,      \* a file that is no bundle: bad JSON, or not the format
  Unreadable    \* a file read_text raises on: a byte that is not UTF-8, no permission

ASSUME ConstantsAssumption ==
  /\ SafeStem \in [Versions -> Stems]
  /\ Releases \subseteq Texts \X Versions
  /\ TrustedKey # OtherKey
  /\ NoVersion \notin Versions
  /\ MaxTampers \in Nat

VARIABLES
  file,      \* bundles/<stem>.json
  current,   \* the version in current.json; NoVersion: no readable pointer
  lkg,       \* the version in last_known_good.json, likewise
  op,        \* the command each operator is running
  gw,        \* a gateway process
  tampers,   \* how often a bundle file was changed behind the store
  torn       \* history: a command died half way, or two overlapped

vars == <<file, current, lkg, op, gw, tampers, torn>>

-----------------------------------------------------------------------------
(* Bundles.  The hash of a text is the text; a signature is the key that   *)
(* made it and the manifest it covers, which holds the hash but neither    *)
(* the payload nor the signer's label.                                     *)
-----------------------------------------------------------------------------

Manifest(b) == [version |-> b.version, hash |-> b.hash]

BuildBundle(text, version) ==
  [version |-> version, text |-> text, hash |-> text, sig |-> NoSig]

SignBundle(b, key) == [b EXCEPT !.sig = [key |-> key, over |-> Manifest(b)]]

SignatureState(b, key) ==
  IF b.sig = NoSig THEN "unsigned"
  ELSE IF b.sig = [key |-> key, over |-> Manifest(b)] THEN "valid" ELSE "invalid"

VerifyBundle(b) == b.hash = b.text /\ SignatureState(b, TrustedKey) = "valid"

Released == {SignBundle(BuildBundle(r[1], r[2]), TrustedKey) : r \in Releases}

\* What can be made of a released bundle without the private key.
Alterations(b) ==
  {[b EXCEPT !.text = t] : t \in Texts}
    \cup {[b EXCEPT !.text = t, !.hash = t] : t \in Texts}
    \cup {[b EXCEPT !.version = v] : v \in Versions}
    \cup {BuildBundle(b.text, b.version), SignBundle(b, OtherKey)}

Bundles == Released \cup UNION {Alterations(b) : b \in Released}

ASSUME MarkersAssumption ==
  /\ {NoFile, Garbage, Unreadable, NoBundle} \cap Bundles = {}
  /\ NoBundle \notin {NoFile, Garbage, Unreadable}
  /\ NoFile \notin {Garbage, Unreadable} /\ Garbage # Unreadable

\* Mutant of Load: the bundle is trusted because it was verified at install.
LoadTrustsStore(version) ==
  IF version = NoVersion THEN NoBundle
  ELSE IF file[SafeStem[version]] \in Bundles THEN file[SafeStem[version]] ELSE NoBundle

\* _load_pointer_bundle: the bundle the pointer's file holds, re-verified.
\* NoBundle: none that is usable, or the call raises (see Raises).
Load(version) ==
  IF version = NoVersion THEN NoBundle
  ELSE LET b == file[SafeStem[version]] IN
       IF b \in Bundles /\ VerifyBundle(b) THEN b ELSE NoBundle

\* load_bundle turns a missing file and bad JSON into a BundleError, and
\* _bundle_for catches just that: any other failure to read the file goes
\* through every caller.
Raises(version) == version # NoVersion /\ file[SafeStem[version]] = Unreadable

\* current(): the live bundle, or the last known good one.  NoBundle: none, or
\* the call raises before it comes to the second.
Resolve == IF Load(current) # NoBundle \/ Raises(current) THEN Load(current) ELSE Load(lkg)

-----------------------------------------------------------------------------

Idle == [pc |-> "idle", bundle |-> NoBundle, seen |-> NoVersion, target |-> NoVersion]
Down == [state |-> "down", bundle |-> NoBundle, fellBack |-> FALSE, audited |-> "none",
         hadPolicy |-> FALSE]

TypeOK ==
  /\ file \in [Stems -> Bundles \cup {NoFile, Garbage, Unreadable}]
  /\ current \in Versions \cup {NoVersion}
  /\ lkg \in Versions \cup {NoVersion}
  /\ op \in [Operators ->
       [pc : {"idle", "look", "store", "read", "demote", "swap",
              "rb_read", "rb_promote", "rb_demote"},
        bundle : Bundles \cup {NoBundle},
        seen : Versions \cup {NoVersion}, target : Versions \cup {NoVersion}]]
  /\ gw \in [state : {"down", "falling_back", "running", "failed"},
             bundle : Bundles \cup {NoBundle, Unreadable}, fellBack : BOOLEAN,
             audited : {"none", "loaded", "rejected"}, hadPolicy : BOOLEAN]
  /\ tampers \in 0..MaxTampers
  /\ torn \in BOOLEAN

Init ==
  /\ file = [s \in Stems |-> NoFile]
  /\ current = NoVersion
  /\ lkg = NoVersion
  /\ op = [o \in Operators |-> Idle]
  /\ gw = Down
  /\ tampers = 0
  /\ torn = FALSE

Goto(o, pc) == op' = [op EXCEPT ![o].pc = pc]

\* A command starts; history notes whether another one is still under way.
Begin(o, command) ==
  /\ op[o].pc = "idle"
  /\ op' = [op EXCEPT ![o] = command]
  /\ torn' = (torn \/ \E p \in Operators : op[p].pc # "idle")

-----------------------------------------------------------------------------
(* policy bundle install *)

\* A bundle that fails verification is refused and nothing else happens.
InstallVerify(o, b) ==
  /\ VerifyBundle(b)
  /\ Begin(o, [Idle EXCEPT !.pc = "look", !.bundle = b])
  /\ UNCHANGED <<file, current, lkg, gw, tampers>>

\* Mutant of InstallLook: looks for the directory of bundles, not for the file.
LookForDirectory(o) ==
  /\ op[o].pc = "look"
  /\ Goto(o, IF \A s \in Stems : file[s] = NoFile THEN "store" ELSE "read")
  /\ UNCHANGED <<file, current, lkg, gw, tampers, torn>>

\* The file of a version is written once: an existing one is left as it is.
InstallLook(o) ==
  /\ op[o].pc = "look"
  /\ Goto(o, IF file[SafeStem[op[o].bundle.version]] = NoFile THEN "store" ELSE "read")
  /\ UNCHANGED <<file, current, lkg, gw, tampers, torn>>

InstallStore(o) ==
  /\ op[o].pc = "store"
  /\ file' = [file EXCEPT ![SafeStem[op[o].bundle.version]] = op[o].bundle]
  /\ Goto(o, "read")
  /\ UNCHANGED <<current, lkg, gw, tampers, torn>>

InstallRead(o) ==
  /\ op[o].pc = "read"
  /\ op' = [op EXCEPT ![o].pc = "demote", ![o].seen = current]
  /\ UNCHANGED <<file, current, lkg, gw, tampers, torn>>

\* Mutant of InstallDemote: a re-installed version displaces itself.
DemoteAlways(o) ==
  /\ op[o].pc = "demote"
  /\ lkg' = IF op[o].seen # NoVersion THEN op[o].seen ELSE lkg
  /\ Goto(o, "swap")
  /\ UNCHANGED <<file, current, gw, tampers, torn>>

\* Whatever was live becomes the fallback, unless it is this very version.
InstallDemote(o) ==
  /\ op[o].pc = "demote"
  /\ lkg' = IF op[o].seen \notin {NoVersion, op[o].bundle.version}
            THEN op[o].seen ELSE lkg
  /\ Goto(o, "swap")
  /\ UNCHANGED <<file, current, gw, tampers, torn>>

InstallSwap(o) ==
  /\ op[o].pc = "swap"
  /\ current' = op[o].bundle.version
  /\ op' = [op EXCEPT ![o] = Idle]
  /\ UNCHANGED <<file, lkg, gw, tampers, torn>>

-----------------------------------------------------------------------------
(* policy bundle rollback *)

\* Refused unless the fallback is there and verifies.
RollbackVerify(o) ==
  /\ Load(lkg) # NoBundle
  /\ Begin(o, [Idle EXCEPT !.pc = "rb_read", !.target = lkg])
  /\ UNCHANGED <<file, current, lkg, gw, tampers>>

RollbackRead(o) ==
  /\ op[o].pc = "rb_read"
  /\ op' = [op EXCEPT ![o].pc = "rb_promote", ![o].seen = current]
  /\ UNCHANGED <<file, current, lkg, gw, tampers, torn>>

RollbackPromote(o) ==
  /\ op[o].pc = "rb_promote"
  /\ current' = op[o].target
  /\ Goto(o, "rb_demote")
  /\ UNCHANGED <<file, lkg, gw, tampers, torn>>

RollbackDemote(o) ==
  /\ op[o].pc = "rb_demote"
  /\ lkg' = IF op[o].seen # NoVersion THEN op[o].seen ELSE lkg
  /\ op' = [op EXCEPT ![o] = Idle]
  /\ UNCHANGED <<file, current, gw, tampers, torn>>

\* The command is killed between two of its writes.
OperatorCrash(o) ==
  /\ op[o].pc # "idle"
  /\ op' = [op EXCEPT ![o] = Idle]
  /\ torn' = TRUE
  /\ UNCHANGED <<file, current, lkg, gw, tampers>>

-----------------------------------------------------------------------------
(* wrap --bundle-store / --bundle: a gateway loads its policy once.        *)

\* engine_from_bundle, then the policy_bundle_loaded event.  A text that
\* does not compile ends the process with neither event.
Enforce(b, fellBack, had) ==
  gw' = IF b.text \in Compiles
        THEN [state |-> "running", bundle |-> b, fellBack |-> fellBack,
              audited |-> "loaded", hadPolicy |-> had]
        ELSE [Down EXCEPT !.state = "failed", !.bundle = b, !.hadPolicy = had]

Refuse(had) ==
  gw' = [Down EXCEPT !.state = "failed", !.audited = "rejected", !.hadPolicy = had]

\* An exception nobody catches ends the process: no event says so.
Crash(had) ==
  gw' = [Down EXCEPT !.state = "failed", !.bundle = Unreadable, !.hadPolicy = had]

StartFromStore ==
  /\ gw.state = "down"
  /\ LET b == Load(current)  had == current # NoVersion IN
     IF b # NoBundle THEN Enforce(b, FALSE, had)
     ELSE IF Raises(current) THEN Crash(had)
     ELSE gw' = [Down EXCEPT !.state = "falling_back", !.hadPolicy = had]
  /\ UNCHANGED <<file, current, lkg, op, tampers, torn>>

\* Mutant of FallBack: gives up without trying the last known good bundle.
GiveUp ==
  /\ gw.state = "falling_back"
  /\ gw' = [Down EXCEPT !.state = "failed", !.hadPolicy = gw.hadPolicy]
  /\ UNCHANGED <<file, current, lkg, op, tampers, torn>>

FallBack ==
  /\ gw.state = "falling_back"
  /\ LET b == Load(lkg) IN
     IF b # NoBundle THEN Enforce(b, TRUE, gw.hadPolicy)
     ELSE IF Raises(lkg) THEN Crash(gw.hadPolicy) ELSE Refuse(gw.hadPolicy)
  /\ UNCHANGED <<file, current, lkg, op, tampers, torn>>

\* A file that is no bundle at all ends the process before the verdict.
StartFromFile(b) ==
  /\ gw.state = "down"
  /\ \/ b \in {Garbage, Unreadable} /\ gw' = [Down EXCEPT !.state = "failed"]
     \/ b \in Bundles /\ VerifyBundle(b) /\ Enforce(b, FALSE, FALSE)
     \/ b \in Bundles /\ ~VerifyBundle(b) /\ Refuse(FALSE)
  /\ UNCHANGED <<file, current, lkg, op, tampers, torn>>

GatewayExits ==
  /\ gw.state \in {"running", "failed"}
  /\ gw' = Down
  /\ UNCHANGED <<file, current, lkg, op, tampers, torn>>

-----------------------------------------------------------------------------

\* Bit-rot, a botched edit, a partial restore, or a file put in its place.
Tamper(s, content) ==
  /\ tampers < MaxTampers
  /\ file[s] # NoFile
  /\ content # file[s]
  /\ file' = [file EXCEPT ![s] = content]
  /\ tampers' = tampers + 1
  /\ UNCHANGED <<current, lkg, op, gw, torn>>

Next ==
  \/ \E o \in Operators :
       \/ \E b \in Bundles : InstallVerify(o, b)
       \/ InstallLook(o) \/ InstallStore(o) \/ InstallRead(o)
       \/ InstallDemote(o) \/ InstallSwap(o)
       \/ RollbackVerify(o) \/ RollbackRead(o) \/ RollbackPromote(o) \/ RollbackDemote(o)
       \/ OperatorCrash(o)
  \/ StartFromStore \/ FallBack \/ GatewayExits
  \/ \E b \in Bundles \cup {Garbage, Unreadable} : StartFromFile(b)
  \/ \E s \in Stems, c \in Bundles \cup {Garbage, Unreadable, NoFile} : Tamper(s, c)

Spec == Init /\ [][Next]_vars

-----------------------------------------------------------------------------
(* Properties *)

\* What a gateway enforces is a policy, under the version, that the pipeline
\* signed: nobody without the private key chooses it, whatever they do to the
\* store's files and whichever bundle file is handed to `wrap` or `install`.
OnlyTrustedEnforced ==
  gw.state = "running" => <<gw.bundle.text, gw.bundle.version>> \in Releases

\* Whatever instant a command is killed at, and however commands overlap, a
\* store that ever had a live bundle has a usable one: a pointer is never
\* swapped to a bundle that is not yet there.
NeverDark ==
  (tampers = 0 /\ current # NoVersion) => Load(current) # NoBundle

\* What the store is asked to survive: at most one bundle file went bad,
\* between commands that ran to their end, and there are two to choose from.
OneBadFile ==
  /\ tampers <= 1 /\ ~torn
  /\ \A o \in Operators : op[o].pc = "idle"
  /\ current # NoVersion /\ lkg # NoVersion

\* The fallback is worth having: one bundle file may go missing, become another
\* bundle or no bundle at all, and the store still serves one (the two pointers
\* never name one file).  A fallback that cannot be read does no harm either.
\* The live file is another matter: when it cannot be read at all the exception
\* goes through current(), and nothing is served (bundle_store.py:20-23 says
\* that it heals).
HealsOneFile == (OneBadFile /\ ~Raises(current)) => Resolve # NoBundle

\* A gateway that finds a live pointer refuses to start only when files were
\* changed, and then it says so in the trail unless a file could not be read;
\* or because a signed policy does not compile.  The last two end it with no
\* event.
FailureIsExplained ==
  (gw.state = "failed" /\ gw.hadPolicy) =>
    \/ gw.audited = "rejected" /\ tampers > 0
    \/ gw.audited = "none" /\ gw.bundle = Unreadable /\ tampers > 0
    \/ gw.audited = "none" /\ gw.bundle \in Bundles /\ gw.bundle.text \notin Compiles

\* install's promise, "verify `bundle` and, if good, make it live": once its
\* last write is done, and if the files were left alone, the store resolves to
\* the very bundle that was installed.
InstallMakesLive ==
  [][ \A o \in Operators : (tampers = 0 /\ InstallSwap(o)) =>
        Load(current)' = op[o].bundle ]_vars


\* A start from the store succeeds or has a reason not to: one bad file that can
\* be read is survived, and a gateway that refuses has a cause, which is on the
\* trail when files were changed and could be read.
\* (bundle_store.py current; cli _load_bundle_engine)
StartsOrExplains == HealsOneFile /\ FailureIsExplained
=============================================================================
