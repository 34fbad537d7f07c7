------------------------- MODULE BundleStoreProofs -------------------------
(***************************************************************************)
(* What a gateway enforces was signed, and no crash or overlap of commands *)
(* leaves the live pointer without its bundle: for every set of texts,     *)
(* versions, releases and operators, and however _safe maps versions to    *)
(* file names.  That the store heals and that install makes live what it   *)
(* was given needs file names that are not shared.                         *)
(***************************************************************************)
EXTENDS BundleStore, TLAPS

\* A released bundle, field by field.
LEMMA ReleasedFields ==
  ASSUME NEW b \in Released
  PROVE  \E r \in Releases :
           /\ b = [version |-> r[2], text |-> r[1], hash |-> r[1],
                   sig |-> [key |-> TrustedKey, over |-> [version |-> r[2], hash |-> r[1]]]]
           /\ r[1] \in Texts /\ r[2] \in Versions
BY ConstantsAssumption DEF Released, SignBundle, BuildBundle, Manifest

\* Every bundle that can turn up names a version; one that verifies is a
\* release: the hash binds the text and the signature the hash and the version.
LEMMA BundleFacts ==
  ASSUME NEW b \in Bundles
  PROVE  /\ b.version \in Versions
         /\ VerifyBundle(b) => <<b.text, b.version>> \in Releases
<1>1. CASE b \in Released
  BY <1>1, ReleasedFields, ConstantsAssumption DEF VerifyBundle
<1>2. CASE \E a \in Released : b \in Alterations(a)
  <2>1. PICK a \in Released : b \in Alterations(a)
    BY <1>2
  <2>2. PICK r \in Releases :
           /\ a = [version |-> r[2], text |-> r[1], hash |-> r[1],
                   sig |-> [key |-> TrustedKey, over |-> [version |-> r[2], hash |-> r[1]]]]
           /\ r[1] \in Texts /\ r[2] \in Versions
    BY ReleasedFields
  <2>2a. r = <<r[1], r[2]>>
    BY ConstantsAssumption
  <2>3. CASE \E t \in Texts : b = [a EXCEPT !.text = t]
    BY <2>2, <2>2a, <2>3 DEF VerifyBundle
  <2>4. CASE \E t \in Texts : b = [a EXCEPT !.text = t, !.hash = t]
    BY <2>2, <2>2a, <2>4, ConstantsAssumption DEF VerifyBundle, SignatureState, Manifest
  <2>5. CASE \E v \in Versions : b = [a EXCEPT !.version = v]
    BY <2>2, <2>2a, <2>5, ConstantsAssumption DEF VerifyBundle, SignatureState, Manifest
  <2>6. CASE b = BuildBundle(a.text, a.version)
    BY <2>2, <2>2a, <2>6 DEF VerifyBundle, SignatureState, BuildBundle
  <2>7. CASE b = SignBundle(a, OtherKey)
    BY <2>2, <2>2a, <2>7, ConstantsAssumption
    DEF VerifyBundle, SignatureState, SignBundle, Manifest
  <2> QED
    BY <2>1, <2>3, <2>4, <2>5, <2>6, <2>7 DEF Alterations
<1> QED
  BY <1>1, <1>2 DEF Bundles

-----------------------------------------------------------------------------
(* The inductive invariant.  It is stated over files that exist: a file    *)
(* that nobody changed holds a bundle that verifies, and every version a   *)
(* pointer or a command remembers has its file.                            *)

Good(b) == b \in Bundles /\ VerifyBundle(b)

Stored(version) == version \in Versions /\ file[SafeStem[version]] # NoFile

Pointer(p) == p = NoVersion \/ Stored(p)

CommandOK(c) ==
  /\ c.pc \in {"look", "store", "read", "demote", "swap"} => Good(c.bundle)
  /\ c.pc \in {"read", "demote", "swap"} => Stored(c.bundle.version)
  /\ c.pc \in {"rb_read", "rb_promote", "rb_demote"} => Stored(c.target)
  /\ Pointer(c.seen)

StoreOK ==
  tampers = 0 =>
    /\ \A s \in Stems : file[s] = NoFile \/ Good(file[s])
    /\ Pointer(current) /\ Pointer(lkg)
    /\ \A o \in Operators : CommandOK(op[o])

InstallsGood ==
  \A o \in Operators :
    op[o].pc \in {"look", "store", "read", "demote", "swap"} => Good(op[o].bundle)

GatewayOK == gw.state = "running" => Good(gw.bundle)

Inv == TypeOK /\ StoreOK /\ InstallsGood /\ GatewayOK

LEMMA LoadGood ==
  ASSUME NEW v, TypeOK
  PROVE  /\ Load(v) = NoBundle \/ Good(Load(v))
         /\ Load(v) \in Bundles \cup {NoBundle}
BY DEF Load, Good

LEMMA EnforceOK ==
  ASSUME NEW b \in Bundles, Good(b), NEW f \in BOOLEAN, NEW h \in BOOLEAN, Enforce(b, f, h)
  PROVE  /\ gw' \in [state : {"down", "falling_back", "running", "failed"},
                     bundle : Bundles \cup {NoBundle, Unreadable}, fellBack : BOOLEAN,
                     audited : {"none", "loaded", "rejected"}, hadPolicy : BOOLEAN]
         /\ GatewayOK'
<1>1. CASE b.text \in Compiles
  <2>1. gw' = [state |-> "running", bundle |-> b, fellBack |-> f,
               audited |-> "loaded", hadPolicy |-> h]
    BY <1>1 DEF Enforce
  <2>2. Good(gw'.bundle)
    BY <2>1
  <2> QED
    BY <2>1, <2>2 DEF GatewayOK, Good
<1>2. CASE b.text \notin Compiles
  BY <1>2 DEF Enforce, GatewayOK, Down
<1> QED
  BY <1>1, <1>2

\* A step that leaves the files, the pointers and the commands alone.
LEMMA GatewayStep ==
  ASSUME Inv, UNCHANGED <<file, current, lkg, op, tampers, torn>>,
         gw' \in [state : {"down", "falling_back", "running", "failed"},
                  bundle : Bundles \cup {NoBundle, Unreadable}, fellBack : BOOLEAN,
                  audited : {"none", "loaded", "rejected"}, hadPolicy : BOOLEAN],
         GatewayOK'
  PROVE  Inv'
<1>1. TypeOK'
  BY DEF Inv, TypeOK
<1>2. StoreOK'
  BY DEF Inv, StoreOK, CommandOK, Pointer, Stored, Good
<1>3. InstallsGood'
  BY DEF Inv, InstallsGood, Good
<1> QED
  BY <1>1, <1>2, <1>3 DEF Inv

CommandType ==
  [pc : {"idle", "look", "store", "read", "demote", "swap",
         "rb_read", "rb_promote", "rb_demote"},
   bundle : Bundles \cup {NoBundle},
   seen : Versions \cup {NoVersion}, target : Versions \cup {NoVersion}]

LEMMA IdleType == Idle \in CommandType
BY DEF Idle, CommandType

LEMMA InitInv == Init => Inv
<1> SUFFICES ASSUME Init PROVE Inv
  OBVIOUS
<1>1. TypeOK
  <2>1. op \in [Operators -> CommandType]
    BY IdleType DEF Init
  <2>2. gw \in [state : {"down", "falling_back", "running", "failed"},
               bundle : Bundles \cup {NoBundle, Unreadable}, fellBack : BOOLEAN,
               audited : {"none", "loaded", "rejected"}, hadPolicy : BOOLEAN]
    BY DEF Init, Down
  <2>3. /\ file \in [Stems -> Bundles \cup {NoFile, Garbage, Unreadable}]
        /\ current \in Versions \cup {NoVersion} /\ lkg \in Versions \cup {NoVersion}
        /\ tampers \in 0..MaxTampers
    BY ConstantsAssumption DEF Init
  <2>4. torn \in BOOLEAN
    BY DEF Init
  <2> QED
    BY <2>1, <2>2, <2>3, <2>4 DEF TypeOK, CommandType
<1>2. StoreOK /\ InstallsGood /\ GatewayOK
  BY DEF Init, StoreOK, InstallsGood, GatewayOK, CommandOK, Pointer, Stored, Idle, Down
<1> QED
  BY <1>1, <1>2 DEF Inv

LEMMA NextInv == Inv /\ [Next]_vars => Inv'
<1> SUFFICES ASSUME Inv, [Next]_vars PROVE Inv'
  OBVIOUS
<1> USE DEF Inv
<1>a. TypeOK /\ StoreOK /\ InstallsGood /\ GatewayOK
  OBVIOUS
<1>1. ASSUME NEW o \in Operators, NEW b \in Bundles, InstallVerify(o, b) PROVE Inv'
  <2>1. TypeOK'
    BY <1>1 DEF TypeOK, InstallVerify, Begin, Idle
  <2>2. op'[o].bundle = b /\ op'[o].pc = "look" /\ op'[o].seen = NoVersion
    BY <1>1 DEF TypeOK, InstallVerify, Begin, Idle
  <2>3. \A p \in Operators \ {o} : op'[p] = op[p]
    BY <1>1 DEF TypeOK, InstallVerify, Begin, Idle
  <2>4. Good(b)
    BY <1>1 DEF InstallVerify, Good
  <2>5. StoreOK'
    BY <1>1, <2>2, <2>3, <2>4
    DEF InstallVerify, StoreOK, CommandOK, Pointer, Stored, Good
  <2>6. InstallsGood' /\ GatewayOK'
    BY <1>1, <2>2, <2>3, <2>4 DEF InstallVerify, InstallsGood, GatewayOK, Good
  <2> QED
    BY <2>1, <2>5, <2>6
<1>2. ASSUME NEW o \in Operators, InstallLook(o) PROVE Inv'
  <2>1. TypeOK'
    BY <1>2 DEF TypeOK, InstallLook, Goto
  <2>2. /\ op'[o].bundle = op[o].bundle /\ op'[o].seen = op[o].seen
        /\ op'[o].pc = IF file[SafeStem[op[o].bundle.version]] = NoFile
                       THEN "store" ELSE "read"
        /\ \A p \in Operators \ {o} : op'[p] = op[p]
    BY <1>2 DEF TypeOK, InstallLook, Goto
  <2>3. Good(op[o].bundle) /\ op[o].bundle.version \in Versions
    BY <1>2, BundleFacts DEF InstallLook, InstallsGood, Good
  <2>4. StoreOK'
    <3> SUFFICES ASSUME tampers = 0 PROVE StoreOK'
      BY <1>2 DEF InstallLook, StoreOK
    <3>1. file' = file /\ current' = current /\ lkg' = lkg
      BY <1>2 DEF InstallLook
    <3>2. \A s \in Stems : file[s] = NoFile \/ Good(file[s])
      BY DEF StoreOK
    <3>3. Pointer(current)' /\ Pointer(lkg)'
      BY <3>1 DEF StoreOK, Pointer, Stored
    <3>4. \A p \in Operators : CommandOK(op[p])'
      <4>1. \A v : Stored(v)' <=> Stored(v)
        BY <3>1 DEF Stored
      <4>2. ASSUME NEW p \in Operators \ {o} PROVE CommandOK(op[p])'
        BY <2>2, <4>1 DEF StoreOK, CommandOK, Pointer, Good
      <4>3. op'[o].pc = "read" => Stored(op[o].bundle.version)
        BY <2>2, <2>3 DEF Stored
      <4>4. op'[o].pc \in {"store", "read"}
        BY <2>2
      <4>5. CommandOK(op[o])'
        BY <2>2, <2>3, <4>1, <4>3, <4>4 DEF StoreOK, CommandOK, Pointer, Good
      <4> QED
        BY <4>2, <4>5
    <3>5. (\A s \in Stems : file[s] = NoFile \/ Good(file[s]))'
      BY <3>1, <3>2 DEF Good
    <3> QED
      BY <3>3, <3>4, <3>5 DEF StoreOK
  <2>5. InstallsGood' /\ GatewayOK'
    BY <1>2, <2>2, <2>3 DEF InstallLook, InstallsGood, GatewayOK, Good
  <2> QED
    BY <2>1, <2>4, <2>5
<1>3. ASSUME NEW o \in Operators, InstallStore(o) PROVE Inv'
  <2>1. Good(op[o].bundle) /\ op[o].bundle.version \in Versions
    BY <1>3, BundleFacts DEF InstallStore, InstallsGood, Good
  <2>2. SafeStem[op[o].bundle.version] \in Stems
    BY <2>1, ConstantsAssumption
  <2>3. TypeOK'
    BY <1>3, <2>1, <2>2 DEF TypeOK, InstallStore, Goto, Good
  <2>4. /\ op'[o].bundle = op[o].bundle /\ op'[o].seen = op[o].seen /\ op'[o].pc = "read"
        /\ \A p \in Operators \ {o} : op'[p] = op[p]
    BY <1>3 DEF TypeOK, InstallStore, Goto
  <2>5. /\ file'[SafeStem[op[o].bundle.version]] = op[o].bundle
        /\ \A s \in Stems : file'[s] = file[s] \/ file'[s] = op[o].bundle
        /\ op[o].bundle # NoFile
    BY <1>3, <2>1, <2>2, MarkersAssumption DEF InstallStore, TypeOK, Good
  <2>6. \A v \in Versions : file[SafeStem[v]] # NoFile => file'[SafeStem[v]] # NoFile
    BY <2>5, ConstantsAssumption
  <2>7. StoreOK'
    <3> SUFFICES ASSUME tampers = 0 PROVE StoreOK'
      BY <1>3 DEF InstallStore, StoreOK
    <3>1. \A s \in Stems : file'[s] = NoFile \/ Good(file'[s])
      BY <2>1, <2>5 DEF StoreOK
    <3>2. \A v : Stored(v) => Stored(v)'
      BY <2>6 DEF Stored
    <3>3. Pointer(current)' /\ Pointer(lkg)'
      BY <1>3, <3>2 DEF InstallStore, StoreOK, Pointer
    <3>4. ASSUME NEW p \in Operators \ {o} PROVE CommandOK(op[p])'
      BY <2>4, <3>2 DEF StoreOK, CommandOK, Pointer, Good
    <3>5. Stored(op[o].bundle.version)'
      <4>1. op'[o].bundle.version = op[o].bundle.version
        BY <2>4
      <4> QED
        BY <2>1, <2>5, <4>1 DEF Stored
    <3>6. CommandOK(op[o])'
      BY <2>1, <2>4, <3>2, <3>5 DEF StoreOK, CommandOK, Pointer, Good
    <3>7. (\A s \in Stems : file[s] = NoFile \/ Good(file[s]))'
      BY <3>1 DEF Good
    <3> QED
      BY <3>3, <3>4, <3>6, <3>7 DEF StoreOK
  <2>8. InstallsGood' /\ GatewayOK'
    BY <1>3, <2>1, <2>4 DEF InstallStore, InstallsGood, GatewayOK, Good
  <2> QED
    BY <2>3, <2>7, <2>8
<1>4. ASSUME NEW o \in Operators,
             InstallRead(o) \/ InstallDemote(o) \/ RollbackRead(o) \/ RollbackPromote(o)
      PROVE  Inv'
  <2>1. TypeOK'
    <3>1. op[o].target \in Versions \cup {NoVersion}
      BY DEF TypeOK
    <3> QED
      BY <1>4, <3>1 DEF TypeOK, InstallRead, InstallDemote, RollbackRead, RollbackPromote, Goto
  <2>2. /\ op'[o].bundle = op[o].bundle /\ op'[o].target = op[o].target
        /\ \/ op'[o].seen = op[o].seen
           \/ op'[o].seen = current
        /\ op'[o].pc \in {"demote", "swap"} => op[o].pc \in {"read", "demote"}
        /\ op'[o].pc \in {"rb_promote", "rb_demote"} => op[o].pc \in {"rb_read", "rb_promote"}
        /\ op'[o].pc \in {"demote", "swap", "rb_promote", "rb_demote"}
        /\ \A p \in Operators \ {o} : op'[p] = op[p]
    BY <1>4 DEF TypeOK, InstallRead, InstallDemote, RollbackRead, RollbackPromote, Goto
  <2>3. /\ UNCHANGED <<file, tampers, gw>>
        /\ current' = current \/ (op[o].pc = "rb_promote" /\ current' = op[o].target)
        /\ lkg' = lkg \/ lkg' = op[o].seen
    BY <1>4 DEF InstallRead, InstallDemote, RollbackRead, RollbackPromote
  <2>4. StoreOK'
    <3> SUFFICES ASSUME tampers = 0 PROVE StoreOK'
      BY <2>3 DEF StoreOK
    <3>1. Pointer(current)' /\ Pointer(lkg)'
      BY <2>3 DEF StoreOK, CommandOK, Pointer, Stored
    <3>2. CommandOK(op[o])'
      BY <2>2, <2>3 DEF StoreOK, CommandOK, Pointer, Stored, Good
    <3>3. \A p \in Operators \ {o} : CommandOK(op[p])'
      BY <2>2, <2>3 DEF StoreOK, CommandOK, Pointer, Stored, Good
    <3>4. \A s \in Stems : (file[s] = NoFile \/ Good(file[s]))'
      BY <2>3 DEF StoreOK, Good
    <3> QED
      BY <3>1, <3>2, <3>3, <3>4 DEF StoreOK
  <2>5. InstallsGood' /\ GatewayOK'
    BY <2>2, <2>3 DEF InstallsGood, GatewayOK, Good
  <2> QED
    BY <2>1, <2>4, <2>5
<1>5. ASSUME NEW o \in Operators, InstallSwap(o) \/ RollbackDemote(o) \/ OperatorCrash(o)
      PROVE  Inv'
  <2>1. op[o].pc = "swap" => op[o].bundle.version \in Versions
    BY BundleFacts DEF InstallsGood, Good
  <2>2. TypeOK'
    <3>1. op' = [op EXCEPT ![o] = Idle] /\ op \in [Operators -> CommandType]
      BY <1>5 DEF TypeOK, CommandType, InstallSwap, RollbackDemote, OperatorCrash
    <3>2. op' \in [Operators -> CommandType]
      BY <3>1, IdleType
    <3>3. op[o].seen \in Versions \cup {NoVersion}
      BY <3>1 DEF CommandType
    <3>4. current' \in Versions \cup {NoVersion} /\ lkg' \in Versions \cup {NoVersion}
      BY <1>5, <2>1, <3>3 DEF TypeOK, InstallSwap, RollbackDemote, OperatorCrash
    <3>5. UNCHANGED <<file, gw, tampers>> /\ torn' \in BOOLEAN
      BY <1>5 DEF TypeOK, InstallSwap, RollbackDemote, OperatorCrash
    <3> QED
      BY <3>2, <3>4, <3>5 DEF TypeOK, CommandType
  <2>3. /\ op'[o].pc = "idle" /\ op'[o].seen = NoVersion
        /\ \A p \in Operators \ {o} : op'[p] = op[p]
    BY <1>5 DEF TypeOK, InstallSwap, RollbackDemote, OperatorCrash, Idle
  <2>4. /\ UNCHANGED <<file, tampers, gw>>
        /\ current' = current \/ (op[o].pc = "swap" /\ current' = op[o].bundle.version)
        /\ lkg' = lkg \/ lkg' = op[o].seen
    BY <1>5 DEF InstallSwap, RollbackDemote, OperatorCrash
  <2>5. StoreOK'
    BY <2>3, <2>4 DEF StoreOK, CommandOK, Pointer, Stored, Good
  <2>6. InstallsGood' /\ GatewayOK'
    BY <2>3, <2>4 DEF InstallsGood, GatewayOK, Good
  <2> QED
    BY <2>2, <2>5, <2>6
<1>6. ASSUME NEW o \in Operators, RollbackVerify(o) PROVE Inv'
  <2>1. lkg \in Versions \cup {NoVersion} /\ lkg # NoVersion
    BY <1>6 DEF TypeOK, RollbackVerify, Load
  <2>2. TypeOK'
    BY <1>6 DEF TypeOK, RollbackVerify, Begin, Idle
  <2>3. /\ op'[o].pc = "rb_read" /\ op'[o].seen = NoVersion /\ op'[o].target = lkg
        /\ \A p \in Operators \ {o} : op'[p] = op[p]
    BY <1>6 DEF TypeOK, RollbackVerify, Begin, Idle
  <2>4. StoreOK'
    BY <1>6, <2>1, <2>3 DEF RollbackVerify, StoreOK, CommandOK, Pointer, Stored, Good
  <2>5. InstallsGood' /\ GatewayOK'
    BY <1>6, <2>3 DEF RollbackVerify, InstallsGood, GatewayOK, Good
  <2> QED
    BY <2>2, <2>4, <2>5
<1>7. CASE StartFromStore
  <2>1. CASE Load(current) # NoBundle
    <3>1. Enforce(Load(current), FALSE, current # NoVersion)
      BY <1>7, <2>1 DEF StartFromStore
    <3>2. Good(Load(current)) /\ Load(current) \in Bundles
      BY <2>1, LoadGood DEF Good
    <3> QED
      BY <1>7, <3>1, <3>2, EnforceOK, GatewayStep DEF StartFromStore
  <2>2. CASE Load(current) = NoBundle
    BY <1>7, <2>2, GatewayStep DEF StartFromStore, Crash, GatewayOK, Down
  <2> QED
    BY <2>1, <2>2
<1>8. CASE FallBack
  <2>1. CASE Load(lkg) # NoBundle
    <3>1. Enforce(Load(lkg), TRUE, gw.hadPolicy) /\ gw.hadPolicy \in BOOLEAN
      BY <1>8, <2>1 DEF FallBack, TypeOK
    <3>2. Good(Load(lkg)) /\ Load(lkg) \in Bundles
      BY <2>1, LoadGood DEF Good
    <3> QED
      BY <1>8, <3>1, <3>2, EnforceOK, GatewayStep DEF FallBack
  <2>2. CASE Load(lkg) = NoBundle
    <3>1. gw.hadPolicy \in BOOLEAN
      BY DEF TypeOK
    <3> QED
      BY <1>8, <2>2, <3>1, GatewayStep DEF FallBack, Refuse, Crash, GatewayOK, Down
  <2> QED
    BY <2>1, <2>2
<1>9. ASSUME NEW b \in Bundles \cup {Garbage, Unreadable}, StartFromFile(b) PROVE Inv'
  <2>1. CASE b \in Bundles /\ VerifyBundle(b) /\ Enforce(b, FALSE, FALSE)
    <3>1. b \in Bundles /\ Good(b)
      BY <2>1 DEF Good
    <3> QED
      BY <1>9, <2>1, <3>1, EnforceOK, GatewayStep DEF StartFromFile
  <2>2. CASE gw' = [Down EXCEPT !.state = "failed"] \/ Refuse(FALSE)
    BY <1>9, <2>2, GatewayStep DEF StartFromFile, Refuse, GatewayOK, Down
  <2> QED
    BY <1>9, <2>1, <2>2 DEF StartFromFile
<1>10. CASE GatewayExits
  BY <1>10, GatewayStep DEF GatewayExits, GatewayOK, Down
<1>11. ASSUME NEW s \in Stems, NEW c \in Bundles \cup {Garbage, Unreadable, NoFile}, Tamper(s, c)
       PROVE  Inv'
  <2>1. TypeOK'
    BY <1>11, ConstantsAssumption DEF TypeOK, Tamper
  <2>2. tampers' # 0
    BY <1>11 DEF TypeOK, Tamper
  <2>3. StoreOK' /\ InstallsGood' /\ GatewayOK'
    BY <1>11, <2>2 DEF Tamper, StoreOK, InstallsGood, GatewayOK, Good
  <2> QED
    BY <2>1, <2>3
<1>12. CASE UNCHANGED vars
  BY <1>12, GatewayStep DEF vars, TypeOK, GatewayOK, Good
<1> QED
  BY <1>1, <1>2, <1>3, <1>4, <1>5, <1>6, <1>7, <1>8, <1>9, <1>10, <1>11, <1>12 DEF Next

LEMMA SpecInv == Spec => []Inv
BY InitInv, NextInv, PTL DEF Spec

\* The store, its commands and the gateway keep their types: a pointer names a
\* version, a file holds a bundle, nothing, or garbage.
THEOREM BundleTypeOK == Spec => []TypeOK
<1>1. Inv => TypeOK
  BY DEF Inv
<1> QED
  BY SpecInv, <1>1, PTL

\* A gateway enforces only what the pipeline signed, under its own version,
\* whatever was done to the files of the store (bundle.verify_bundle, called
\* again by BundleStore.current and by wrap).
THEOREM BundleTrust == Spec => []OnlyTrustedEnforced
<1>1. Inv => OnlyTrustedEnforced
  <2> SUFFICES ASSUME Inv, gw.state = "running"
               PROVE  <<gw.bundle.text, gw.bundle.version>> \in Releases
    BY DEF OnlyTrustedEnforced
  <2>1. Good(gw.bundle)
    BY DEF Inv, GatewayOK
  <2> QED
    BY <2>1, BundleFacts DEF Good
<1> QED
  BY SpecInv, <1>1, PTL

\* Killed or overlapping commands never leave the live pointer on a missing or
\* unverified bundle (the order of BundleStore.install: file, then pointers).
THEOREM BundleNeverDark == Spec => []NeverDark
<1>1. Inv => NeverDark
  <2> SUFFICES ASSUME Inv, tampers = 0, current # NoVersion
               PROVE  Load(current) # NoBundle
    BY DEF NeverDark
  <2>1. Stored(current) /\ SafeStem[current] \in Stems
    BY ConstantsAssumption DEF Inv, StoreOK, Pointer, Stored
  <2>2. Good(file[SafeStem[current]])
    BY <2>1 DEF Inv, StoreOK, Stored
  <2> QED
    BY <2>2, MarkersAssumption DEF Load, Good
<1> QED
  BY SpecInv, <1>1, PTL

-----------------------------------------------------------------------------
(* A gateway that refuses to start has a cause.  A live pointer that did   *)
(* not load is remembered as one whose file somebody changed.              *)

Explained ==
  /\ (gw.state = "falling_back" /\ gw.hadPolicy) => tampers > 0
  /\ FailureIsExplained

LEMMA LiveLoads ==
  ASSUME Inv, tampers = 0, current # NoVersion
  PROVE  Load(current) # NoBundle
<1>1. Stored(current) /\ SafeStem[current] \in Stems
  BY ConstantsAssumption DEF Inv, StoreOK, Pointer, Stored
<1>2. Good(file[SafeStem[current]])
  BY <1>1 DEF Inv, StoreOK, Stored
<1> QED
  BY <1>2, MarkersAssumption DEF Load, Good

\* A policy that does not compile leaves no event.
LEMMA EnforceExplained ==
  ASSUME NEW b \in Bundles, NEW f, NEW h, Enforce(b, f, h)
  PROVE  Explained'
<1>1. b # NoBundle
  BY MarkersAssumption
<1>2. CASE b.text \in Compiles
  <2>1. gw'.state = "running"
    BY <1>2 DEF Enforce
  <2> QED
    BY <2>1 DEF Explained, FailureIsExplained
<1>3. CASE b.text \notin Compiles
  <2>1. gw'.state = "failed" /\ gw'.audited = "none" /\ gw'.bundle = b
    BY <1>3 DEF Enforce, Down
  <2> QED
    BY <1>1, <1>3, <2>1 DEF Explained, FailureIsExplained
<1> QED
  BY <1>2, <1>3

LEMMA ExplainedStep ==
  ASSUME Inv, Explained, [Next]_vars
  PROVE  Explained'
<1>1. CASE UNCHANGED <<gw, tampers>>
  BY <1>1 DEF Explained, FailureIsExplained
<1>2. CASE StartFromStore
  <2>1. CASE Load(current) # NoBundle
    <3>1. Enforce(Load(current), FALSE, current # NoVersion)
      BY <1>2, <2>1 DEF StartFromStore
    <3>2. Load(current) \in Bundles
      BY <2>1, LoadGood DEF Inv
    <3> QED
      BY <3>1, <3>2, EnforceExplained
  <2>2. CASE Load(current) = NoBundle
    <3>1. /\ gw'.hadPolicy <=> current # NoVersion
          /\ \/ gw'.state = "falling_back"
             \/ gw'.state = "failed" /\ gw'.audited = "none" /\ gw'.bundle = Unreadable
      BY <1>2, <2>2 DEF StartFromStore, Crash, Down
    <3>2. current # NoVersion => tampers # 0
      BY <2>2, LiveLoads
    <3>3. tampers' = tampers /\ tampers \in Nat
      BY <1>2, ConstantsAssumption DEF StartFromStore, Inv, TypeOK
    <3> QED
      BY <3>1, <3>2, <3>3 DEF Explained, FailureIsExplained
  <2> QED
    BY <2>1, <2>2
<1>3. CASE FallBack
  <2>1. CASE Load(lkg) # NoBundle
    <3>1. Enforce(Load(lkg), TRUE, gw.hadPolicy)
      BY <1>3, <2>1 DEF FallBack
    <3>2. Load(lkg) \in Bundles
      BY <2>1, LoadGood DEF Inv
    <3> QED
      BY <3>1, <3>2, EnforceExplained
  <2>2. CASE Load(lkg) = NoBundle
    <3>1. /\ gw'.state = "failed"
          /\ gw'.audited = "rejected" \/ (gw'.audited = "none" /\ gw'.bundle = Unreadable)
          /\ gw'.hadPolicy = gw.hadPolicy /\ gw.state = "falling_back" /\ tampers' = tampers
      BY <1>3, <2>2 DEF FallBack, Refuse, Crash, Down
    <3> QED
      BY <3>1 DEF Explained, FailureIsExplained
  <2> QED
    BY <2>1, <2>2
<1>4. ASSUME NEW b \in Bundles \cup {Garbage, Unreadable}, StartFromFile(b) PROVE Explained'
  <2>1. CASE b \in Bundles /\ VerifyBundle(b) /\ Enforce(b, FALSE, FALSE)
    BY <2>1, EnforceExplained
  <2>2. CASE gw' = [Down EXCEPT !.state = "failed"] \/ Refuse(FALSE)
    <3>1. gw'.state = "failed" /\ gw'.hadPolicy = FALSE
      BY <2>2 DEF Refuse, Down
    <3> QED
      BY <3>1 DEF Explained, FailureIsExplained
  <2> QED
    BY <1>4, <2>1, <2>2 DEF StartFromFile
<1>5. CASE GatewayExits
  BY <1>5 DEF GatewayExits, Down, Explained, FailureIsExplained
<1>6. ASSUME NEW s \in Stems, NEW c \in Bundles \cup {Garbage, Unreadable, NoFile}, Tamper(s, c)
      PROVE  Explained'
  <2>1. gw' = gw /\ tampers' > 0
    BY <1>6 DEF Tamper, Inv, TypeOK
  <2> QED
    BY <2>1 DEF Explained, FailureIsExplained
<1> QED
  BY <1>1, <1>2, <1>3, <1>4, <1>5, <1>6
  DEF Next, vars, InstallVerify, InstallLook, InstallStore, InstallRead, InstallDemote,
      InstallSwap, RollbackVerify, RollbackRead, RollbackPromote, RollbackDemote, OperatorCrash

\* A gateway that finds a live pointer and refuses to start does so because a
\* file was changed, and says so in the trail unless that file cannot be read, or
\* because a signed policy does not compile (cli _load_bundle_engine).
THEOREM RefusalsAreExplained == Spec => []FailureIsExplained
<1>1. Init => Explained
  BY DEF Init, Down, Explained, FailureIsExplained
<1>2. (Inv /\ Explained) /\ [Next]_vars => Explained'
  BY ExplainedStep
<1>3. Explained => FailureIsExplained
  BY DEF Explained
<1> QED
  BY SpecInv, <1>1, <1>2, <1>3, PTL DEF Spec

-----------------------------------------------------------------------------
(* The fallback is another file.  This is where _safe matters: two         *)
(* versions it maps to one name would share a file.                        *)

OneFilePerVersion ==
  \A v, w \in Versions : SafeStem[v] = SafeStem[w] => v = w

\* The two pointers differ, or there is nothing live yet.
Distinct == IF current = NoVersion THEN lkg = NoVersion ELSE lkg # current

\* Where a command that runs alone stands.
Alone(c) ==
  /\ c.pc \in {"idle", "look", "store", "read"} => Distinct
  /\ c.pc = "demote" => Distinct /\ c.seen = current
  /\ c.pc = "swap" => lkg # c.bundle.version
  /\ c.pc \in {"rb_read", "rb_promote"} => Distinct /\ c.target = lkg /\ lkg # NoVersion
  /\ c.pc = "rb_promote" => c.seen = current
  /\ c.pc = "rb_demote" => c.target = current /\ current # NoVersion /\ c.seen \notin {NoVersion, current}

Apart ==
  ~torn =>
    /\ \A o, p \in Operators : op[o].pc = "idle" \/ op[p].pc = "idle" \/ o = p
    /\ \A o \in Operators : op[o].pc # "idle" => Alone(op[o])
    /\ (\A o \in Operators : op[o].pc = "idle") => Distinct

\* A command starts while no other one runs, or history notes it.
LEMMA BeginApart ==
  ASSUME Inv, Apart, NEW o \in Operators, NEW c, Begin(o, c), UNCHANGED <<current, lkg>>,
         c.pc \in {"look", "rb_read"},
         c.pc = "rb_read" => c.target = lkg /\ lkg # NoVersion
  PROVE  Apart'
<1> SUFFICES ASSUME ~torn' PROVE Apart'
  BY DEF Apart
<1>1. ~torn /\ \A p \in Operators : op[p].pc = "idle"
  BY DEF Begin
<1>2. Distinct'
  BY <1>1 DEF Apart, Distinct
<1>3. op'[o] = c /\ \A p \in Operators \ {o} : op'[p] = op[p]
  BY DEF Begin, Inv, TypeOK
<1>4. Alone(op[o])'
  BY <1>2, <1>3 DEF Alone
<1> QED
  BY <1>1, <1>2, <1>3, <1>4 DEF Apart

\* A command that runs alone takes its next step, or its last one.
LEMMA StepApart ==
  ASSUME Apart, NEW o \in Operators, op[o].pc # "idle", torn' = torn,
         \A p \in Operators \ {o} : op'[p] = op[p],
         ~torn /\ Alone(op[o]) => Alone(op[o])'
  PROVE  Apart'
<1> SUFFICES ASSUME ~torn PROVE Apart'
  BY DEF Apart
<1>1. Alone(op[o])' /\ \A p \in Operators \ {o} : op[p].pc = "idle"
  BY DEF Apart
<1>2. \A p, q \in Operators : (op[p].pc = "idle" \/ op[q].pc = "idle" \/ p = q)'
  BY <1>1
<1>3. \A p \in Operators : (op[p].pc # "idle" => Alone(op[p]))'
  BY <1>1
<1>4. (op[o].pc = "idle" => Distinct)'
  BY <1>1 DEF Alone
<1> QED
  BY <1>2, <1>3, <1>4 DEF Apart

LEMMA ApartStep ==
  ASSUME Inv, Apart, [Next]_vars
  PROVE  Apart'
<1>0. op \in [Operators -> CommandType] /\ lkg \in Versions \cup {NoVersion}
  BY DEF Inv, TypeOK, CommandType
<1>1. CASE UNCHANGED <<op, current, lkg, torn>>
  BY <1>1 DEF Apart, Alone, Distinct
<1>2. ASSUME NEW o \in Operators, NEW b \in Bundles, InstallVerify(o, b) PROVE Apart'
  <2> DEFINE c == [Idle EXCEPT !.pc = "look", !.bundle = b]
  <2>1. c.pc = "look"
    BY DEF Idle
  <2>2. Begin(o, c) /\ UNCHANGED <<current, lkg>>
    BY <1>2 DEF InstallVerify
  <2> HIDE DEF c
  <2> QED
    BY <2>1, <2>2, BeginApart
<1>3. ASSUME NEW o \in Operators, RollbackVerify(o) PROVE Apart'
  <2> DEFINE c == [Idle EXCEPT !.pc = "rb_read", !.target = lkg]
  <2>1. c.pc = "rb_read" /\ c.target = lkg /\ lkg # NoVersion
    BY <1>3 DEF Idle, RollbackVerify, Load
  <2>2. Begin(o, c) /\ UNCHANGED <<current, lkg>>
    BY <1>3 DEF RollbackVerify
  <2> HIDE DEF c
  <2> QED
    BY <2>1, <2>2, BeginApart
<1>4. ASSUME NEW o \in Operators, InstallLook(o) \/ InstallStore(o) PROVE Apart'
  <2>1. /\ op[o].pc # "idle" /\ UNCHANGED <<torn, current, lkg>>
        /\ op'[o].pc \in {"store", "read"} /\ op[o].pc \in {"look", "store"}
        /\ \A p \in Operators \ {o} : op'[p] = op[p]
    BY <1>0, <1>4 DEF InstallLook, InstallStore, Goto, CommandType
  <2>2. Alone(op[o]) => Alone(op[o])'
    BY <2>1 DEF Alone, Distinct
  <2> QED
    BY <2>1, <2>2, StepApart
<1>5. ASSUME NEW o \in Operators, InstallRead(o) PROVE Apart'
  <2>1. /\ op[o].pc = "read" /\ UNCHANGED <<torn, current, lkg>>
        /\ op'[o].pc = "demote" /\ op'[o].seen = current
        /\ \A p \in Operators \ {o} : op'[p] = op[p]
    BY <1>0, <1>5 DEF InstallRead, CommandType
  <2>2. Alone(op[o]) => Alone(op[o])'
    BY <2>1 DEF Alone, Distinct
  <2> QED
    BY <2>1, <2>2, StepApart
<1>6. ASSUME NEW o \in Operators, InstallDemote(o) PROVE Apart'
  <2>1. /\ op[o].pc = "demote" /\ UNCHANGED <<torn, current>>
        /\ op'[o].pc = "swap" /\ op'[o].bundle = op[o].bundle
        /\ \A p \in Operators \ {o} : op'[p] = op[p]
    BY <1>0, <1>6 DEF InstallDemote, Goto, CommandType
  <2>2. lkg' = IF op[o].seen \notin {NoVersion, op[o].bundle.version}
               THEN op[o].seen ELSE lkg
    BY <1>6 DEF InstallDemote
  <2>3. op[o].bundle.version \in Versions
    BY <2>1, BundleFacts DEF Inv, InstallsGood, Good
  <2>4. Alone(op[o]) => lkg' # op[o].bundle.version
    BY <2>1, <2>2, <2>3, ConstantsAssumption DEF Alone, Distinct
  <2>5. Alone(op[o]) => Alone(op[o])'
    BY <2>1, <2>4 DEF Alone
  <2> QED
    BY <2>1, <2>5, StepApart
<1>7. ASSUME NEW o \in Operators, InstallSwap(o) PROVE Apart'
  <2>1. /\ op[o].pc = "swap" /\ UNCHANGED <<torn, lkg>>
        /\ op'[o].pc = "idle" /\ current' = op[o].bundle.version
        /\ \A p \in Operators \ {o} : op'[p] = op[p]
    BY <1>0, <1>7 DEF InstallSwap, Idle
  <2>2. op[o].bundle.version \in Versions
    BY <2>1, BundleFacts DEF Inv, InstallsGood, Good
  <2>3. Alone(op[o]) => Alone(op[o])'
    BY <2>1, <2>2, ConstantsAssumption DEF Alone, Distinct
  <2> QED
    BY <2>1, <2>3, StepApart
<1>8. ASSUME NEW o \in Operators, RollbackRead(o) PROVE Apart'
  <2>1. /\ op[o].pc = "rb_read" /\ UNCHANGED <<torn, current, lkg>>
        /\ op'[o].pc = "rb_promote" /\ op'[o].seen = current /\ op'[o].target = op[o].target
        /\ \A p \in Operators \ {o} : op'[p] = op[p]
    BY <1>0, <1>8 DEF RollbackRead, CommandType
  <2>2. Alone(op[o]) => Alone(op[o])'
    BY <2>1 DEF Alone, Distinct
  <2> QED
    BY <2>1, <2>2, StepApart
<1>9. ASSUME NEW o \in Operators, RollbackPromote(o) PROVE Apart'
  <2>1. /\ op[o].pc = "rb_promote" /\ UNCHANGED <<torn, lkg>> /\ current' = op[o].target
        /\ op'[o].pc = "rb_demote" /\ op'[o].seen = op[o].seen /\ op'[o].target = op[o].target
        /\ \A p \in Operators \ {o} : op'[p] = op[p]
    BY <1>0, <1>9 DEF RollbackPromote, Goto, CommandType
  <2>2. Alone(op[o]) => Alone(op[o])'
    BY <2>1 DEF Alone, Distinct
  <2> QED
    BY <2>1, <2>2, StepApart
<1>10. ASSUME NEW o \in Operators, RollbackDemote(o) PROVE Apart'
  <2>1. /\ op[o].pc = "rb_demote" /\ UNCHANGED <<torn, current>>
        /\ lkg' = (IF op[o].seen # NoVersion THEN op[o].seen ELSE lkg)
        /\ op'[o].pc = "idle"
        /\ \A p \in Operators \ {o} : op'[p] = op[p]
    BY <1>0, <1>10 DEF RollbackDemote, Idle
  <2>2. Alone(op[o]) => Alone(op[o])'
    BY <2>1 DEF Alone, Distinct
  <2> QED
    BY <2>1, <2>2, StepApart
<1>11. ASSUME NEW o \in Operators, OperatorCrash(o) PROVE Apart'
  BY <1>11 DEF OperatorCrash, Apart
<1> QED
  BY <1>1, <1>2, <1>3, <1>4, <1>5, <1>6, <1>7, <1>8, <1>9, <1>10, <1>11
  DEF Next, vars, StartFromStore, FallBack, StartFromFile, GatewayExits, Tamper

\* All that StoreOK says, but for one file.
KnownBut(v, s) == v \in Versions /\ (SafeStem[v] = s \/ file[SafeStem[v]] # NoFile)

PointerBut(p, s) == p = NoVersion \/ KnownBut(p, s)

CommandBut(c, s) ==
  /\ c.pc \in {"read", "demote", "swap"} => KnownBut(c.bundle.version, s)
  /\ c.pc \in {"rb_read", "rb_promote", "rb_demote"} => KnownBut(c.target, s)
  /\ PointerBut(c.seen, s)

SoundBut(s) ==
  /\ \A t \in Stems \ {s} : file[t] = NoFile \/ Good(file[t])
  /\ PointerBut(current, s) /\ PointerBut(lkg, s)
  /\ \A o \in Operators : CommandBut(op[o], s)

OneBad == tampers = 1 => \E s \in Stems : SoundBut(s)

\* One command moves on: what it and the pointers name was named before.
LEMMA CommandSound ==
  ASSUME NEW s \in Stems, SoundBut(s), NEW o \in Operators,
         UNCHANGED file,
         \A p \in Operators \ {o} : op'[p] = op[p],
         op'[o].pc \in {"read", "demote", "swap"} => KnownBut(op'[o].bundle.version, s),
         op'[o].pc \in {"rb_read", "rb_promote", "rb_demote"} => KnownBut(op'[o].target, s),
         PointerBut(op'[o].seen, s),
         PointerBut(current', s), PointerBut(lkg', s)
  PROVE  SoundBut(s)'
<1>1. \A t \in Stems \ {s} : (file[t] = NoFile \/ Good(file[t]))'
  BY DEF SoundBut, Good
<1>2. PointerBut(current, s)' /\ PointerBut(lkg, s)'
  BY DEF PointerBut, KnownBut
<1>3. \A p \in Operators : CommandBut(op[p], s)'
  BY DEF SoundBut, CommandBut, PointerBut, KnownBut
<1> QED
  BY <1>1, <1>2, <1>3 DEF SoundBut

LEMMA SoundStep ==
  ASSUME Inv, [Next]_vars, tampers' = tampers, NEW s \in Stems, SoundBut(s)
  PROVE  SoundBut(s)'
<1>0. op \in [Operators -> CommandType] /\ file \in [Stems -> Bundles \cup {NoFile, Garbage, Unreadable}]
  BY DEF Inv, TypeOK, CommandType
<1>1. CASE UNCHANGED <<file, op, current, lkg>>
  BY <1>1 DEF SoundBut, CommandBut, PointerBut, KnownBut, Good
<1>2. ASSUME NEW o \in Operators, NEW b \in Bundles, InstallVerify(o, b) PROVE SoundBut(s)'
  <2>1. /\ op'[o].pc = "look" /\ op'[o].seen = NoVersion
        /\ \A p \in Operators \ {o} : op'[p] = op[p]
        /\ UNCHANGED <<file, current, lkg>>
    BY <1>0, <1>2 DEF InstallVerify, Begin, Idle
  <2> QED
    BY <2>1, CommandSound DEF SoundBut, PointerBut
<1>3. ASSUME NEW o \in Operators, RollbackVerify(o) PROVE SoundBut(s)'
  <2>1. /\ op'[o].pc = "rb_read" /\ op'[o].seen = NoVersion /\ op'[o].target = lkg
        /\ \A p \in Operators \ {o} : op'[p] = op[p]
        /\ UNCHANGED <<file, current, lkg>> /\ lkg # NoVersion
    BY <1>0, <1>3 DEF RollbackVerify, Begin, Idle, Load
  <2> QED
    BY <2>1, CommandSound DEF SoundBut, PointerBut
<1>4. ASSUME NEW o \in Operators, InstallLook(o) PROVE SoundBut(s)'
  <2>1. /\ op'[o].pc \in {"store", "read"} /\ op'[o].seen = op[o].seen
        /\ op'[o].bundle = op[o].bundle
        /\ op'[o].pc = "read" => file[SafeStem[op[o].bundle.version]] # NoFile
        /\ \A p \in Operators \ {o} : op'[p] = op[p]
        /\ UNCHANGED <<file, current, lkg>> /\ op[o].pc = "look"
    BY <1>0, <1>4 DEF InstallLook, Goto, CommandType
  <2>2. op[o].bundle.version \in Versions
    BY <2>1, BundleFacts DEF Inv, InstallsGood, Good
  <2> QED
    BY <2>1, <2>2, CommandSound DEF SoundBut, CommandBut, KnownBut
<1>5. ASSUME NEW o \in Operators, InstallStore(o) PROVE SoundBut(s)'
  <2>1. Good(op[o].bundle) /\ op[o].bundle.version \in Versions
    BY <1>5, BundleFacts DEF InstallStore, Inv, InstallsGood, Good
  <2>2. SafeStem[op[o].bundle.version] \in Stems /\ op[o].bundle # NoFile
    BY <2>1, ConstantsAssumption, MarkersAssumption DEF Good
  <2>3. /\ op'[o].pc = "read" /\ op'[o].seen = op[o].seen /\ op'[o].bundle = op[o].bundle
        /\ \A p \in Operators \ {o} : op'[p] = op[p]
        /\ UNCHANGED <<current, lkg>>
    BY <1>0, <1>5 DEF InstallStore, Goto, CommandType
  <2>4. /\ file'[SafeStem[op[o].bundle.version]] # NoFile
        /\ \A t \in Stems : file'[t] = file[t] \/ file'[t] = op[o].bundle
    BY <1>0, <1>5, <2>2 DEF InstallStore
  <2>5. \A v : KnownBut(v, s) => KnownBut(v, s)'
    BY <2>2, <2>4, ConstantsAssumption DEF KnownBut
  <2>6. \A t \in Stems \ {s} : (file[t] = NoFile \/ Good(file[t]))'
    BY <2>1, <2>4 DEF SoundBut, Good
  <2>7. PointerBut(current, s)' /\ PointerBut(lkg, s)'
    BY <2>3, <2>5 DEF SoundBut, PointerBut, KnownBut
  <2>8. \A p \in Operators \ {o} : CommandBut(op[p], s)'
    BY <2>3, <2>5 DEF SoundBut, CommandBut, PointerBut, KnownBut
  <2>9. CommandBut(op[o], s)'
    BY <2>1, <2>3, <2>4, <2>5 DEF SoundBut, CommandBut, PointerBut, KnownBut
  <2> QED
    BY <2>6, <2>7, <2>8, <2>9 DEF SoundBut
<1>6. ASSUME NEW o \in Operators,
             InstallRead(o) \/ InstallDemote(o) \/ RollbackRead(o) \/ RollbackPromote(o)
      PROVE  SoundBut(s)'
  <2>1. /\ op'[o].bundle = op[o].bundle /\ op'[o].target = op[o].target
        /\ \/ op'[o].seen = op[o].seen
           \/ op'[o].seen = current
        /\ op'[o].pc \in {"demote", "swap"} => op[o].pc \in {"read", "demote"}
        /\ op'[o].pc \in {"rb_promote", "rb_demote"} => op[o].pc \in {"rb_read", "rb_promote"}
        /\ op'[o].pc \in {"demote", "swap", "rb_promote", "rb_demote"}
        /\ \A p \in Operators \ {o} : op'[p] = op[p]
    BY <1>0, <1>6
    DEF CommandType, InstallRead, InstallDemote, RollbackRead, RollbackPromote, Goto
  <2>2. /\ UNCHANGED file
        /\ current' = current \/ (op[o].pc = "rb_promote" /\ current' = op[o].target)
        /\ lkg' = lkg \/ lkg' = op[o].seen
    BY <1>6 DEF InstallRead, InstallDemote, RollbackRead, RollbackPromote
  <2>3. PointerBut(current', s) /\ PointerBut(lkg', s)
    BY <2>2 DEF SoundBut, CommandBut, PointerBut
  <2>4. /\ op'[o].pc \in {"read", "demote", "swap"} => KnownBut(op'[o].bundle.version, s)
        /\ op'[o].pc \in {"rb_read", "rb_promote", "rb_demote"} => KnownBut(op'[o].target, s)
        /\ PointerBut(op'[o].seen, s)
    BY <2>1 DEF SoundBut, CommandBut
  <2> QED
    BY <2>1, <2>2, <2>3, <2>4, CommandSound
<1>7. ASSUME NEW o \in Operators, InstallSwap(o) \/ RollbackDemote(o) \/ OperatorCrash(o)
      PROVE  SoundBut(s)'
  <2>1. /\ op'[o].pc = "idle" /\ op'[o].seen = NoVersion
        /\ \A p \in Operators \ {o} : op'[p] = op[p]
    BY <1>0, <1>7 DEF InstallSwap, RollbackDemote, OperatorCrash, Idle
  <2>2. /\ UNCHANGED file
        /\ current' = current \/ (op[o].pc = "swap" /\ current' = op[o].bundle.version)
        /\ lkg' = lkg \/ lkg' = op[o].seen
    BY <1>7 DEF InstallSwap, RollbackDemote, OperatorCrash
  <2>3. PointerBut(current', s) /\ PointerBut(lkg', s)
    BY <2>2 DEF SoundBut, CommandBut, PointerBut
  <2> QED
    BY <2>1, <2>2, <2>3, CommandSound DEF PointerBut
<1>8. ASSUME NEW t \in Stems, NEW c \in Bundles \cup {Garbage, Unreadable, NoFile}, Tamper(t, c)
      PROVE  SoundBut(s)'
  BY <1>8 DEF Tamper, Inv, TypeOK
<1> QED
  BY <1>1, <1>2, <1>3, <1>4, <1>5, <1>6, <1>7, <1>8
  DEF Next, vars, StartFromStore, FallBack, StartFromFile, GatewayExits

LEMMA OneBadStep ==
  ASSUME Inv, OneBad, [Next]_vars
  PROVE  OneBad'
<1>0. tampers \in Nat
  BY ConstantsAssumption DEF Inv, TypeOK
<1>1. ASSUME NEW s \in Stems, NEW c \in Bundles \cup {Garbage, Unreadable, NoFile}, Tamper(s, c)
      PROVE  OneBad'
  <2> SUFFICES ASSUME tampers = 0 PROVE SoundBut(s)'
    BY <1>0, <1>1 DEF OneBad, Tamper
  <2>1. /\ \A t \in Stems \ {s} : file'[t] = file[t]
        /\ UNCHANGED <<current, lkg, op>>
    BY <1>1 DEF Tamper, Inv, TypeOK
  <2>2. \A v : Stored(v) => KnownBut(v, s)'
    BY <2>1, ConstantsAssumption DEF Stored, KnownBut
  <2>3. \A t \in Stems \ {s} : (file[t] = NoFile \/ Good(file[t]))'
    BY <2>1 DEF Inv, StoreOK, Good
  <2>4. PointerBut(current, s)' /\ PointerBut(lkg, s)'
    BY <2>1, <2>2 DEF Inv, StoreOK, Pointer, PointerBut, KnownBut
  <2>5. \A o \in Operators : CommandBut(op[o], s)'
    <3> SUFFICES ASSUME NEW o \in Operators PROVE CommandBut(op[o], s)'
      OBVIOUS
    <3>1. CommandOK(op[o]) /\ op'[o] = op[o]
      BY <2>1 DEF Inv, StoreOK
    <3> QED
      BY <2>2, <3>1 DEF CommandOK, Pointer, CommandBut, PointerBut, KnownBut
  <2> QED
    BY <2>3, <2>4, <2>5 DEF SoundBut
<1>2. CASE tampers' = tampers
  BY <1>2, SoundStep DEF OneBad
<1> QED
  BY <1>1, <1>2
  DEF Next, vars, InstallVerify, InstallLook, InstallStore, InstallRead, InstallDemote,
      InstallSwap, RollbackVerify, RollbackRead, RollbackPromote, RollbackDemote, OperatorCrash,
      StartFromStore, FallBack, StartFromFile, GatewayExits

\* Between commands that ran to their end one bundle file may go bad and the
\* store still serves the other, unless it is the live one and cannot be read,
\* and a gateway that refuses to start has a cause.  Versions must have file names of their own: _safe replaces the
\* characters it does not like, and what it maps together shares a file.
\* (bundle_store.py install, rollback, current; cli _load_bundle_engine)
THEOREM StoreHeals == OneFilePerVersion => (Spec => []StartsOrExplains)
<1> SUFFICES ASSUME OneFilePerVersion PROVE Spec => []StartsOrExplains
  OBVIOUS
<1> DEFINE All == Inv /\ Explained /\ Apart /\ OneBad
<1>1. Init => Explained /\ Apart /\ OneBad
  BY DEF Init, Down, Idle, Explained, FailureIsExplained, Apart, Distinct, OneBad
<1>2. All /\ [Next]_vars => Explained' /\ Apart' /\ OneBad'
  BY ExplainedStep, ApartStep, OneBadStep
<1>3. All => StartsOrExplains
  <2> SUFFICES ASSUME All, tampers <= 1, ~torn, current # NoVersion, lkg # NoVersion,
                      \A o \in Operators : op[o].pc = "idle", ~Raises(current)
               PROVE  Resolve # NoBundle
    BY DEF StartsOrExplains, HealsOneFile, OneBadFile, Explained
  <2>0. /\ tampers \in {0, 1}
        /\ current \in Versions /\ lkg \in Versions
    BY ConstantsAssumption DEF Inv, TypeOK
  <2>1. current # lkg
    BY DEF Apart, Distinct
  <2>2. CASE tampers = 0
    BY <2>2, LiveLoads DEF Resolve
  <2>3. CASE tampers = 1
    <3>1. PICK s \in Stems : SoundBut(s)
      BY <2>3 DEF OneBad
    <3>2. \A v \in {current, lkg} : SafeStem[v] # s => Good(file[SafeStem[v]])
      BY <2>0, <3>1, ConstantsAssumption DEF SoundBut, PointerBut, KnownBut
    <3>3. \A v \in {current, lkg} : SafeStem[v] # s => Load(v) # NoBundle
      BY <2>0, <3>2, MarkersAssumption, ConstantsAssumption DEF Load, Good
    <3>4. SafeStem[current] # s \/ SafeStem[lkg] # s
      BY <2>0, <2>1 DEF OneFilePerVersion
    <3> QED
      BY <3>3, <3>4 DEF Resolve
  <2> QED
    BY <2>0, <2>2, <2>3
<1> QED
  BY SpecInv, <1>1, <1>2, <1>3, PTL DEF Spec

-----------------------------------------------------------------------------
(* install leaves the file of a version that is already there, so what it  *)
(* makes live is what it was given when a release has a file of its own.   *)

OneFilePerRelease ==
  \A r, q \in Releases : SafeStem[r[2]] = SafeStem[q[2]] => r = q

\* What verifies is a bundle of the pipeline, to the last field.
LEMMA VerifiedIsReleased ==
  ASSUME NEW b, Good(b)
  PROVE  \E r \in Releases : b = SignBundle(BuildBundle(r[1], r[2]), TrustedKey) /\ b.version = r[2]
<1>1. CASE b \in Released
  BY <1>1 DEF Released, SignBundle, BuildBundle, Manifest
<1>2. CASE \E a \in Released : b \in Alterations(a)
  <2>1. PICK a \in Released : b \in Alterations(a)
    BY <1>2
  <2>2. PICK r \in Releases :
           /\ a = [version |-> r[2], text |-> r[1], hash |-> r[1],
                   sig |-> [key |-> TrustedKey, over |-> [version |-> r[2], hash |-> r[1]]]]
           /\ r[1] \in Texts /\ r[2] \in Versions
    BY ReleasedFields
  <2>3. a = SignBundle(BuildBundle(r[1], r[2]), TrustedKey) /\ a.version = r[2]
    BY <2>2 DEF SignBundle, BuildBundle, Manifest
  <2>4. CASE \E t \in Texts : b = [a EXCEPT !.text = t]
    BY <2>2, <2>3, <2>4 DEF Good, VerifyBundle
  <2>5. CASE \E t \in Texts : b = [a EXCEPT !.text = t, !.hash = t]
    <3>1. PICK t \in Texts : b = [a EXCEPT !.text = t, !.hash = t]
      BY <2>5
    <3>2. b.sig = [key |-> TrustedKey, over |-> Manifest(b)]
      BY DEF Good, VerifyBundle, SignatureState
    <3>3. t = r[1]
      BY <2>2, <3>1, <3>2 DEF Manifest
    <3>4. b = [version |-> r[2], text |-> t, hash |-> t,
               sig |-> [key |-> TrustedKey, over |-> [version |-> r[2], hash |-> r[1]]]]
      BY <2>2, <3>1
    <3> QED
      BY <2>2, <2>3, <3>3, <3>4
  <2>6. CASE \E v \in Versions : b = [a EXCEPT !.version = v]
    BY <2>2, <2>3, <2>6 DEF Good, VerifyBundle, SignatureState, Manifest
  <2>7. CASE b = BuildBundle(a.text, a.version)
    BY <2>2, <2>7 DEF Good, VerifyBundle, SignatureState, BuildBundle
  <2>8. CASE b = SignBundle(a, OtherKey)
    BY <2>2, <2>8, ConstantsAssumption DEF Good, VerifyBundle, SignatureState, SignBundle, Manifest
  <2> QED
    BY <2>1, <2>4, <2>5, <2>6, <2>7, <2>8 DEF Alterations
<1> QED
  BY <1>1, <1>2 DEF Good, Bundles

\* A file that nobody changed has the name of the bundle in it.
Named ==
  tampers = 0 =>
    \A s \in Stems : file[s] # NoFile => SafeStem[file[s].version] = s

LEMMA NamedStep ==
  ASSUME Inv, Named, [Next]_vars
  PROVE  Named'
<1>1. CASE UNCHANGED <<file, tampers>>
  BY <1>1 DEF Named
<1>2. ASSUME NEW o \in Operators, InstallStore(o) PROVE Named'
  <2>1. op[o].bundle.version \in Versions
    BY <1>2, BundleFacts DEF InstallStore, Inv, InstallsGood, Good
  <2>2. SafeStem[op[o].bundle.version] \in Stems
    BY <2>1, ConstantsAssumption
  <2>3. /\ \A s \in Stems : file'[s] = IF s = SafeStem[op[o].bundle.version]
                                       THEN op[o].bundle ELSE file[s]
        /\ tampers' = tampers
    BY <1>2, <2>2 DEF InstallStore, Inv, TypeOK
  <2> QED
    BY <2>3 DEF Named
<1>3. ASSUME NEW s \in Stems, NEW c \in Bundles \cup {Garbage, Unreadable, NoFile}, Tamper(s, c)
      PROVE  Named'
  BY <1>3 DEF Tamper, Inv, TypeOK, Named
<1> QED
  BY <1>1, <1>2, <1>3
  DEF Next, vars, InstallVerify, InstallLook, InstallRead, InstallDemote,
      InstallSwap, RollbackVerify, RollbackRead, RollbackPromote, RollbackDemote, OperatorCrash,
      StartFromStore, FallBack, StartFromFile, GatewayExits

\* The last write of install makes live the very bundle it was given, however
\* many operators install and roll back at once, provided that no two releases
\* share a file (bundle_store.py install writes the file of a version once).
THEOREM InstalledIsLive == OneFilePerRelease => (Spec => InstallMakesLive)
<1> SUFFICES ASSUME OneFilePerRelease PROVE Spec => InstallMakesLive
  OBVIOUS
<1>1. Init => Named
  BY DEF Init, Named
<1>2. Inv /\ Named /\ [Next]_vars => Named'
  BY NamedStep
<1>3. ASSUME Inv, Named, NEW o \in Operators, tampers = 0, InstallSwap(o)
      PROVE  Load(current)' = op[o].bundle
  <2> DEFINE b == op[o].bundle
             f == file[SafeStem[b.version]]
  <2>1. op[o].pc = "swap" /\ current' = b.version /\ file' = file
    BY <1>3 DEF InstallSwap
  <2>2. Good(b) /\ Stored(b.version)
    BY <1>3, <2>1 DEF Inv, StoreOK, CommandOK
  <2>3. SafeStem[b.version] \in Stems /\ f # NoFile /\ b.version # NoVersion
    BY <2>2, ConstantsAssumption DEF Stored
  <2>4. Good(f) /\ SafeStem[f.version] = SafeStem[b.version]
    BY <1>3, <2>3 DEF Inv, StoreOK, Named
  <2>5. PICK r \in Releases : b = SignBundle(BuildBundle(r[1], r[2]), TrustedKey) /\ b.version = r[2]
    BY <2>2, VerifiedIsReleased
  <2>6. PICK q \in Releases : f = SignBundle(BuildBundle(q[1], q[2]), TrustedKey) /\ f.version = q[2]
    BY <2>4, VerifiedIsReleased
  <2>7. SafeStem[q[2]] = SafeStem[r[2]]
    BY <2>4, <2>5, <2>6
  <2>8. f = b
    BY <2>5, <2>6, <2>7 DEF OneFilePerRelease
  <2>9. b \in Bundles /\ VerifyBundle(b)
    BY <2>2 DEF Good
  <2> HIDE DEF b
  <2>10. Load(current)' = b
    BY <2>1, <2>3, <2>8, <2>9 DEF Load, VerifyBundle, SignatureState
  <2> QED
    BY <2>10 DEF b
<1>4. Inv /\ Named =>
        \A o \in Operators : (tampers = 0 /\ InstallSwap(o)) => Load(current)' = op[o].bundle
  BY <1>3
<1> QED
  BY SpecInv, <1>1, <1>2, <1>4, PTL DEF Spec, InstallMakesLive

=============================================================================
