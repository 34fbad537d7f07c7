------------------------- MODULE SharedStateProofs -------------------------
(* What gateway processes may rely on in the stores they share, for every     *)
(* set of processes, values and keys and every suspension threshold: a saved  *)
(* mark outlives the process that saved it, a token handed out can be         *)
(* reversed, and the vault is only ever locked after a lost race.             *)
EXTENDS SharedState, TLAPS

---------------------------------------------------------------------------
(* The session store.  The invariant says of the stored value and of every  *)
(* copy that a session below its threshold is the only kind not suspended,   *)
(* so that the score stays in its range, and of a session that was never     *)
(* held twice that a gateway about to create it has nothing to overwrite.    *)

\* A score at the threshold means a suspended session.
Gated(s) == s.suspended \/ s.score < SuspendAt

ScoresGated ==
  /\ Readable => Gated(blob)
  /\ \A r \in Replicas : Bound(r) => Gated(view[r])

\* Only a gateway that holds the session has a line to save.
LinesAreHeld == \A r \in Replicas : phase[r] = "unsaved" => Bound(r)

\* A value that is not there carries no mark.
LostIsForgotten == ~Readable => acked = {}

SoleHolder ==
  ~overlap =>
    /\ \A q, r \in Holders : q = r
    /\ \A r \in Replicas : phase[r] = "creating" => ~Readable

SessInv == /\ TakeoverKeepsMarks /\ ScoresGated /\ LinesAreHeld
           /\ LostIsForgotten /\ SoleHolder

LEMMA FreshType == Fresh \in Sessions /\ to_dict(Fresh) \in Blobs /\ Gated(Fresh)
                   /\ Gated(to_dict(Fresh)) /\ Marks(Fresh) = {} /\ Marks(to_dict(Fresh)) = {}
BY SessAssumption DEF Fresh, Sessions, Blobs, to_dict, Gated, Marks

\* Storing and loading keep the score and the marks.
LEMMA RoundTrip ==
  /\ \A s \in Sessions : /\ to_dict(s) \in Blobs /\ Marks(to_dict(s)) = Marks(s)
                         /\ Gated(s) => Gated(to_dict(s))
  /\ \A b \in Blobs : /\ from_dict(b) \in Sessions /\ Marks(from_dict(b)) = Marks(b)
                      /\ Gated(b) => Gated(from_dict(b))
<1>1. ASSUME NEW s \in Sessions
      PROVE  /\ to_dict(s) \in Blobs /\ Marks(to_dict(s)) = Marks(s)
             /\ Gated(s) => Gated(to_dict(s))
  BY DEF Sessions, Blobs, to_dict, Gated, Marks
<1>2. ASSUME NEW b \in Blobs
      PROVE  /\ from_dict(b) \in Sessions /\ Marks(from_dict(b)) = Marks(b)
             /\ Gated(b) => Gated(from_dict(b))
  BY DEF Sessions, Blobs, from_dict, Gated, Marks
<1> QED
  BY <1>1, <1>2

\* A line never takes a mark away, and the gate keeps the score in its range.
LEMMA JudgedKeepsMarks ==
  ASSUME NEW s \in Sessions, Gated(s), NEW kind
  PROVE  /\ Judged(s, kind) \in Sessions /\ Gated(Judged(s, kind))
         /\ Marks(s) \subseteq Marks(Judged(s, kind))
<1> USE SessAssumption DEF Sessions, Gated, Marks
<1>1. CASE kind = "response"
  BY <1>1 DEF Judged
<1>2. CASE kind # "response" /\ s.suspended
  <2>1. Judged(s, kind) = s
    BY <1>2 DEF Judged
  <2> QED
    BY <2>1
<1>3. CASE kind = "source" /\ ~s.suspended
  BY <1>3 DEF Judged
<1>4. CASE kind = "denied" /\ ~s.suspended
  <2>1. s.score < SuspendAt /\ s.score + 1 \in 0..SuspendAt
    BY <1>4
  <2>2. Judged(s, kind) = [s EXCEPT !.score = @ + 1, !.suspended = s.score + 1 >= SuspendAt]
    BY <1>4 DEF Judged
  <2> DEFINE over == s.score + 1 >= SuspendAt
             n == s.score + 1
  <2>3. over \in BOOLEAN /\ (over <=> n >= SuspendAt) /\ n \in 0..SuspendAt
    BY <2>1
  <2>4. Judged(s, kind) = [s EXCEPT !.score = n, !.suspended = over]
    BY <2>2
  <2> HIDE DEF over, n
  <2>5. /\ Judged(s, kind).score = n /\ Judged(s, kind).suspended = over
        /\ Judged(s, kind).tainted = s.tainted /\ Judged(s, kind) \in Sessions
    BY <1>4, <2>3, <2>4
  <2>6. Gated(Judged(s, kind))
    BY <2>3, <2>5
  <2> QED
    BY <1>4, <2>5, <2>6
<1>5. CASE kind \notin {"response", "source", "denied"} /\ ~s.suspended
  BY <1>5 DEF Judged
<1> QED
  BY <1>1, <1>2, <1>3, <1>4, <1>5

LEMMA SessInitInv == SessInit => SessInv
<1> SUFFICES ASSUME SessInit PROVE SessInv
  OBVIOUS
<1>1. \A r \in Replicas : ~Bound(r) /\ phase[r] = "idle"
  BY DEF SessInit, Bound
<1>2. acked = {} /\ Holders = {}
  BY <1>1 DEF SessInit, Holders
<1>3. SessTypeOK
  BY FreshType DEF SessInit, SessTypeOK
<1>4. Readable => Gated(blob)
  BY FreshType DEF SessInit, Readable
<1> QED
  BY <1>1, <1>2, <1>3, <1>4
  DEF SessInv, TakeoverKeepsMarks, ScoresGated, LinesAreHeld, LostIsForgotten, SoleHolder

LEMMA SessStep ==
  ASSUME SessInv, SessNext \/ (\E r \in Replicas : Release(r)) \/ UNCHANGED sessVars
  PROVE  SessInv'
<1> USE DEF SessInv
<1>t. /\ blob \in Blobs \cup {Missing, Corrupt}
      /\ view \in [Replicas -> Sessions \cup {Unbound}]
      /\ phase \in [Replicas -> {"idle", "creating", "unsaved"}]
      /\ acked \subseteq {"taint", "suspension"} /\ overlap \in BOOLEAN
      /\ Readable <=> blob \in Blobs
      /\ \A r \in Replicas : Bound(r) <=> view[r] \in Sessions
  BY SessAssumption DEF TakeoverKeepsMarks, SessTypeOK, Readable, Bound
<1>1. ASSUME NEW r \in Replicas, Bind(r), Readable PROVE SessInv'
  <2>1. /\ view' = [view EXCEPT ![r] = from_dict(blob)]
        /\ UNCHANGED <<phase, blob, acked>> /\ ~Bound(r)
    BY <1>1 DEF Bind
  <2>2. overlap' <=> (overlap \/ Holders # {})
    BY <1>1, Zenon DEF Bind
  <2>3. /\ from_dict(blob) \in Sessions /\ Gated(from_dict(blob))
        /\ Marks(from_dict(blob)) = Marks(blob)
    BY <1>t, <1>1, RoundTrip DEF ScoresGated
  <2>4. /\ view'[r] = from_dict(blob) /\ \A q \in Replicas \ {r} : view'[q] = view[q]
        /\ view' \in [Replicas -> Sessions \cup {Unbound}]
    BY <1>t, <2>1, <2>3
  <2>5. Readable' <=> Readable
    BY <2>1 DEF Readable
  <2>6. /\ Bound(r)' /\ \A q \in Replicas \ {r} : Bound(q)' <=> Bound(q)
        /\ Holders' = Holders \cup {r}
    BY <2>1, <2>3, <2>4, SessAssumption DEF Bound, Holders
  <2>7. TakeoverKeepsMarks'
    BY <1>t, <1>1, <2>1, <2>2, <2>3, <2>4, <2>5, <2>6 DEF TakeoverKeepsMarks, SessTypeOK
  <2>8. ScoresGated' /\ LinesAreHeld' /\ LostIsForgotten'
    BY <2>1, <2>3, <2>4, <2>5, <2>6 DEF ScoresGated, LinesAreHeld, LostIsForgotten
  <2>9. SoleHolder'
    BY <2>1, <2>2, <2>5, <2>6 DEF SoleHolder, Holders
  <2> QED
    BY <2>7, <2>8, <2>9
<1>2. ASSUME NEW r \in Replicas, Bind(r), ~Readable PROVE SessInv'
  <2>1. /\ phase' = [phase EXCEPT ![r] = "creating"]
        /\ UNCHANGED <<view, blob, acked>>
    BY <1>2 DEF Bind
  <2>2. overlap' <=> (overlap \/ Holders # {})
    BY <1>2, Zenon DEF Bind
  <2>3. /\ phase'[r] = "creating" /\ \A q \in Replicas \ {r} : phase'[q] = phase[q]
        /\ phase' \in [Replicas -> {"idle", "creating", "unsaved"}]
    BY <1>t, <2>1
  <2>4. /\ Readable' <=> Readable
        /\ \A q \in Replicas : Bound(q)' <=> Bound(q)
    BY <2>1 DEF Readable, Bound
  <2>5. Holders' = Holders \cup {r}
    BY <2>3, <2>4 DEF Holders
  <2>6. TakeoverKeepsMarks'
    BY <1>t, <2>1, <2>2, <2>3, <2>4 DEF TakeoverKeepsMarks, SessTypeOK
  <2>7. ScoresGated' /\ LinesAreHeld' /\ LostIsForgotten'
    BY <2>1, <2>3, <2>4 DEF ScoresGated, LinesAreHeld, LostIsForgotten
  <2>8. SoleHolder'
    BY <1>2, <2>2, <2>3, <2>4, <2>5 DEF SoleHolder, Holders
  <2> QED
    BY <2>6, <2>7, <2>8
<1>3. ASSUME NEW r \in Replicas, Create(r) PROVE SessInv'
  <2>1. /\ phase[r] = "creating" /\ blob' = to_dict(Fresh)
        /\ view' = [view EXCEPT ![r] = Fresh] /\ phase' = [phase EXCEPT ![r] = "idle"]
        /\ UNCHANGED <<acked, overlap>>
    BY <1>3 DEF Create
  <2>2. /\ view'[r] = Fresh /\ phase'[r] = "idle"
        /\ \A q \in Replicas \ {r} : view'[q] = view[q] /\ phase'[q] = phase[q]
        /\ view' \in [Replicas -> Sessions \cup {Unbound}]
        /\ phase' \in [Replicas -> {"idle", "creating", "unsaved"}]
    BY <1>t, <2>1, FreshType
  <2>3. Readable' /\ blob' \in Blobs
    BY <2>1, FreshType, SessAssumption DEF Readable
  <2>4. /\ Bound(r)' /\ \A q \in Replicas \ {r} : Bound(q)' <=> Bound(q)
        /\ Holders' = Holders /\ r \in Holders
    BY <2>1, <2>2, FreshType, SessAssumption DEF Bound, Holders
  <2>5. ~overlap => acked = {} /\ \A q \in Replicas \ {r} : ~Bound(q) /\ phase[q] # "creating"
    BY <2>1, <2>4 DEF SoleHolder, LostIsForgotten, Holders
  <2>6. TakeoverKeepsMarks'
    BY <1>t, <2>1, <2>2, <2>3, <2>4, <2>5 DEF TakeoverKeepsMarks, SessTypeOK
  <2>7. ScoresGated' /\ LinesAreHeld' /\ LostIsForgotten'
    BY <2>1, <2>2, <2>3, <2>4, FreshType DEF ScoresGated, LinesAreHeld, LostIsForgotten
  <2>8. SoleHolder'
    BY <2>1, <2>2, <2>4, <2>5 DEF SoleHolder
  <2> QED
    BY <2>6, <2>7, <2>8
<1>4. ASSUME NEW r \in Replicas, NEW kind, Handle(r, kind) PROVE SessInv'
  <2>1. /\ Bound(r) /\ phase[r] = "idle"
        /\ view' = [view EXCEPT ![r] = Judged(view[r], kind)]
        /\ phase' = [phase EXCEPT ![r] = "unsaved"]
        /\ UNCHANGED <<blob, acked, overlap>>
    BY <1>4 DEF Handle
  <2>2. /\ Judged(view[r], kind) \in Sessions /\ Gated(Judged(view[r], kind))
        /\ Marks(view[r]) \subseteq Marks(Judged(view[r], kind))
    BY <1>t, <2>1, JudgedKeepsMarks DEF ScoresGated
  <2>3. /\ view'[r] = Judged(view[r], kind) /\ phase'[r] = "unsaved"
        /\ \A q \in Replicas \ {r} : view'[q] = view[q] /\ phase'[q] = phase[q]
        /\ view' \in [Replicas -> Sessions \cup {Unbound}]
        /\ phase' \in [Replicas -> {"idle", "creating", "unsaved"}]
    BY <1>t, <2>1, <2>2
  <2>4. /\ Readable' <=> Readable
        /\ \A q \in Replicas : Bound(q)' <=> Bound(q)
        /\ Holders' = Holders
    BY <2>1, <2>2, <2>3, SessAssumption DEF Readable, Bound, Holders
  <2>5. TakeoverKeepsMarks'
    BY <1>t, <2>1, <2>2, <2>3, <2>4 DEF TakeoverKeepsMarks, SessTypeOK
  <2>6. ScoresGated' /\ LinesAreHeld' /\ LostIsForgotten'
    BY <2>1, <2>2, <2>3, <2>4 DEF ScoresGated, LinesAreHeld, LostIsForgotten
  <2>7. SoleHolder'
    BY <2>1, <2>3, <2>4 DEF SoleHolder
  <2> QED
    BY <2>5, <2>6, <2>7
<1>5. ASSUME NEW r \in Replicas, Persist(r) PROVE SessInv'
  <2>1. /\ phase[r] = "unsaved" /\ Bound(r) /\ blob' = to_dict(view[r])
        /\ phase' = [phase EXCEPT ![r] = "idle"]
        /\ acked' = acked \cup Marks(view[r]) /\ UNCHANGED <<view, overlap>>
    BY <1>5 DEF Persist, LinesAreHeld
  <2>2. /\ blob' \in Blobs /\ Gated(blob') /\ Marks(blob') = Marks(view[r])
    BY <1>t, <2>1, RoundTrip DEF ScoresGated
  <2>3. /\ phase'[r] = "idle" /\ \A q \in Replicas \ {r} : phase'[q] = phase[q]
        /\ phase' \in [Replicas -> {"idle", "creating", "unsaved"}]
    BY <1>t, <2>1
  <2>4. /\ Readable' /\ Holders' = Holders /\ r \in Holders
        /\ \A q \in Replicas : Bound(q)' <=> Bound(q)
    BY <2>1, <2>2, <2>3, SessAssumption DEF Readable, Bound, Holders
  <2>5. ~overlap => \A q \in Replicas \ {r} : ~Bound(q) /\ phase[q] # "creating"
    BY <2>4 DEF SoleHolder, Holders
  <2>6. acked' \subseteq {"taint", "suspension"}
    BY <1>t, <2>1 DEF Marks
  <2>7. TakeoverKeepsMarks'
    BY <1>t, <2>1, <2>2, <2>3, <2>4, <2>5, <2>6 DEF TakeoverKeepsMarks, SessTypeOK
  <2>8. ScoresGated' /\ LinesAreHeld' /\ LostIsForgotten'
    BY <2>1, <2>2, <2>3, <2>4 DEF ScoresGated, LinesAreHeld, LostIsForgotten
  <2>9. SoleHolder'
    BY <2>1, <2>3, <2>4, <2>5 DEF SoleHolder
  <2> QED
    BY <2>7, <2>8, <2>9
<1>6. ASSUME NEW r \in Replicas, PersistFails(r) PROVE SessInv'
  <2>1. /\ phase' = [phase EXCEPT ![r] = "idle"] /\ phase[r] = "unsaved"
        /\ UNCHANGED <<blob, view, acked, overlap>>
    BY <1>6 DEF PersistFails
  <2>2. /\ phase'[r] = "idle" /\ \A q \in Replicas \ {r} : phase'[q] = phase[q]
        /\ phase' \in [Replicas -> {"idle", "creating", "unsaved"}]
    BY <1>t, <2>1
  <2>3. /\ Readable' <=> Readable
        /\ \A q \in Replicas : Bound(q)' <=> Bound(q)
        /\ Holders' = Holders
    BY <2>1, <2>2 DEF Readable, Bound, Holders
  <2> QED
    BY <1>t, <2>1, <2>2, <2>3
    DEF TakeoverKeepsMarks, SessTypeOK, ScoresGated, LinesAreHeld, LostIsForgotten, SoleHolder
<1>7. ASSUME Damage PROVE SessInv'
  <2>1. /\ blob' \in {Missing, Corrupt} /\ acked' = {} /\ UNCHANGED <<view, phase, overlap>>
    BY <1>7 DEF Damage
  <2>2. ~Readable' /\ Holders' = Holders /\ \A q \in Replicas : Bound(q)' <=> Bound(q)
    BY <2>1 DEF Readable, Bound, Holders
  <2> QED
    BY <1>t, <2>1, <2>2
    DEF TakeoverKeepsMarks, SessTypeOK, ScoresGated, LinesAreHeld, LostIsForgotten, SoleHolder
<1>8. ASSUME NEW r \in Replicas, Release(r) PROVE SessInv'
  <2>1. /\ view' = [view EXCEPT ![r] = Unbound] /\ phase' = [phase EXCEPT ![r] = "idle"]
        /\ UNCHANGED <<blob, acked, overlap>>
    BY <1>8 DEF Release
  <2>2. /\ view'[r] = Unbound /\ phase'[r] = "idle"
        /\ \A q \in Replicas \ {r} : view'[q] = view[q] /\ phase'[q] = phase[q]
        /\ view' \in [Replicas -> Sessions \cup {Unbound}]
        /\ phase' \in [Replicas -> {"idle", "creating", "unsaved"}]
    BY <1>t, <2>1
  <2>3. /\ Readable' <=> Readable
        /\ \A q \in Replicas : Bound(q)' => Bound(q) /\ q # r
        /\ Holders' \subseteq Holders
    BY <2>1, <2>2 DEF Readable, Bound, Holders
  <2>4. \A q \in Replicas \ {r} : Bound(q)' <=> Bound(q)
    BY <2>2 DEF Bound
  <2> QED
    BY <1>t, <2>1, <2>2, <2>3, <2>4
    DEF TakeoverKeepsMarks, SessTypeOK, ScoresGated, LinesAreHeld, LostIsForgotten, SoleHolder
<1>9. ASSUME UNCHANGED sessVars PROVE SessInv'
  <2>1. UNCHANGED <<blob, view, phase, acked, overlap>>
    BY <1>9 DEF sessVars
  <2> QED
    BY <2>1 DEF TakeoverKeepsMarks, SessTypeOK, ScoresGated, LinesAreHeld, LostIsForgotten,
                SoleHolder, Readable, Bound, Holders
<1> QED
  BY <1>1, <1>2, <1>3, <1>4, <1>5, <1>6, <1>7, <1>8, <1>9 DEF SessNext

---------------------------------------------------------------------------
(* The token vault.  One data key is minted and never replaced; whatever is  *)
(* stored is under it, and so is whatever an open process would store.       *)

VaultTypes ==
  /\ meta \in [dek : Procs, kek : Keks] \cup {NoKey}
  /\ rows \in [Values -> Procs \cup {NoKey}]
  /\ vault \in [Procs -> [st : {"closed", "minting", "open"}, kek : Keks \cup {NoKey},
                          dek : Procs \cup {NoKey}, job : Values \cup {NoJob}]]
  /\ tx \in [Procs -> BOOLEAN]
  /\ snap \in [Procs -> (SUBSET Values) \cup {NoSnap}]
  /\ lock \in Procs \cup {NoLock}
  /\ handed \subseteq Values
  /\ raced \in BOOLEAN

OneDataKey ==
  /\ \A p \in Procs : /\ vault[p].st = "open" => meta # NoKey /\ vault[p].dek = meta.dek
                      /\ vault[p].st = "minting" => vault[p].kek \in Keks
                      /\ vault[p].job # NoJob => vault[p].st = "open"
  /\ \A v \in Values : rows[v] # NoKey => meta # NoKey /\ rows[v] = meta.dek

\* Rows are never deleted, so a token once returned keeps its row and an old
\* snapshot shows nothing that is not there.
HandedIsKept == /\ handed \subseteq Kept
                /\ \A p \in Procs : snap[p] = NoSnap \/ snap[p] \subseteq Kept

NoRaceNoLock == ~raced => /\ lock = NoLock
                          /\ \A p \in Procs : ~tx[p] /\ snap[p] = NoSnap

VaultInv == VaultTypes /\ OneDataKey /\ HandedIsKept /\ NoRaceNoLock

LEMMA VaultInitInv == VaultInit => VaultInv
<1> SUFFICES ASSUME VaultInit PROVE VaultInv
  OBVIOUS
<1>1. VaultTypes
  <2>1. Closed \in [st : {"closed", "minting", "open"}, kek : Keks \cup {NoKey},
                    dek : Procs \cup {NoKey}, job : Values \cup {NoJob}]
    BY DEF Closed
  <2>2. tx \in [Procs -> BOOLEAN] /\ raced \in BOOLEAN
    BY DEF VaultInit
  <2>3. vault \in [Procs -> [st : {"closed", "minting", "open"}, kek : Keks \cup {NoKey},
                            dek : Procs \cup {NoKey}, job : Values \cup {NoJob}]]
    BY <2>1 DEF VaultInit
  <2>4. /\ meta \in [dek : Procs, kek : Keks] \cup {NoKey}
        /\ rows \in [Values -> Procs \cup {NoKey}]
        /\ snap \in [Procs -> (SUBSET Values) \cup {NoSnap}]
        /\ lock \in Procs \cup {NoLock} /\ handed \subseteq Values
    BY DEF VaultInit
  <2> QED
    BY <2>2, <2>3, <2>4 DEF VaultTypes
<1>2. OneDataKey
  BY DEF VaultInit, OneDataKey, Closed
<1>3. HandedIsKept
  BY DEF VaultInit, HandedIsKept
<1>4. NoRaceNoLock
  BY DEF VaultInit, NoRaceNoLock
<1> QED
  BY <1>1, <1>2, <1>3, <1>4 DEF VaultInv

LEMMA VaultStep ==
  ASSUME VaultInv, VaultNext \/ (\E p \in Procs : CloseVault(p)) \/ UNCHANGED vaultVars
  PROVE  VaultInv'
<1> USE DEF VaultInv
<1> DEFINE VaultState == [st : {"closed", "minting", "open"}, kek : Keks \cup {NoKey},
                          dek : Procs \cup {NoKey}, job : Values \cup {NoJob}]
<1>c. Closed \in VaultState /\ Closed.st = "closed" /\ Closed.job = NoJob
  BY DEF Closed
<1>1. ASSUME NEW p \in Procs, NEW k \in Keks, OpenVault(p, k), meta = NoKey PROVE VaultInv'
  <2>1. /\ vault' = [vault EXCEPT ![p] = [Closed EXCEPT !.st = "minting", !.kek = k]]
        /\ UNCHANGED <<meta, rows, tx, snap, lock, handed, raced>>
    BY <1>1 DEF OpenVault
  <2>2. [Closed EXCEPT !.st = "minting", !.kek = k] \in VaultState
    BY DEF Closed
  <2>3. /\ vault'[p].st = "minting" /\ vault'[p].kek = k /\ vault'[p].job = NoJob
        /\ \A q \in Procs \ {p} : vault'[q] = vault[q]
        /\ vault' \in [Procs -> VaultState]
    BY <2>1, <2>2 DEF VaultTypes, Closed
  <2> QED
    BY <2>1, <2>3 DEF VaultTypes, OneDataKey, HandedIsKept, Kept, NoRaceNoLock
<1>2. ASSUME NEW p \in Procs, NEW k \in Keks, OpenVault(p, k), meta # NoKey PROVE VaultInv'
  <2> DEFINE new == [st |-> "open", kek |-> k, dek |-> meta.dek, job |-> NoJob]
  <2>1. vault' = [vault EXCEPT ![p] = new]
        /\ UNCHANGED <<meta, rows, tx, snap, lock, handed, raced>>
    BY <1>2 DEF OpenVault
  <2>2. new \in VaultState
    BY <1>2 DEF VaultTypes
  <2>3. /\ vault'[p] = new /\ \A q \in Procs \ {p} : vault'[q] = vault[q]
        /\ vault' \in [Procs -> VaultState]
    BY <2>1, <2>2 DEF VaultTypes
  <2> QED
    BY <1>2, <2>1, <2>3 DEF VaultTypes, OneDataKey, HandedIsKept, Kept, NoRaceNoLock
<1>3. ASSUME NEW p \in Procs, MintDek(p), meta = NoKey PROVE VaultInv'
  <2>1. /\ vault[p].st = "minting" /\ meta' = [dek |-> p, kek |-> vault[p].kek]
        /\ vault' = [vault EXCEPT ![p].st = "open", ![p].dek = p]
        /\ UNCHANGED <<rows, tx, snap, lock, handed, raced>>
    BY <1>3 DEF MintDek
  <2>2. meta' \in [dek : Procs, kek : Keks] /\ meta' # NoKey /\ meta'.dek = p
    BY <2>1, VaultAssumption DEF OneDataKey
  <2>3. /\ vault'[p].st = "open" /\ vault'[p].dek = p /\ vault'[p].job = vault[p].job
        /\ \A q \in Procs \ {p} : vault'[q] = vault[q]
        /\ vault' \in [Procs -> VaultState]
    <3> DEFINE new == [vault[p] EXCEPT !.st = "open", !.dek = p]
    <3>1. new \in VaultState /\ new.st = "open" /\ new.dek = p /\ new.job = vault[p].job
      BY DEF VaultTypes
    <3>2. vault' = [vault EXCEPT ![p] = new]
      BY <2>1 DEF VaultTypes
    <3> HIDE DEF new
    <3> QED
      BY <3>1, <3>2 DEF VaultTypes
  <2>4. (\A v \in Values : rows[v] = NoKey) /\ \A q \in Procs : vault[q].st # "open"
    BY <1>3 DEF OneDataKey
  <2> QED
    BY <2>1, <2>2, <2>3, <2>4 DEF VaultTypes, OneDataKey, HandedIsKept, Kept, NoRaceNoLock
<1>4. ASSUME NEW p \in Procs, MintDek(p), meta # NoKey PROVE VaultInv'
  <2>1. vault' = [vault EXCEPT ![p] = Closed]
        /\ UNCHANGED <<meta, rows, tx, snap, lock, handed, raced>>
    BY <1>4 DEF MintDek
  <2>2. /\ vault'[p] = Closed /\ \A q \in Procs \ {p} : vault'[q] = vault[q]
        /\ vault' \in [Procs -> VaultState]
    BY <1>c, <2>1 DEF VaultTypes
  <2> QED
    BY <1>c, <2>1, <2>2 DEF VaultTypes, OneDataKey, HandedIsKept, Kept, NoRaceNoLock
<1>5. ASSUME NEW p \in Procs, NEW v \in Values, Tokenize(p, v) PROVE VaultInv'
  <2>1. /\ vault[p].st = "open"
        /\ snap' = [snap EXCEPT ![p] = IF tx[p] THEN Visible(p) ELSE NoSnap]
        /\ UNCHANGED <<meta, rows, tx, lock, raced>>
    BY <1>5 DEF Tokenize
  <2>2. Visible(p) \subseteq Kept /\ Kept \subseteq Values
    BY DEF Visible, Kept, HandedIsKept
  <2> DEFINE seen == IF tx[p] THEN Visible(p) ELSE NoSnap
  <2>3. /\ snap'[p] = seen /\ \A q \in Procs \ {p} : snap'[q] = snap[q]
        /\ snap' \in [Procs -> (SUBSET Values) \cup {NoSnap}]
        /\ Kept' = Kept
    BY <2>1, <2>2 DEF VaultTypes, Kept
  <2>n. NoRaceNoLock'
    BY <2>1, <2>3 DEF NoRaceNoLock
  <2>4. CASE v \in Visible(p)
    <3>1. handed' = handed \cup {v} /\ vault' = vault
      BY <1>5, <2>4 DEF Tokenize
    <3> QED
      BY <2>1, <2>2, <2>3, <2>4, <2>n, <3>1 DEF VaultTypes, OneDataKey, HandedIsKept
  <2>5. CASE v \notin Visible(p)
    <3>1. handed' = handed /\ vault' = [vault EXCEPT ![p].job = v]
      BY <1>5, <2>5 DEF Tokenize
    <3>2. /\ vault'[p].st = vault[p].st /\ vault'[p].dek = vault[p].dek
          /\ \A q \in Procs \ {p} : vault'[q] = vault[q]
          /\ vault' \in [Procs -> VaultState]
      BY <3>1 DEF VaultTypes
    <3> QED
      BY <2>1, <2>2, <2>3, <2>n, <3>1, <3>2 DEF VaultTypes, OneDataKey, HandedIsKept
  <2> QED
    BY <2>4, <2>5
<1>6. ASSUME NEW p \in Procs, Insert(p) PROVE VaultInv'
  <2> DEFINE v == vault[p].job
  <2>1. /\ v # NoJob /\ rows[v] = NoKey
        /\ rows' = [rows EXCEPT ![v] = vault[p].dek] /\ handed' = handed \cup {v}
        /\ vault' = [vault EXCEPT ![p].job = NoJob]
        /\ tx' = [tx EXCEPT ![p] = FALSE] /\ snap' = [snap EXCEPT ![p] = NoSnap]
        /\ lock' = NoLock /\ UNCHANGED <<meta, raced>>
    BY <1>6 DEF Insert
  <2>2. /\ v \in Values /\ vault[p].st = "open" /\ meta # NoKey /\ vault[p].dek = meta.dek
        /\ meta.dek \in Procs /\ meta.dek # NoKey
    BY <2>1, VaultAssumption DEF VaultTypes, OneDataKey
  <2>3. /\ vault'[p].st = vault[p].st /\ vault'[p].dek = vault[p].dek /\ vault'[p].job = NoJob
        /\ \A q \in Procs \ {p} : vault'[q] = vault[q]
        /\ vault' \in [Procs -> VaultState]
    BY <2>1 DEF VaultTypes
  <2>4. /\ rows'[v] = meta.dek /\ \A w \in Values \ {v} : rows'[w] = rows[w]
        /\ rows' \in [Values -> Procs \cup {NoKey}]
    BY <2>1, <2>2 DEF VaultTypes
  <2>5. Kept' = Kept \cup {v}
    BY <2>2, <2>4 DEF Kept
  <2>6. /\ snap'[p] = NoSnap /\ \A q \in Procs \ {p} : snap'[q] = snap[q]
        /\ snap' \in [Procs -> (SUBSET Values) \cup {NoSnap}]
        /\ ~tx'[p] /\ \A q \in Procs \ {p} : tx'[q] = tx[q]
        /\ tx' \in [Procs -> BOOLEAN]
    BY <2>1 DEF VaultTypes
  <2> HIDE DEF v
  <2>7. VaultTypes'
    BY <2>1, <2>2, <2>3, <2>4, <2>6 DEF VaultTypes
  <2>8. OneDataKey'
    BY <2>1, <2>2, <2>3, <2>4 DEF OneDataKey
  <2>9. HandedIsKept'
    BY <2>1, <2>5, <2>6 DEF HandedIsKept
  <2>10. NoRaceNoLock'
    BY <2>1, <2>6 DEF NoRaceNoLock
  <2> QED
    BY <2>7, <2>8, <2>9, <2>10
<1>7. ASSUME NEW p \in Procs, InsertLoses(p) \/ InsertLocked(p) PROVE VaultInv'
  <2>1. /\ vault' = [vault EXCEPT ![p].job = NoJob] /\ tx' = [tx EXCEPT ![p] = TRUE]
        /\ snap' = snap \/ snap' = [snap EXCEPT ![p] = Kept]
        /\ lock' = lock \/ lock' = p
        /\ UNCHANGED <<meta, rows, handed>>
    BY <1>7 DEF InsertLoses, InsertLocked
  <2>2. raced' = TRUE
    <3>1. CASE InsertLocked(p)
      <4>1. ~CanWrite(p) /\ raced' = raced
        BY <3>1 DEF InsertLocked
      <4> QED
        BY <4>1 DEF NoRaceNoLock, CanWrite, VaultTypes
    <3> QED
      BY <1>7, <3>1 DEF InsertLoses
  <2>3. /\ vault'[p].st = vault[p].st /\ vault'[p].dek = vault[p].dek /\ vault'[p].job = NoJob
        /\ vault'[p].kek = vault[p].kek
        /\ \A q \in Procs \ {p} : vault'[q] = vault[q]
        /\ vault' \in [Procs -> VaultState]
    BY <2>1 DEF VaultTypes
  <2>4. Kept' = Kept /\ Kept \subseteq Values
    BY <2>1 DEF Kept
  <2>5. /\ snap' \in [Procs -> (SUBSET Values) \cup {NoSnap}]
        /\ \A q \in Procs : snap'[q] = snap[q] \/ snap'[q] = Kept
    BY <2>1, <2>4 DEF VaultTypes
  <2>6. tx' \in [Procs -> BOOLEAN] /\ lock' \in Procs \cup {NoLock}
    BY <2>1 DEF VaultTypes
  <2>7. VaultTypes'
    BY <2>1, <2>2, <2>3, <2>5, <2>6 DEF VaultTypes
  <2>8. OneDataKey'
    BY <2>1, <2>3 DEF OneDataKey
  <2>9. HandedIsKept'
    BY <2>1, <2>4, <2>5 DEF HandedIsKept
  <2> QED
    BY <2>2, <2>7, <2>8, <2>9 DEF NoRaceNoLock
<1>8. ASSUME NEW p \in Procs, CloseVault(p) PROVE VaultInv'
  <2>1. /\ vault' = [vault EXCEPT ![p] = Closed] /\ tx' = [tx EXCEPT ![p] = FALSE]
        /\ snap' = [snap EXCEPT ![p] = NoSnap] /\ lock' \in {lock, NoLock}
        /\ UNCHANGED <<meta, rows, handed, raced>>
    BY <1>8 DEF CloseVault
  <2>2. /\ vault'[p] = Closed /\ \A q \in Procs \ {p} : vault'[q] = vault[q]
        /\ vault' \in [Procs -> VaultState]
    BY <1>c, <2>1 DEF VaultTypes
  <2>3. /\ snap'[p] = NoSnap /\ \A q \in Procs \ {p} : snap'[q] = snap[q]
        /\ snap' \in [Procs -> (SUBSET Values) \cup {NoSnap}]
        /\ ~tx'[p] /\ \A q \in Procs \ {p} : tx'[q] = tx[q]
        /\ tx' \in [Procs -> BOOLEAN]
    BY <2>1 DEF VaultTypes
  <2>4. Kept' = Kept
    BY <2>1 DEF Kept
  <2>5. VaultTypes'
    BY <2>1, <2>2, <2>3 DEF VaultTypes
  <2>6. OneDataKey'
    BY <1>c, <2>1, <2>2 DEF OneDataKey
  <2>7. HandedIsKept'
    BY <2>1, <2>3, <2>4 DEF HandedIsKept
  <2>8. NoRaceNoLock'
    BY <2>1, <2>3 DEF NoRaceNoLock
  <2> QED
    BY <2>5, <2>6, <2>7, <2>8
<1>9. ASSUME UNCHANGED vaultVars PROVE VaultInv'
  BY <1>9 DEF vaultVars, VaultTypes, OneDataKey, HandedIsKept, Kept, NoRaceNoLock
<1> QED
  BY <1>1, <1>2, <1>3, <1>4, <1>5, <1>6, <1>7, <1>8, <1>9 DEF VaultNext

---------------------------------------------------------------------------
(* The two together. *)

Inv == SessInv /\ VaultInv

LEMMA InvHolds == Spec => []Inv
<1>1. Init => Inv
  BY SessInitInv, VaultInitInv DEF Init, Inv
<1>2. Inv /\ [Next]_vars => Inv'
  <2> SUFFICES ASSUME Inv, [Next]_vars PROVE Inv'
    OBVIOUS
  <2>1. /\ SessNext \/ (\E r \in Replicas : Release(r)) \/ UNCHANGED sessVars
        /\ VaultNext \/ (\E p \in Procs : CloseVault(p)) \/ UNCHANGED vaultVars
    BY DEF Next, Crash, vars
  <2> QED
    BY <2>1, SessStep, VaultStep DEF Inv
<1> QED
  BY <1>1, <1>2, PTL DEF Spec

\* As long as no two gateways hold a session at once, a taint or a suspension
\* that was saved is in the store and in every copy, whatever process dies,
\* whichever save fails and whatever is re-created: for any number of
\* replicas and any threshold (redis.py get_or_create, save; gateway.py
\* __init__, _persist).
THEOREM MarksSurviveTakeover == Spec => []TakeoverKeepsMarks
<1>1. Inv => TakeoverKeepsMarks
  BY DEF Inv, SessInv
<1> QED
  BY <1>1, InvHolds, PTL

\* Every token that was returned can be reversed by every process that has the
\* vault open and reads its latest state: the race to create the data key has
\* one winner, and no crash takes a returned token's row away (vault.py
\* _load_or_create_dek, tokenize, detokenize).
THEOREM TokensCanBeReversed == Spec => []TokensReverse
<1>1. Inv => TokensReverse
  <2> SUFFICES ASSUME VaultInv, NEW v \in handed, NEW p \in Procs,
                      vault[p].st = "open", snap[p] \in {NoSnap, Kept}
               PROVE  detokenize(p, v) = v
    BY DEF Inv, TokensReverse
  <2>1. v \in Kept /\ Visible(p) = Kept
    BY DEF VaultInv, HandedIsKept, Visible
  <2>2. rows[v] = vault[p].dek
    BY <2>1 DEF VaultInv, OneDataKey, Kept
  <2> QED
    BY <2>1, <2>2 DEF detokenize
<1> QED
  BY <1>1, InvHolds, PTL

\* No write lock and no open transaction outlives its call before some process
\* has lost an insert race: the lock that a lost race leaves behind has no other
\* cause (vault.py tokenize).
THEOREM LockNeedsARace == Spec => []StuckOnlyAfterARace
<1>1. Inv => StuckOnlyAfterARace
  BY DEF Inv, VaultInv, NoRaceNoLock, StuckOnlyAfterARace, CanWrite
<1> QED
  BY <1>1, InvHolds, PTL
=============================================================================
