---------------------------- MODULE SessionStore ----------------------------
(* One session's durable state in the shared store (state/redis.py), as the  *)
(* gateways that bind its id read and write it.  A gateway loads the session *)
(* once, when it is constructed, judges every call on its own copy and writes *)
(* the whole copy back after each line (core/gateway.py).  The marks that     *)
(* must not be lost are the taint and the suspension.                         *)
(*                                                                            *)
(* GET and SET are single Redis commands; get_or_create is a GET and then,    *)
(* when nothing readable is stored, a SET.                                    *)
EXTENDS Naturals, FiniteSets

CONSTANTS Replicas,     \* gateway processes that may bind the session id
          SuspendAt,    \* the policy's risk.suspend_at, in denied calls
          Missing,      \* no value under the key
          Corrupt,      \* a value that does not parse
          Unbound       \* the replica has not constructed its gateway

VARIABLES blob,         \* the stored value: Missing, Corrupt or a session
          view,         \* replica -> its Session object, or Unbound
          phase,        \* replica -> "idle" | "creating" | "unsaved"
          acked,        \* (history) marks written by a successful save
          overlap       \* (history) two replicas have held the session at once

sessVars == <<blob, view, phase, acked, overlap>>

\* pending: some call is in flight and its result is still to be inspected.
Fresh == [tainted |-> FALSE, score |-> 0, suspended |-> FALSE, pending |-> FALSE]
Blobs == [tainted: BOOLEAN, score: 0..SuspendAt, suspended: BOOLEAN]
Sessions == [tainted: BOOLEAN, score: 0..SuspendAt, suspended: BOOLEAN, pending: BOOLEAN]

\* A session is suspended by a denied call, never before the first one; what
\* stands for no value is not a value.
ASSUME SessAssumption ==
  /\ SuspendAt \in Nat \ {0}
  /\ {Missing, Corrupt} \cap Blobs = {}
  /\ Unbound \notin Sessions

Marks(s) == {m \in {"taint", "suspension"} :
                \/ m = "taint" /\ s.tainted
                \/ m = "suspension" /\ s.suspended}

\* Mutant of to_dict: the taint is left out of the serialised fields.
ToDictWithoutTaint(s) == [tainted |-> FALSE, score |-> s.score, suspended |-> s.suspended]

\* What a save keeps and a load restores: everything but the calls in flight,
\* which belong to the replica that forwarded them.
to_dict(s) == [tainted |-> s.tainted, score |-> s.score, suspended |-> s.suspended]
from_dict(b) == [tainted |-> b.tainted, score |-> b.score, suspended |-> b.suspended,
                 pending |-> FALSE]

\* get: a blob that does not parse counts as absent.
Readable == blob \notin {Missing, Corrupt}

Bound(r) == view[r] # Unbound
Holders == {r \in Replicas : Bound(r) \/ phase[r] = "creating"}

SessInit == /\ blob \in {Missing, Corrupt, to_dict(Fresh)}
            /\ view = [r \in Replicas |-> Unbound]
            /\ phase = [r \in Replicas |-> "idle"]
            /\ acked = {}
            /\ overlap = FALSE

\* SecurityGateway.__init__ -> get_or_create: the read.
Bind(r) ==
  /\ ~Bound(r) /\ phase[r] = "idle"
  /\ IF Readable
       THEN view' = [view EXCEPT ![r] = from_dict(blob)] /\ UNCHANGED phase
       ELSE phase' = [phase EXCEPT ![r] = "creating"] /\ UNCHANGED view
  /\ overlap' = (overlap \/ Holders # {})
  /\ UNCHANGED <<blob, acked>>

\* get_or_create: the write of a new session, whatever was stored meanwhile.
Create(r) ==
  /\ phase[r] = "creating"
  /\ blob' = to_dict(Fresh)
  /\ view' = [view EXCEPT ![r] = Fresh]
  /\ phase' = [phase EXCEPT ![r] = "idle"]
  /\ UNCHANGED <<acked, overlap>>

\* Mutant of Judged: the session gate is missing.
JudgedUngated(s, kind) ==
  CASE kind = "response"   -> [s EXCEPT !.pending = FALSE]
    [] kind = "source"     -> [s EXCEPT !.tainted = TRUE, !.pending = TRUE]
    [] kind = "denied"     -> [s EXCEPT !.score = @ + 1,
                                        !.suspended = s.score + 1 >= SuspendAt]
    [] OTHER               -> [s EXCEPT !.pending = TRUE]

\* What one line does to the replica's own copy: an allowed call is tracked,
\* and one of a taint source taints; a denied call adds risk and may suspend;
\* a call at the session gate changes nothing; a response ends the tracking.
Judged(s, kind) ==
  IF kind = "response" THEN [s EXCEPT !.pending = FALSE]
  ELSE IF s.suspended THEN s
  ELSE CASE kind = "source" -> [s EXCEPT !.tainted = TRUE, !.pending = TRUE]
         [] kind = "denied" -> [s EXCEPT !.score = @ + 1,
                                         !.suspended = s.score + 1 >= SuspendAt]
         [] OTHER           -> [s EXCEPT !.pending = TRUE]

\* on_client_line / on_upstream_line up to _persist.  The interleavings inside
\* one line are the Gateway module's.
Handle(r, kind) ==
  /\ Bound(r) /\ phase[r] = "idle"
  /\ kind = "response" => view[r].pending
  /\ view' = [view EXCEPT ![r] = Judged(@, kind)]
  /\ phase' = [phase EXCEPT ![r] = "unsaved"]
  /\ UNCHANGED <<blob, acked, overlap>>

\* _persist -> save: the whole copy replaces the stored one.
Persist(r) ==
  /\ phase[r] = "unsaved"
  /\ blob' = to_dict(view[r])
  /\ phase' = [phase EXCEPT ![r] = "idle"]
  /\ acked' = acked \cup Marks(view[r])
  /\ UNCHANGED <<view, overlap>>

\* Redis refuses the write: save raises, the line's marks stay in the copy.
PersistFails(r) ==
  /\ phase[r] = "unsaved"
  /\ phase' = [phase EXCEPT ![r] = "idle"]
  /\ UNCHANGED <<blob, view, acked, overlap>>

\* The TTL runs out, or the value is damaged: the store has forgotten the marks.
Damage ==
  /\ Readable
  /\ blob' \in {Missing, Corrupt}
  /\ acked' = {}
  /\ UNCHANGED <<view, phase, overlap>>

\* The process ends; its copy and what it had not saved are gone.
Release(r) ==
  /\ Bound(r) \/ phase[r] = "creating"
  /\ view' = [view EXCEPT ![r] = Unbound]
  /\ phase' = [phase EXCEPT ![r] = "idle"]
  /\ UNCHANGED <<blob, acked, overlap>>

SessNext ==
  \/ \E r \in Replicas : \/ Bind(r) \/ Create(r) \/ Persist(r) \/ PersistFails(r)
                         \/ \E kind \in {"source", "denied", "plain", "response"} : Handle(r, kind)
  \/ Damage

\* The stored value, the copies and the history are of their types; a score
\* (of denied calls) never passes the suspension threshold, since a suspended
\* session is refused at the gate.
SessTypeOK ==
  /\ blob \in Blobs \cup {Missing, Corrupt}
  /\ view \in [Replicas -> Sessions \cup {Unbound}]
  /\ phase \in [Replicas -> {"idle", "creating", "unsaved"}]
  /\ acked \subseteq {"taint", "suspension"}
  /\ overlap \in BOOLEAN

(* A mark once saved is in the stored session, and in the copy of every       *)
(* gateway that holds the session, for as long as the store keeps the value   *)
(* and no two gateways have held the session at once: a takeover after a      *)
(* crash, a failed save or a re-creation resumes taint and suspension         *)
(* (redis.py get_or_create/save, gateway.py __init__/_persist).               *)
TakeoverKeepsMarks ==
  /\ SessTypeOK
  /\ ~overlap => /\ Readable => acked \subseteq Marks(blob)
                 /\ \A r \in Replicas : Bound(r) => acked \subseteq Marks(view[r])
=============================================================================
