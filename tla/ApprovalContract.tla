-------------------------- MODULE ApprovalContract --------------------------
(***************************************************************************)
(* What the approval path promises the pipeline: every call put to a human *)
(* is decided at most once, and it is approved only if a human who was     *)
(* shown this call approved it, or the operator chose to fail open.        *)
(***************************************************************************)
CONSTANTS Requests, FailOpen

VARIABLES
  status,   \* request -> "idle", "waiting", "approved" or "denied"
  consents  \* the requests a human was shown and approved

contract == <<status, consents>>

Init == status = [r \in Requests |-> "idle"] /\ consents = {}

Ask(r) ==
  /\ status[r] = "idle"
  /\ status' = [status EXCEPT ![r] = "waiting"]
  /\ UNCHANGED consents

Consent(r) ==
  /\ status[r] # "idle"
  /\ consents' = consents \cup {r}
  /\ UNCHANGED status

Approve(r) ==
  /\ status[r] = "waiting"
  /\ r \in consents \/ FailOpen
  /\ status' = [status EXCEPT ![r] = "approved"]
  /\ UNCHANGED consents

Deny(r) ==
  /\ status[r] = "waiting"
  /\ status' = [status EXCEPT ![r] = "denied"]
  /\ UNCHANGED consents

Next == \E r \in Requests : Ask(r) \/ Consent(r) \/ Approve(r) \/ Deny(r)

Spec == Init /\ [][Next]_contract
=============================================================================
