----------------------------- MODULE Approvals -----------------------------
(***************************************************************************)
(* A tool call put to a human, end to end: ApprovalBroker and HttpChannel  *)
(* in the gateway (approvals/broker.py, approvals/channels/http.py), the   *)
(* POST held open by the console, its ApprovalQueue (console/approvals.py) *)
(* and the approver's browser, which lists the queue and resolves from     *)
(* what it last saw.                                                       *)
(*                                                                         *)
(* Three clocks run at once - the broker's deadline, the socket timeout of *)
(* the worker thread and the console's approval_timeout - and none of them *)
(* stops the others' party: any of them may fire first.                    *)
(***************************************************************************)
EXTENDS Naturals, FiniteSets

CONSTANTS
  Requests,     \* the approval-gated calls; each is asked about once
  Keys,         \* the approval ids the console mints (uuid4: never twice)
  WireId,       \* request -> its wire request_id, unique only in a session
  FailOpen,     \* on_failure.approval: open
  MaxRestarts   \* bound: restarts of the console

NoRequest == "no request"
NoKey == "no key"

ASSUME ApprovalsAssumption ==
  /\ WireId \in [Requests -> Keys]
  /\ FailOpen \in BOOLEAN /\ MaxRestarts \in Nat
  /\ NoRequest \notin Requests /\ NoKey \notin Keys

VARIABLES
  resolution,  \* what ApprovalBroker.request returned, per request
  conn,        \* the worker thread's HTTP exchange
  key,         \* PendingApproval.approval_id
  future,      \* PendingApproval.future
  waiter,      \* ApprovalQueue.wait, per request
  response,    \* the body the console answers the POST with
  pending,     \* ApprovalQueue._pending: approval id -> the request parked
  screen,      \* the approval ids and calls the approver's browser shows
  signed,      \* the resolves the console confirmed: the call shown, the answer
  restarts

console == <<key, future, waiter, response, pending>>
vars == <<resolution, conn, console, screen, signed, restarts>>

Init ==
  /\ resolution = [r \in Requests |-> "idle"]
  /\ conn = [r \in Requests |-> "none"]
  /\ key = [r \in Requests |-> NoKey]
  /\ future = [r \in Requests |-> "unset"]
  /\ waiter = [r \in Requests |-> "none"]
  /\ response = [r \in Requests |-> "none"]
  /\ pending = [k \in Keys |-> NoRequest]
  /\ screen = {} /\ signed = {} /\ restarts = 0

---------------------------------------------------------------------------
(* The gateway's side. *)

\* RequireApprovalHandler asks the broker; the channel POSTs in a thread.
Ask(r) ==
  /\ resolution[r] = "idle"
  /\ resolution' = [resolution EXCEPT ![r] = "waiting"]
  /\ conn' = [conn EXCEPT ![r] = "sent"]
  /\ UNCHANGED <<console, screen, signed, restarts>>

\* ApprovalBroker._on_error.
OnError == IF FailOpen THEN "approved" ELSE "denied"

\* Mutant of Return: the last answer wins.
LastAnswerWins(r, answer) == resolution' = [resolution EXCEPT ![r] = answer]

\* The broker returns this to the pipeline, unless it has returned already.
Return(r, answer) ==
  resolution' = IF resolution[r] = "waiting" THEN [resolution EXCEPT ![r] = answer]
                ELSE resolution

\* Mutant of Deadline: the clock starts when the console has the request.
DeadlineOfPost(r) ==
  /\ resolution[r] = "waiting" /\ conn[r] = "held"
  /\ Return(r, OnError)
  /\ UNCHANGED <<conn, console, screen, signed, restarts>>

\* The broker's deadline fires.  The worker thread cannot be cancelled: its POST
\* stays open.
Deadline(r) ==
  /\ resolution[r] = "waiting"
  /\ Return(r, OnError)
  /\ UNCHANGED <<conn, console, screen, signed, restarts>>

\* The POST fails: refused, reset, the socket timeout, or a malformed answer.
ChannelFails(r) ==
  /\ conn[r] \in {"sent", "held"}
  /\ conn' = [conn EXCEPT ![r] = "closed"]
  /\ Return(r, OnError)
  /\ UNCHANGED <<console, screen, signed, restarts>>

\* The console's answer reaches the worker thread.
Answered(r) ==
  /\ conn[r] = "held" /\ waiter[r] = "returned"
  /\ conn' = [conn EXCEPT ![r] = "closed"]
  /\ Return(r, response[r])
  /\ UNCHANGED <<console, screen, signed, restarts>>

---------------------------------------------------------------------------
(* The console's side. *)

\* Mutant of Minted: the queue is keyed by the wire request id.
MintedFromWire(r) == {WireId[r]}

\* The ids uuid4 may return: none it has returned before.
Minted(r) == Keys \ {key[q] : q \in Requests}

\* submit_approval: the request is parked and the handler awaits its future.
Submit(r) ==
  /\ conn[r] = "sent"
  /\ conn' = [conn EXCEPT ![r] = "held"]
  /\ \E k \in Minted(r) :
       /\ key' = [key EXCEPT ![r] = k]
       /\ pending' = [pending EXCEPT ![k] = r]
  /\ waiter' = [waiter EXCEPT ![r] = "waiting"]
  /\ UNCHANGED <<resolution, future, response, screen, signed, restarts>>

\* approval_timeout fires; the handler has not run again yet.  It may fire
\* although the future was set a moment before.
WaitExpires(r) ==
  /\ waiter[r] = "waiting"
  /\ waiter' = [waiter EXCEPT ![r] = "expired"]
  /\ UNCHANGED <<resolution, conn, key, future, response, pending, screen, signed,
                 restarts>>

\* Mutant of WaitReturns: an expired wait leaves its entry in the queue.
WaitReturnsKeepingEntry(r) ==
  /\ \/ waiter[r] = "expired" /\ response' = [response EXCEPT ![r] = "denied"]
                              /\ UNCHANGED pending
     \/ waiter[r] = "waiting" /\ future[r] # "unset"
        /\ response' = [response EXCEPT ![r] = future[r]]
        /\ pending' = [pending EXCEPT ![key[r]] = NoRequest]
  /\ waiter' = [waiter EXCEPT ![r] = "returned"]
  /\ UNCHANGED <<resolution, conn, key, future, screen, signed, restarts>>

\* wait returns the answer, or a denial when it expired, and leaves the queue.
WaitReturns(r) ==
  /\ \/ waiter[r] = "expired" /\ response' = [response EXCEPT ![r] = "denied"]
     \/ waiter[r] = "waiting" /\ future[r] # "unset"
        /\ response' = [response EXCEPT ![r] = future[r]]
  /\ waiter' = [waiter EXCEPT ![r] = "returned"]
  /\ pending' = [pending EXCEPT ![key[r]] = NoRequest]
  /\ UNCHANGED <<resolution, conn, key, future, screen, signed, restarts>>

\* The browser fetches the list of pending approvals.
List ==
  /\ screen' = {[id |-> k, call |-> pending[k]] : k \in {j \in Keys : pending[j] # NoRequest}}
  /\ UNCHANGED <<resolution, conn, console, signed, restarts>>

\* An id that is unknown, or whose future is done, is answered 404.
Resolvable(k) == pending[k] # NoRequest /\ future[pending[k]] = "unset"

\* An approver resolves an entry the browser shows, however old the list is.
Resolve(entry, answer) ==
  /\ entry \in screen /\ Resolvable(entry.id)
  /\ future' = [future EXCEPT ![pending[entry.id]] = answer]
  /\ signed' = signed \cup {[call |-> entry.call, answer |-> answer]}
  /\ UNCHANGED <<resolution, conn, key, waiter, response, pending, screen, restarts>>

\* The console restarts: the queue and the POSTs it holds evaporate.
ConsoleRestart ==
  /\ restarts < MaxRestarts
  /\ restarts' = restarts + 1
  /\ pending' = [k \in Keys |-> NoRequest]
  /\ waiter' = [r \in Requests |->
                  IF waiter[r] \in {"waiting", "expired"} THEN "gone" ELSE waiter[r]]
  /\ UNCHANGED <<resolution, conn, key, future, response, screen, signed>>

---------------------------------------------------------------------------
Next ==
  \/ \E r \in Requests :
       \/ Ask(r) \/ Deadline(r) \/ ChannelFails(r) \/ Answered(r)
       \/ Submit(r) \/ WaitExpires(r) \/ WaitReturns(r)
  \/ List
  \/ \E entry \in screen, answer \in {"approved", "denied"} : Resolve(entry, answer)
  \/ ConsoleRestart

Spec == Init /\ [][Next]_vars

\* The broker's deadline and the console's timeout are timers of the event loop;
\* the loop runs what is ready.
Fairness ==
  \A r \in Requests :
    WF_vars(Deadline(r)) /\ WF_vars(WaitExpires(r)) /\ WF_vars(WaitReturns(r))

FairSpec == Spec /\ Fairness

---------------------------------------------------------------------------
(* Properties. *)

Waiters == {"none", "waiting", "expired", "returned", "gone"}

\* Every variable keeps its shape.
TypeOK ==
  /\ resolution \in [Requests -> {"idle", "waiting", "approved", "denied"}]
  /\ conn \in [Requests -> {"none", "sent", "held", "closed"}]
  /\ key \in [Requests -> Keys \cup {NoKey}]
  /\ future \in [Requests -> {"unset", "approved", "denied"}]
  /\ waiter \in [Requests -> Waiters]
  /\ response \in [Requests -> {"none", "approved", "denied"}]
  /\ pending \in [Keys -> Requests \cup {NoRequest}]
  /\ screen \subseteq [id : Keys, call : Requests]
  /\ signed \subseteq [call : Requests, answer : {"approved", "denied"}]
  /\ restarts \in 0..MaxRestarts

Consents == {r \in Requests : [call |-> r, answer |-> "approved"] \in signed}

Contract == INSTANCE ApprovalContract WITH status <- resolution, consents <- Consents

\* The broker, the console and the stale browser together keep the contract: a
\* resolution is final, and a call is approved only if an approver was shown that
\* very call and approved it, or the posture is open.
\* (broker.py request; console/approvals.py)
KeepsContract == Contract!Spec

\* An approver is never told that two answers to one call were both recorded,
\* although ids on the wire collide and lists are stale.
\* (console/approvals.py resolve: "a double resolve is harmless")
OneAnswerEach ==
  \A s, t \in signed : s.call = t.call => s = t

\* Nothing waits for ever: every call put to a human is decided, and every entry
\* leaves the queue, whoever disappeared.  (broker.py request; approvals.py wait)
EveryCallIsDecided ==
  \A r \in Requests : resolution[r] = "waiting" ~> resolution[r] \in {"approved", "denied"}

QueueDrains ==
  \A k \in Keys : pending[k] # NoRequest ~> pending[k] = NoRequest


\* Whoever disappears, an approval comes to an end on both sides: for the call
\* that waits and for the queue that shows it.  (broker.py request;
\* console/approvals.py wait)
ApprovalsSettle == EveryCallIsDecided /\ QueueDrains
=============================================================================
