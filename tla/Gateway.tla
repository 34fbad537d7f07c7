------------------------------ MODULE Gateway ------------------------------
(***************************************************************************)
(* The enforcement core of the MCP security gateway: one SecurityGateway   *)
(* (core/gateway.py), its Session (core/session.py), the RequestPipeline   *)
(* (core/pipeline.py) with the action handlers (policy/actions), the risk  *)
(* engine, the sequence/taint policy, the anomaly monitor and the approval *)
(* broker as the pipeline sees them.                                       *)
(*                                                                         *)
(* The program is asyncio code: it runs without interruption from one      *)
(* suspension point to the next.  A handler is therefore one action up to  *)
(* the first await that really suspends - the human approval, the anomaly  *)
(* backend and the redaction worker thread - and one more action for what  *)
(* follows it.  Writing the audit spool does not suspend.                  *)
(***************************************************************************)
EXTENDS Integers, Sequences, Functions

CONSTANTS
  Calls,          \* the requests the client sends; each is one line on the wire
  Ids,            \* the JSON-RPC ids the client draws from
  Tools,          \* tool names
  ActionOf,       \* tool -> effective action for the session's role
  ThenOf,         \* tool -> the `then` action of a require_approval rule
  TaintSources,
  TaintSinks,
  SequenceRules,  \* pairs <<after, forbid>> of tools
  Weights,        \* risk event -> weight (any integer: the loader admits them all)
  SuspendAt,
  OpenPosture,    \* the on_failure categories configured fail-open
  CrashStages,    \* the stages that contain a component that may raise
  RedactionOn,    \* a RedactionService is wired in
  Broker,         \* "none" (no broker) or the channel: "deny", "allow", "http"
  AnomalyOn,      \* an AnomalyMonitor with a worker-thread backend is wired in
  Severities,     \* the anomaly events the backend's verdicts may score
  Debounce,
  ArgKinds,       \* what the arguments of a tools/call may be
  Sequential,     \* TRUE: stdio pump, one client line at a time; FALSE: HTTP POSTs
  IdReuse         \* the client may reuse the id of a request still in flight

Actions == {"allow", "block", "redact", "rewrite", "quarantine", "require_approval"}

Stages == {"policy", "constraints", "sequence", "action"}

RiskEvents == {"blocked_tool", "constraint_violation", "sequence_violation",
               "approval_denied", "heavy_redaction",
               "anomaly_low", "anomaly_medium", "anomaly_high"}

ToolsList == "tools/list"    \* a request whose response the gateway filters
OtherMethod == "other"       \* any other request: audited passthrough
Opaque == "opaque"           \* a line that is not a JSON object: passed on, unanswered
ServerRequest == "server"    \* a request the upstream makes of the client

\* What the properties tell apart in a call's arguments: they violate a
\* constraint of the matched rule, they hold PII, or neither.
Args == {"clean", "pii", "violating"}

NoTool == "no tool"
NoCall == "no call"
NoId == "no id"              \* of a notification, and of a line that is not JSON

ASSUME ConstantsAssumption ==
  /\ ActionOf \in [Tools -> Actions] /\ ThenOf \in [Tools -> Actions]
  /\ TaintSources \subseteq Tools /\ TaintSinks \subseteq Tools
  /\ SequenceRules \subseteq Tools \X Tools
  /\ Weights \in [RiskEvents -> Int] /\ SuspendAt \in Int
  /\ OpenPosture \subseteq {"pipeline", "redaction", "approval"}
  /\ CrashStages \subseteq Stages
  /\ Broker \in {"none", "deny", "allow", "http"}
  /\ Debounce \in Nat \ {0}
  /\ {RedactionOn, AnomalyOn, Sequential, IdReuse} \subseteq BOOLEAN
  /\ Severities \subseteq {"anomaly_low", "anomaly_medium", "anomaly_high"}
  /\ ArgKinds \subseteq Args
  /\ Tools \cap {ToolsList, OtherMethod, Opaque, ServerRequest, NoTool} = {}
  /\ NoCall \notin Calls /\ NoId \notin Ids

VARIABLES
  suspended, history, taint_origin, risk_score, risk_events, pending, \* Session
  pending_tools_list,  \* ids of tools/list requests in flight
  since_last,          \* AnomalyMonitor._since_last
  call,                \* the progress of each request through the gateway
  scanning,            \* the response in the redaction worker thread
  sent,                \* the requests written to the upstream, in order
  answered,            \* the requests the upstream has responded to
  replies,             \* what the client has received
  audit                \* the audit trail

session == <<suspended, history, taint_origin, risk_score, risk_events, pending>>
vars == <<session, pending_tools_list, since_last, call, scanning, sent,
          answered, replies, audit>>

---------------------------------------------------------------------------
(* State shapes. *)

NoPending == [call |-> NoCall, disp |-> "absent"]
NotScanning == [call |-> NoCall, pending |-> NoCall]
NewCall == [phase |-> "new", tool |-> NoTool, id |-> NoId, arg |-> "clean",
            crash |-> "none", stage |-> "undecided", out |-> "raw"]

tainted == taint_origin # NoTool

\* A request the gateway has read and the client has no reply to.
InFlight(c) ==
  /\ call[c].phase # "new" /\ call[c].id # NoId
  /\ \A r \in replies : r.call # c

Init ==
  /\ suspended = FALSE /\ history = <<>> /\ taint_origin = NoTool
  /\ risk_score = 0 /\ risk_events = <<>>
  /\ pending = [i \in Ids |-> NoPending]
  /\ pending_tools_list = {}
  /\ since_last = 0
  /\ call = [c \in Calls |-> NewCall]
  /\ scanning = NotScanning
  /\ sent = <<>> /\ answered = {} /\ replies = {} /\ audit = <<>>

---------------------------------------------------------------------------
(* The pipeline: each stage yields the outcomes it may return.  An outcome *)
(* is a StageOutcome together with what the action handler left on the     *)
(* CallContext: the disposition, the arguments to send, the approval.      *)

Outcome(verdict, stage, risk) ==
  [verdict |-> verdict, stage |-> stage, risk |-> risk, internal |-> FALSE,
   disp |-> "none", out |-> "raw", approval |-> FALSE]

deny(stage, risk) == Outcome("deny", stage, risk)

proceed(disp, out) ==
  [Outcome("continue", "none", "none") EXCEPT !.disp = disp, !.out = out]

Ask == Outcome("ask", "none", "none")

\* A stage that raises denies, tagged internal_error.
Crash(stage) == {[deny(stage, "none") EXCEPT !.internal = TRUE]}

AllowHandler == {proceed("none", "raw")}

BlockHandler == {deny("action", "blocked_tool")}

QuarantineHandler == {proceed("quarantine", "raw")}

\* A rewrite may find nothing to change.
RewriteHandler == {proceed("none", "rewritten"), proceed("none", "raw")}

\* The arguments are scrubbed here and the result later.  Without a service, or
\* when scrubbing the arguments fails, the call is denied.
RedactHandler(r) ==
  IF ~RedactionOn THEN BlockHandler
  ELSE {proceed("redact", IF r.arg = "pii" THEN "scrubbed" ELSE "raw")} \cup BlockHandler

\* The handler of an action; a `then: require_approval` is a misconfiguration and
\* denies.
Handler(action, r) ==
  IF r.crash = "action" THEN Crash("action") ELSE
  CASE action = "allow"      -> AllowHandler
    [] action = "rewrite"    -> RewriteHandler
    [] action = "quarantine" -> QuarantineHandler
    [] action = "redact"     -> RedactHandler(r)
    [] OTHER                 -> BlockHandler

\* Mutant of AfterApproval: an approved call continues as a bare allow.
AfterApprovalBareAllow(r, approved) ==
  {[o EXCEPT !.approval = TRUE] :
     o \in {IF approved THEN proceed("none", "raw") ELSE deny("action", "approval_denied")}}

\* The approval handler once the broker has answered.
AfterApproval(r, approved) ==
  LET then == IF approved THEN Handler(ThenOf[r.tool], r)
              ELSE {deny("action", "approval_denied")}
  IN  {[o EXCEPT !.approval = TRUE] : o \in then}

ActionStage(r) ==
  IF ActionOf[r.tool] # "require_approval" THEN Handler(ActionOf[r.tool], r) ELSE
  CASE Broker = "none" -> {deny("action", "blocked_tool")}
    [] Broker = "http" -> {Ask}
    [] OTHER           -> AfterApproval(r, Broker = "allow")

\* Mutant of Forbidden: only the previous call is looked at.
ForbiddenAfterLast(tool) ==
  history # <<>> /\ \E prev \in {history[Len(history)]} :
    \/ prev \in TaintSources /\ tool \in TaintSinks
    \/ <<prev, tool>> \in SequenceRules

\* SequencePolicy.check on the session as it is now.
Forbidden(tool) ==
  \/ tainted /\ tool \in TaintSinks
  \/ \E prev \in Range(history) : <<prev, tool>> \in SequenceRules

SequenceStage(r) ==
  IF r.crash = "sequence" THEN Crash("sequence")
  ELSE IF Forbidden(r.tool) THEN {deny("sequence", "sequence_violation")}
  ELSE ActionStage(r)

ConstraintsStage(r) ==
  IF r.crash = "constraints" THEN Crash("constraints")
  ELSE IF r.arg = "violating" THEN {deny("constraints", "constraint_violation")}
  ELSE SequenceStage(r)

\* Mutant of Pipeline: the session gate is left out.
PipelineWithoutGate(r) ==
  IF r.crash = "policy" THEN Crash("policy") ELSE ConstraintsStage(r)

Pipeline(r) ==
  IF suspended THEN {deny("session_gate", "none")}
  ELSE IF r.crash = "policy" THEN Crash("policy")
  ELSE ConstraintsStage(r)

---------------------------------------------------------------------------
(* Effects shared by the handlers. *)

\* An audit record; only some carry the session's score.
Event(name, c) == [event |-> name, call |-> c, scored |-> FALSE, score |-> 0]
\* Mutant of ScoredEvent: it reports the score read before the event was scored.
StaleScoredEvent(name, c, score) ==
  [event |-> name, call |-> c, scored |-> TRUE, score |-> risk_score]

ScoredEvent(name, c, score) ==
  [event |-> name, call |-> c, scored |-> TRUE, score |-> score]

\* RiskEngine.record, with the session_suspended record of the transition.
Record(c, event) ==
  /\ risk_score' = risk_score + Weights[event]
  /\ risk_events' = Append(risk_events, [event |-> event, call |-> c])
  /\ suspended' = (suspended \/ risk_score + Weights[event] >= SuspendAt)

\* Mutant of SuspendedNow: every event above the threshold is a transition.
SuspendedAgain(event) == risk_score + Weights[event] >= SuspendAt

SuspendedNow(event) == ~suspended /\ risk_score + Weights[event] >= SuspendAt

SuspendedRecord(c, event) ==
  IF SuspendedNow(event)
  THEN <<ScoredEvent("session_suspended", c, risk_score + Weights[event])>> ELSE <<>>

\* AnomalyMonitor.observe up to the backend: does it assess this call?
Assessed(force) == AnomalyOn /\ (force \/ since_last + 1 >= Debounce)

\* Mutant of Observe: the debounce counter is never reset.
ObserveWithoutReset(force) ==
  since_last' = IF AnomalyOn THEN since_last + 1 ELSE since_last

Observe(force) ==
  since_last' = IF AnomalyOn /\ ~Assessed(force) THEN since_last + 1
                ELSE IF AnomalyOn THEN 0 ELSE since_last

ApprovalRecord(c, o) ==
  IF o.approval THEN <<Event("approval_requested", c)>> ELSE <<>>

Phase(assessed) == IF assessed THEN "observing" ELSE "done"

\* Request r of call c has come to this phase, decided at this stage.
Settled(r, phase, stage, out) ==
  [phase |-> phase, tool |-> r.tool, id |-> r.id, arg |-> r.arg, crash |-> r.crash,
   stage |-> stage, out |-> out]

Settle(c, r, phase, stage, out) ==
  call' = [call EXCEPT ![c] = Settled(r, phase, stage, out)]

\* Mutant of FailsOpen: the posture applies to every denial.
FailsOpenAlways(o) == "pipeline" \in OpenPosture

FailsOpen(o) == o.internal /\ "pipeline" \in OpenPosture

\* _handle_denial: audit, score, refuse, and force a behavioural look.
Refuse(c, r, o) ==
  /\ o.verdict = "deny" /\ ~FailsOpen(o)
  /\ IF o.risk = "none"
     THEN /\ UNCHANGED <<risk_score, risk_events, suspended>>
          /\ audit' = audit \o ApprovalRecord(c, o) \o
               <<IF o.stage = "session_gate"
                 THEN ScoredEvent("denied_session_suspended", c, risk_score)
                 ELSE Event("tool_call_blocked", c)>>
     ELSE /\ Record(c, o.risk)
          /\ audit' = audit \o ApprovalRecord(c, o) \o
               <<ScoredEvent("tool_call_blocked", c, risk_score + Weights[o.risk])>> \o
               SuspendedRecord(c, o.risk)
  /\ replies' = replies \cup {[call |-> c, form |-> "denied", error |-> TRUE]}
  /\ Observe(TRUE)
  /\ Settle(c, r, Phase(AnomalyOn), o.stage, "raw")
  /\ UNCHANGED <<history, taint_origin, pending, pending_tools_list, scanning,
                 sent, answered>>

\* _handle_denial under the fail-open posture: the original call, unrecorded.
ForwardUnchecked(c, r, o) ==
  /\ o.verdict = "deny" /\ FailsOpen(o)
  /\ audit' = audit \o ApprovalRecord(c, o) \o <<Event("stage_error_fail_open", c)>>
  /\ pending' = [pending EXCEPT ![r.id] = [call |-> c, disp |-> "none"]]
  /\ sent' = Append(sent, c)
  /\ Settle(c, r, "done", "fail_open", "raw")
  /\ UNCHANGED <<suspended, history, taint_origin, risk_score, risk_events,
                 pending_tools_list, since_last, scanning, answered, replies>>

\* The tail of _handle_tool_call: record, taint, track, audit, send.
Forward(c, r, o) ==
  LET taints == r.tool \in TaintSources /\ ~tainted IN
  /\ o.verdict = "continue"
  /\ history' = Append(history, r.tool)
  /\ taint_origin' = IF taints THEN r.tool ELSE taint_origin
  /\ pending' = [pending EXCEPT ![r.id] = [call |-> c, disp |-> o.disp]]
  /\ audit' = audit \o ApprovalRecord(c, o) \o
       (IF taints THEN <<Event("session_tainted", c)>> ELSE <<>>) \o
       <<Event("tool_call_allowed", c)>>
  /\ sent' = Append(sent, c)
  /\ Observe(FALSE)
  /\ Settle(c, r, Phase(Assessed(FALSE)), "forwarded", o.out)
  /\ UNCHANGED <<suspended, risk_score, risk_events, pending_tools_list,
                 scanning, answered, replies>>

\* Park the call on the approval channel; nothing else has changed yet.
AwaitApproval(c, r, o) ==
  /\ o.verdict = "ask"
  /\ Settle(c, r, "approval", "undecided", "raw")
  /\ UNCHANGED <<session, pending_tools_list, since_last, scanning, sent,
                 answered, replies, audit>>

Conclude(c, r, o) ==
  Refuse(c, r, o) \/ ForwardUnchecked(c, r, o) \/ Forward(c, r, o)

---------------------------------------------------------------------------
(* Client to upstream. *)

\* The client may send request c with id i.  The stdio pump awaits the handler
\* of one line before it reads the next; HTTP POSTs run concurrently.
MaySend(c, i) ==
  /\ call[c].phase = "new"
  /\ Sequential => \A d \in Calls : call[d].phase \notin {"approval", "observing"}
  /\ IdReuse \/ \A d \in Calls : InFlight(d) => call[d].id # i

\* A request on its way in; crash is the stage, if any, that raises on it.
Request(tool, i, arg, crash) ==
  [NewCall EXCEPT !.tool = tool, !.id = i, !.arg = arg, !.crash = crash]

ToolCall(c, r) ==
  /\ MaySend(c, r.id)
  /\ \E o \in Pipeline(r) : AwaitApproval(c, r, o) \/ Conclude(c, r, o)

\* Mutant of ApprovalReturns: an answer that comes after the deadline is applied.
ApprovalReturnsLate(c, answer) ==
  /\ call[c].phase \in {"approval", "done"} /\ call[c].tool \in Tools
  /\ \E o \in AfterApproval(call[c], answer = "approved") : Conclude(c, call[c], o)

\* ApprovalBroker.request returns: the human's answer, or the deadline or a
\* channel error, which denies unless the approval posture is open.
ApprovalReturns(c, answer) ==
  /\ call[c].phase = "approval"
  /\ \E o \in AfterApproval(call[c],
                \/ answer = "approved"
                \/ answer = "unavailable" /\ "approval" \in OpenPosture) :
       Conclude(c, call[c], o)

\* The anomaly backend returns: no verdict, or a severity that is scored.
AnomalyReturns(c, verdict) ==
  /\ call[c].phase = "observing"
  /\ call' = [call EXCEPT ![c].phase = "done"]
  /\ IF verdict = "none"
     THEN UNCHANGED <<risk_score, risk_events, suspended, audit>>
     ELSE /\ Record(c, verdict)
          /\ audit' = audit \o
               <<ScoredEvent("anomaly_detected", c, risk_score + Weights[verdict])>> \o
               SuspendedRecord(c, verdict)
  /\ UNCHANGED <<history, taint_origin, pending, pending_tools_list, since_last,
                 scanning, sent, answered, replies>>

IdsFor(method) ==
  CASE method = ToolsList -> Ids
    [] method = Opaque    -> {NoId}
    [] OTHER              -> Ids \cup {NoId}

\* Mutant of Passthrough: a tools/list request is not audited.
PassthroughUnaudited(c, method, i) ==
  /\ MaySend(c, i) /\ i \in IdsFor(method)
  /\ pending_tools_list' = IF method = ToolsList THEN pending_tools_list \cup {i}
                           ELSE pending_tools_list
  /\ audit' = IF method = ToolsList THEN audit
              ELSE Append(audit, Event("passthrough_request", c))
  /\ sent' = Append(sent, c)
  /\ Settle(c, Request(method, i, "clean", "none"), "done", "passthrough", "raw")
  /\ UNCHANGED <<session, since_last, scanning, answered, replies>>

\* Every other client line passes through, audited.
Passthrough(c, method, i) ==
  /\ MaySend(c, i) /\ i \in IdsFor(method)
  /\ pending_tools_list' = IF method = ToolsList THEN pending_tools_list \cup {i}
                           ELSE pending_tools_list
  /\ audit' = Append(audit, Event(IF method = Opaque THEN "passthrough_opaque"
                                  ELSE "passthrough_request", c))
  /\ sent' = Append(sent, c)
  /\ Settle(c, Request(method, i, "clean", "none"), "done", "passthrough", "raw")
  /\ UNCHANGED <<session, since_last, scanning, answered, replies>>

---------------------------------------------------------------------------
(* Upstream to client.  The pump awaits the handler of one upstream line   *)
(* before it reads the next, so at most one response is being scanned.     *)

\* A tool whose action can only deny is dropped from tools/list responses.
terminal_deny(action) ==
  \/ action = "block"
  \/ action = "redact" /\ ~RedactionOn
  \/ action = "require_approval" /\ Broker \in {"none", "deny"}

HiddenTools == {t \in Tools : terminal_deny(ActionOf[t])}

\* Mutant of Deliver: error responses are swallowed.
DeliverSuccesses(c, form, error) ==
  replies' = IF error THEN replies
             ELSE replies \cup {[call |-> c, form |-> form, error |-> error]}

Deliver(c, form, error) ==
  replies' = replies \cup {[call |-> c, form |-> form, error |-> error]}

\* A response correlated with a pending tools/call: apply its disposition.
DeliverToolResult(c, p, error) ==
  \/ /\ error \/ p.disp = "none"
     /\ Deliver(c, "raw", error)
     /\ audit' = Append(audit, Event("tool_result", p.call))
     /\ UNCHANGED scanning
  \/ /\ ~error /\ p.disp = "quarantine"
     /\ Deliver(c, "notice", error)
     /\ audit' = Append(audit, Event("tool_result_quarantined", p.call))
     /\ UNCHANGED scanning
  \/ /\ ~error /\ p.disp = "redact"
     /\ scanning' = [call |-> c, pending |-> p.call]
     /\ UNCHANGED <<replies, audit>>

\* The upstream answers request c; error is a JSON-RPC or tool-level error.
UpstreamResponse(c, error) ==
  LET i == call[c].id
      p == pending[i]
  IN
  /\ c \in Range(sent) \ answered /\ i # NoId
  /\ scanning = NotScanning
  /\ answered' = answered \cup {c}
  /\ \/ /\ p # NoPending
        /\ pending' = [pending EXCEPT ![i] = NoPending]
        /\ DeliverToolResult(c, p, error)
        /\ UNCHANGED pending_tools_list
     \/ /\ p = NoPending /\ i \in pending_tools_list
        /\ pending_tools_list' = pending_tools_list \ {i}
        /\ Deliver(c, IF error THEN "raw" ELSE "filtered", error)
        /\ audit' = IF error \/ HiddenTools = {} THEN audit
                    ELSE Append(audit, Event("tools_list_filtered", c))
        /\ UNCHANGED <<pending, scanning>>
     \/ /\ p = NoPending /\ i \notin pending_tools_list
        /\ Deliver(c, "raw", error)
        /\ UNCHANGED <<pending, pending_tools_list, scanning, audit>>
  /\ UNCHANGED <<suspended, history, taint_origin, risk_score, risk_events,
                 since_last, call, sent>>

\* A request or a line that is not JSON, from the upstream: passed on, audited.
UpstreamSpeaks(c, message) ==
  /\ call[c].phase = "new" /\ scanning = NotScanning
  /\ Settle(c, [NewCall EXCEPT !.tool = message], "done", "passthrough", "raw")
  /\ audit' = Append(audit, Event(IF message = Opaque THEN "passthrough_opaque"
                                  ELSE "upstream_request", c))
  /\ Deliver(c, "raw", FALSE)
  /\ UNCHANGED <<session, pending_tools_list, since_last, scanning, sent, answered>>

\* Mutant of ScanFailure: a result released unscanned is recorded as withheld.
ScanFailureAlike == "tool_result_redaction_failed"

\* The record of a scan that failed.
ScanFailure == IF "redaction" \in OpenPosture THEN "redaction_error_fail_open"
               ELSE "tool_result_redaction_failed"

\* _deliver_redacted once the worker thread returns: few entities found, three
\* or more (scored as heavy_redaction), or an exception.
RedactionReturns(result) ==
  LET c == scanning.call
      p == scanning.pending
  IN
  /\ scanning # NotScanning
  /\ scanning' = NotScanning
  /\ \/ /\ result = "light"
        /\ Deliver(c, "scrubbed", FALSE)
        /\ audit' = Append(audit, Event("tool_result_redacted", p))
        /\ UNCHANGED <<risk_score, risk_events, suspended>>
     \/ /\ result = "heavy"
        /\ Record(p, "heavy_redaction")
        /\ Deliver(c, "scrubbed", FALSE)
        /\ audit' = audit \o SuspendedRecord(p, "heavy_redaction") \o
             <<ScoredEvent("tool_result_redacted", p, risk_score + Weights["heavy_redaction"])>>
     \/ /\ result = "failed"
        /\ Deliver(c, IF "redaction" \in OpenPosture THEN "raw" ELSE "withheld", FALSE)
        /\ audit' = Append(audit, Event(ScanFailure, p))
        /\ UNCHANGED <<risk_score, risk_events, suspended>>
  /\ UNCHANGED <<history, taint_origin, pending, pending_tools_list, since_last,
                 call, sent, answered>>

---------------------------------------------------------------------------
Answers == {"approved", "denied", "unavailable"}
Verdicts == {"none"} \cup Severities
Crashes == {"none"} \cup CrashStages
Methods == {ToolsList, OtherMethod, Opaque}

Next ==
  \/ \E c \in Calls, t \in Tools, i \in Ids, a \in ArgKinds, x \in Crashes :
       ToolCall(c, Request(t, i, a, x))
  \/ \E c \in Calls, m \in Methods, i \in Ids \cup {NoId} : Passthrough(c, m, i)
  \/ \E c \in Calls, a \in Answers : ApprovalReturns(c, a)
  \/ \E c \in Calls, v \in Verdicts : AnomalyReturns(c, v)
  \/ \E c \in Calls, e \in BOOLEAN : UpstreamResponse(c, e)
  \/ \E c \in Calls, m \in {ServerRequest, Opaque} : UpstreamSpeaks(c, m)
  \/ \E res \in {"light", "heavy", "failed"} : RedactionReturns(res)

Spec == Init /\ [][Next]_vars

\* The broker's deadline bounds the approval; the anomaly client and the
\* redaction budget bound the two worker threads; and the upstream answers.
Fairness ==
  /\ \A c \in Calls : WF_vars(\E a \in Answers : ApprovalReturns(c, a))
  /\ \A c \in Calls : WF_vars(\E v \in Verdicts : AnomalyReturns(c, v))
  /\ \A c \in Calls : WF_vars(\E e \in BOOLEAN : UpstreamResponse(c, e))
  /\ WF_vars(\E res \in {"light", "heavy", "failed"} : RedactionReturns(res))

FairSpec == Spec /\ Fairness

---------------------------------------------------------------------------
(* Properties. *)

Forms == {"denied", "raw", "notice", "scrubbed", "withheld", "filtered"}

EventNames ==
  {"approval_requested", "tool_call_allowed", "tool_call_blocked",
   "denied_session_suspended", "stage_error_fail_open", "session_suspended",
   "session_tainted", "anomaly_detected", "passthrough_request", "passthrough_opaque",
   "upstream_request", "tools_list_filtered", "tool_result", "tool_result_quarantined",
   "tool_result_redacted", "redaction_error_fail_open", "tool_result_redaction_failed"}

AuditRecords == [event : EventNames, call : Calls, scored : BOOLEAN, score : Int]

PendingCalls == [call : Calls, disp : {"none", "quarantine", "redact"}]

CallStates ==
  [phase : {"new", "approval", "observing", "done"},
   tool : Tools \cup {NoTool, ToolsList, OtherMethod, Opaque, ServerRequest},
   id : Ids \cup {NoId},
   arg : Args,
   crash : {"none"} \cup Stages,
   stage : Stages \cup {"undecided", "session_gate", "forwarded", "fail_open",
                        "passthrough"},
   out : {"raw", "rewritten", "scrubbed"}]

\* Every variable keeps its shape; the debounce counter never reaches Debounce,
\* because AnomalyMonitor.observe resets it on each assessment.
TypeOK ==
  /\ suspended \in BOOLEAN
  /\ history \in Seq(Tools)
  /\ taint_origin \in Tools \cup {NoTool}
  /\ risk_score \in Int
  /\ risk_events \in Seq([event : RiskEvents, call : Calls])
  /\ pending \in [Ids -> PendingCalls \cup {NoPending}]
  /\ pending_tools_list \subseteq Ids
  /\ since_last \in 0..(Debounce - 1)
  /\ call \in [Calls -> CallStates]
  /\ \A c \in Calls : call[c].phase = "approval" => call[c].tool \in Tools /\ call[c].id \in Ids
  /\ scanning \in [call : Calls, pending : Calls] \cup {NotScanning}
  /\ sent \in Seq(Calls)
  /\ answered \subseteq Calls
  /\ replies \subseteq [call : Calls, form : Forms, error : BOOLEAN]
  /\ audit \in Seq(AuditRecords)

\* The disposition the static policy asks for the result of a tool: that of its
\* action, or of its `then` action when a human must approve first.
Owed(tool) ==
  LET a == IF ActionOf[tool] = "require_approval" THEN ThenOf[tool] ELSE ActionOf[tool]
  IN  IF a \in {"redact", "quarantine"} THEN a ELSE "none"

\* Some record of kind `name` in the trail is about call c.
Recorded(name, c) == \E k \in DOMAIN audit : audit[k].event = name /\ audit[k].call = c

\* The data a redact or quarantine rule protects never crosses the gateway as
\* it is once the call has passed the pipeline: its result is not delivered raw
\* (error results excepted, which the code delivers as they are) unless the
\* operator chose to fail open and the trail says so, and arguments that hold PII
\* are not sent unscrubbed.  (gateway.py _deliver_tool_result; redact.py)
ProtectedDataStaysProtected ==
  \A c \in Calls : call[c].stage = "forwarded" =>
    /\ Owed(call[c].tool) # "none" =>
         \A r \in replies : (r.call = c /\ r.form = "raw") =>
           \/ r.error
           \/ "redaction" \in OpenPosture /\ Recorded("redaction_error_fail_open", c)
    /\ (Owed(call[c].tool) = "redact" /\ call[c].arg = "pii") => call[c].out = "scrubbed"

\* The order of the calls the upstream sees respects the taint and sequence
\* rules: no sink after a source, no forbidden tool after its trigger.
\* (sequence/policy.py SequencePolicy; gateway.py _handle_tool_call)
OrderForbidden(before, after) ==
  \/ before \in TaintSources /\ after \in TaintSinks
  \/ <<before, after>> \in SequenceRules

SequenceRespected ==
  \A j \in DOMAIN sent : \A k \in 1..(j - 1) :
    (call[sent[k]].stage = "forwarded" /\ call[sent[j]].stage = "forwarded") =>
      ~OrderForbidden(call[sent[k]].tool, call[sent[j]].tool)

\* What the denial tells the client stays true: "The request never reached the
\* upstream server", neither before nor after the denial.  (jsonrpc.py
\* denied_response; gateway.py _handle_denial)
RefusedNeverSent ==
  \A r \in replies : r.form = "denied" => r.call \notin Range(sent)

\* The score and the suspension agree whatever integers the weights are: once
\* an event has been scored, a score at the threshold means a suspended
\* session, and the trail holds one session_suspended record iff the session is
\* suspended.  (risk/scoring.py record; gateway.py _audit_suspended)
SuspensionsIn(trail) == {k \in DOMAIN trail : trail[k].event = "session_suspended"}
SuspensionRecords == SuspensionsIn(audit)

SuspensionAccounted ==
  /\ (risk_events # <<>> /\ risk_score >= SuspendAt) => suspended
  /\ \A j, k \in SuspensionRecords : j = k
  /\ suspended <=> SuspensionRecords # {}

\* The trail positions of calls let through after the suspension record.
Stragglers ==
  {k \in DOMAIN audit :
     /\ audit[k].event \in {"tool_call_allowed", "stage_error_fail_open"}
     /\ \E j \in SuspensionRecords : j < k}

\* Under the stdio pump a suspended session lets at most one more call through:
\* the one whose approval was pending when the session was suspended.
\* (pipeline.py SessionGateStage; approval.py on_request)
AtMostOneStraggler == \A j, k \in Stragglers : j = k

\* With concurrent clients, every call let through after the suspension had
\* been waiting for a human when the session was suspended.
StragglersWereApproved ==
  \A k \in Stragglers : Recorded("approval_requested", audit[k].call)

\* The records of a client line written to the upstream, and the trail positions
\* that record a written request as let through.
LetThrough == {"tool_call_allowed", "stage_error_fail_open", "passthrough_request",
               "passthrough_opaque"}
Through ==
  {k \in DOMAIN audit : audit[k].event \in LetThrough /\ audit[k].call \in Range(sent)}

\* The trail and the wire agree: every request written to the upstream has one
\* record as let through, and those records are in the order of the writes, so a
\* replay of the trail sees the calls as the upstream saw them.
\* (gateway.py _handle_tool_call, _handle_denial, _dispatch_client_line)
TrailMatchesWire ==
  /\ \A j \in DOMAIN sent : \E k \in Through : audit[k].call = sent[j]
  /\ \A k, l \in Through : \A i, j \in DOMAIN sent :
       (audit[k].call = sent[i] /\ audit[l].call = sent[j]) => (k < l <=> i < j)

\* The last score the trail reports is the session's: a console that shows the
\* latest session_score of the trail shows the live score.
\* (gateway.py audit_fields of every recorded risk event)
TrailScoreIsLive ==
  /\ risk_events # <<>> => \E k \in DOMAIN audit : audit[k].scored
  /\ \A k \in DOMAIN audit :
       (audit[k].scored /\ \A j \in (k + 1)..Len(audit) : ~audit[j].scored) =>
         audit[k].score = risk_score

\* The fail-open posture covers unexpected errors only.  A call that went through
\* the pipeline is one that no stage raised on, that its constraints admit and
\* that tools/list shows; a call let through unchecked is one that a stage raised
\* on before any other stage denied it.
\* (failure.py; pipeline.py run, denying_actions; gateway.py _handle_denial)
PolicyDenialsHold ==
  \A k \in DOMAIN sent :
    LET r == call[sent[k]] IN
    /\ r.stage = "forwarded" =>
         r.arg # "violating" /\ r.tool \notin HiddenTools /\ r.crash = "none"
    /\ r.stage = "fail_open" =>
         /\ "pipeline" \in OpenPosture /\ r.crash # "none"
         /\ r.arg = "violating" => r.crash \in {"policy", "constraints"}

\* A request the gateway has read is answered in the end, by a denial or by the
\* upstream's response: no path loses a pending approval, scan or response.
RequestsAreAnswered == \A c \in Calls : InFlight(c) ~> ~InFlight(c)


\* What the stages checked holds on the wire although an approval, a verdict or
\* a scan may come between the check and the call: the order rules, and after a
\* suspension only calls that a human had already been asked about.
\* (pipeline.py run; approval.py on_request; gateway.py _handle_tool_call)
ChecksHoldOnTheWire == SequenceRespected /\ StragglersWereApproved


\* How far a fail-open posture reaches: past stages that raised and scans that
\* failed, on the record, and never past a policy denial or a finished scan.
\* (failure.py; gateway.py _handle_denial, _redact_result)
FailOpenIsBounded == PolicyDenialsHold /\ ProtectedDataStaysProtected
=============================================================================
