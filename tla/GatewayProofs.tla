--------------------------- MODULE GatewayProofs ---------------------------
(* Theorems about Gateway, for every policy, weight table, posture and set of *)
(* clients: type correctness and the safety invariants that follow from it.  *)
EXTENDS Gateway, TLAPS

\* The outcomes a stage or a handler may return.
Outcomes ==
  [verdict : {"deny", "continue", "ask"},
   stage : Stages \cup {"session_gate", "none"},
   risk : RiskEvents \cup {"none"},
   internal : BOOLEAN,
   disp : {"none", "quarantine", "redact"},
   out : {"raw", "rewritten", "scrubbed"},
   approval : BOOLEAN]

\* Well-formed outcomes: a denial names its stage.
StageOutcomes == {o \in Outcomes : o.verdict = "deny" => o.stage # "none"}

---------------------------------------------------------------------------
(* What the pipeline returns. *)

\* A handler's outcome is well formed and never another question to a human.
LEMMA HandlerOutcome ==
  ASSUME NEW action, NEW r, NEW o \in Handler(action, r)
  PROVE  o \in StageOutcomes /\ o.verdict # "ask"
<1>1. CASE r.crash = "action"
  BY <1>1 DEF Handler, Crash, deny, Outcome, StageOutcomes, Outcomes, Stages
<1>2. CASE r.crash # "action"
  <2>1. \/ o = proceed("none", "raw") \/ o = proceed("none", "rewritten")
        \/ o = proceed("quarantine", "raw") \/ o = proceed("redact", "raw")
        \/ o = proceed("redact", "scrubbed") \/ o = deny("action", "blocked_tool")
    BY <1>2 DEF Handler, AllowHandler, BlockHandler, QuarantineHandler, RewriteHandler,
                RedactHandler
  <2>2. deny("action", "blocked_tool") \in StageOutcomes /\ deny("action", "blocked_tool").verdict # "ask"
    BY DEF deny, Outcome, StageOutcomes, Outcomes, Stages, RiskEvents
  <2>3. ASSUME NEW disp \in {"none", "quarantine", "redact"},
               NEW out \in {"raw", "rewritten", "scrubbed"}
        PROVE  proceed(disp, out) \in StageOutcomes /\ proceed(disp, out).verdict # "ask"
    BY DEF proceed, Outcome, StageOutcomes, Outcomes
  <2> QED
    BY <2>1, <2>2, <2>3
<1> QED
  BY <1>1, <1>2

LEMMA AfterApprovalOutcome ==
  ASSUME NEW r, NEW approved, NEW o \in AfterApproval(r, approved)
  PROVE  o \in StageOutcomes /\ o.verdict # "ask"
<1>1. PICK p \in IF approved THEN Handler(ThenOf[r.tool], r)
                 ELSE {deny("action", "approval_denied")} :
        o = [p EXCEPT !.approval = TRUE]
  BY DEF AfterApproval
<1>2. p \in StageOutcomes /\ p.verdict # "ask"
  <2>1. deny("action", "approval_denied") \in StageOutcomes
        /\ deny("action", "approval_denied").verdict # "ask"
    BY DEF deny, Outcome, StageOutcomes, Outcomes, Stages, RiskEvents
  <2> QED
    BY <1>1, <2>1, HandlerOutcome
<1> QED
  BY <1>1, <1>2 DEF StageOutcomes, Outcomes

LEMMA PipelineOutcome ==
  ASSUME NEW r, NEW o \in Pipeline(r)
  PROVE  o \in StageOutcomes
<1>1. ASSUME NEW stage \in Stages \cup {"session_gate"}, NEW risk \in RiskEvents \cup {"none"}
      PROVE  deny(stage, risk) \in StageOutcomes
  BY DEF deny, Outcome, StageOutcomes, Outcomes, Stages
<1>2. ASSUME NEW stage \in Stages, o \in Crash(stage)
      PROVE  o \in StageOutcomes
  BY <1>2 DEF Crash, deny, Outcome, StageOutcomes, Outcomes, Stages
<1>3. Ask \in StageOutcomes
  BY DEF Ask, Outcome, StageOutcomes, Outcomes
<1>4. ASSUME o \in ActionStage(r)
      PROVE  o \in StageOutcomes
  BY <1>4, <1>1, <1>3, HandlerOutcome, AfterApprovalOutcome DEF ActionStage, Stages, RiskEvents
<1>5. ASSUME o \in SequenceStage(r)
      PROVE  o \in StageOutcomes
  BY <1>5, <1>1, <1>2, <1>4 DEF SequenceStage, Stages, RiskEvents
<1>6. ASSUME o \in ConstraintsStage(r)
      PROVE  o \in StageOutcomes
  BY <1>6, <1>1, <1>2, <1>5 DEF ConstraintsStage, Stages, RiskEvents
<1> QED
  BY <1>1, <1>2, <1>6 DEF Pipeline, Stages

---------------------------------------------------------------------------
(* Type correctness. *)

LEMMA RecordTypes ==
  ASSUME NEW c \in Calls, NEW name \in EventNames, NEW score \in Int
  PROVE  Event(name, c) \in AuditRecords /\ ScoredEvent(name, c, score) \in AuditRecords
BY DEF Event, ScoredEvent, AuditRecords

LEMMA ApprovalRecordType ==
  ASSUME NEW c \in Calls, NEW o
  PROVE  ApprovalRecord(c, o) \in Seq(AuditRecords)
<1>1. Event("approval_requested", c) \in AuditRecords
  BY RecordTypes DEF EventNames
<1> QED
  BY <1>1 DEF ApprovalRecord

LEMMA SuspendedRecordType ==
  ASSUME NEW c \in Calls, NEW event \in RiskEvents, risk_score \in Int
  PROVE  SuspendedRecord(c, event) \in Seq(AuditRecords)
<1>1. risk_score + Weights[event] \in Int
  BY ConstantsAssumption
<1>2. ScoredEvent("session_suspended", c, risk_score + Weights[event]) \in AuditRecords
  BY <1>1, RecordTypes DEF EventNames
<1> QED
  BY <1>2 DEF SuspendedRecord

\* Scoring an event keeps the risk fields of the session well typed.
LEMMA RecordType ==
  ASSUME TypeOK, NEW c \in Calls, NEW event \in RiskEvents, Record(c, event)
  PROVE  /\ risk_score' \in Int /\ suspended' \in BOOLEAN
         /\ risk_events' \in Seq([event : RiskEvents, call : Calls])
         /\ risk_score' = risk_score + Weights[event]
<1>1. risk_score' \in Int /\ risk_score' = risk_score + Weights[event]
  BY ConstantsAssumption DEF TypeOK, Record
<1>2. suspended' \in BOOLEAN
  BY ConstantsAssumption DEF TypeOK, Record
<1>3. risk_events' \in Seq([event : RiskEvents, call : Calls])
  BY DEF TypeOK, Record
<1> QED
  BY <1>1, <1>2, <1>3

\* The debounce counter stays below the debounce.
LEMMA ObserveType ==
  ASSUME TypeOK, NEW force \in BOOLEAN, Observe(force)
  PROVE  since_last' \in 0..(Debounce - 1)
<1> Debounce \in Nat \ {0} /\ since_last \in 0..(Debounce - 1)
  BY ConstantsAssumption DEF TypeOK
<1>1. CASE AnomalyOn /\ ~Assessed(force)
  <2>1. since_last + 1 < Debounce
    BY <1>1, ConstantsAssumption DEF Assessed
  <2> QED
    BY <1>1, <2>1 DEF Observe
<1>2. CASE AnomalyOn /\ Assessed(force)
  BY <1>2 DEF Observe
<1>3. CASE ~AnomalyOn
  BY <1>3 DEF Observe
<1> QED
  BY <1>1, <1>2, <1>3

LEMMA SettleType ==
  ASSUME TypeOK, NEW c \in Calls, NEW r \in CallStates,
         NEW phase \in {"new", "approval", "observing", "done"},
         NEW stage \in Stages \cup {"undecided", "session_gate", "forwarded",
                                    "fail_open", "passthrough"},
         NEW out \in {"raw", "rewritten", "scrubbed"},
         phase = "approval" => r.tool \in Tools /\ r.id \in Ids,
         Settle(c, r, phase, stage, out)
  PROVE  /\ call' \in [Calls -> CallStates]
         /\ \A d \in Calls : call'[d].phase = "approval" =>
              call'[d].tool \in Tools /\ call'[d].id \in Ids
<1> DEFINE q == Settled(r, phase, stage, out)
<1>1. q \in CallStates /\ q.phase = phase /\ q.tool = r.tool /\ q.id = r.id
  <2>1. r.tool \in Tools \cup {NoTool, ToolsList, OtherMethod, Opaque, ServerRequest}
        /\ r.id \in Ids \cup {NoId} /\ r.arg \in Args /\ r.crash \in {"none"} \cup Stages
    BY DEF CallStates
  <2>2. q.phase = phase /\ q.tool = r.tool /\ q.id = r.id
    BY DEF Settled
  <2>3. q \in CallStates
    BY <2>1 DEF CallStates, Settled
  <2> QED
    BY <2>2, <2>3
<1>2. call' = [call EXCEPT ![c] = q]
  BY DEF Settle
<1> HIDE DEF q
<1> QED
  BY <1>1, <1>2 DEF TypeOK

\* One more reply to the client.
LEMMA DeliverType ==
  ASSUME TypeOK, NEW c \in Calls, NEW form \in Forms, NEW error \in BOOLEAN
  PROVE  replies \cup {[call |-> c, form |-> form, error |-> error]}
           \subseteq [call : Calls, form : Forms, error : BOOLEAN]
BY DEF TypeOK

LEMMA RefuseType ==
  ASSUME TypeOK, NEW c \in Calls, NEW r \in CallStates, r.tool \in Tools,
         NEW o \in StageOutcomes, Refuse(c, r, o)
  PROVE  TypeOK'
<1>1. /\ o.stage \in Stages \cup {"session_gate"} /\ o.verdict = "deny"
      /\ o.risk \in RiskEvents \cup {"none"}
  BY DEF Refuse, StageOutcomes, Outcomes
<1>2. replies' \subseteq [call : Calls, form : Forms, error : BOOLEAN]
  <2>1. "denied" \in Forms /\ TRUE \in BOOLEAN
    BY DEF Forms
  <2> QED
    BY <2>1, DeliverType DEF Refuse
<1>3. since_last' \in 0..(Debounce - 1)
  BY ObserveType DEF Refuse
<1>4. /\ call' \in [Calls -> CallStates]
      /\ \A d \in Calls : call'[d].phase = "approval" =>
           call'[d].tool \in Tools /\ call'[d].id \in Ids
  <2>1. Phase(AnomalyOn) \in {"observing", "done"}
    BY DEF Phase
  <2>2. Settle(c, r, Phase(AnomalyOn), o.stage, "raw")
    BY DEF Refuse
  <2> QED
    BY <1>1, <2>1, <2>2, SettleType
<1>5. /\ suspended' \in BOOLEAN /\ risk_score' \in Int
      /\ risk_events' \in Seq([event : RiskEvents, call : Calls])
      /\ audit' \in Seq(AuditRecords)
  <2>1. CASE o.risk = "none"
    <3>1. /\ ScoredEvent("denied_session_suspended", c, risk_score) \in AuditRecords
          /\ Event("tool_call_blocked", c) \in AuditRecords
      BY RecordTypes DEF EventNames, TypeOK
    <3>2. ApprovalRecord(c, o) \in Seq(AuditRecords)
      BY ApprovalRecordType
    <3>3. audit' = audit \o ApprovalRecord(c, o) \o
               <<IF o.stage = "session_gate"
                 THEN ScoredEvent("denied_session_suspended", c, risk_score)
                 ELSE Event("tool_call_blocked", c)>>
          /\ UNCHANGED <<risk_score, risk_events, suspended>>
      BY <2>1 DEF Refuse
    <3> QED
      BY <3>1, <3>2, <3>3 DEF TypeOK
  <2>2. CASE o.risk # "none"
    <3>1. o.risk \in RiskEvents /\ Record(c, o.risk)
      BY <1>1, <2>2 DEF Refuse
    <3>2. /\ risk_score' \in Int /\ suspended' \in BOOLEAN
          /\ risk_events' \in Seq([event : RiskEvents, call : Calls])
          /\ risk_score + Weights[o.risk] \in Int
      BY <3>1, RecordType
    <3>3. ScoredEvent("tool_call_blocked", c, risk_score + Weights[o.risk]) \in AuditRecords
      BY <3>2, RecordTypes DEF EventNames
    <3>4. /\ ApprovalRecord(c, o) \in Seq(AuditRecords)
          /\ SuspendedRecord(c, o.risk) \in Seq(AuditRecords)
          /\ audit \in Seq(AuditRecords)
      BY <3>1, ApprovalRecordType, SuspendedRecordType DEF TypeOK
    <3>5. audit' = audit \o ApprovalRecord(c, o) \o
               <<ScoredEvent("tool_call_blocked", c, risk_score + Weights[o.risk])>> \o
               SuspendedRecord(c, o.risk)
      BY <2>2 DEF Refuse
    <3> QED
      BY <3>2, <3>3, <3>4, <3>5
  <2> QED
    BY <2>1, <2>2
<1> QED
  BY <1>2, <1>3, <1>4, <1>5 DEF TypeOK, Refuse

LEMMA ForwardUncheckedType ==
  ASSUME TypeOK, NEW c \in Calls, NEW r \in CallStates, r.tool \in Tools, r.id \in Ids,
         NEW o \in StageOutcomes, ForwardUnchecked(c, r, o)
  PROVE  TypeOK'
<1>1. audit' \in Seq(AuditRecords)
  <2>1. Event("stage_error_fail_open", c) \in AuditRecords
    BY RecordTypes DEF EventNames
  <2> QED
    BY <2>1, ApprovalRecordType DEF ForwardUnchecked, TypeOK
<1>2. /\ call' \in [Calls -> CallStates]
      /\ \A d \in Calls : call'[d].phase = "approval" =>
           call'[d].tool \in Tools /\ call'[d].id \in Ids
  BY SettleType DEF ForwardUnchecked
<1>3. pending' \in [Ids -> PendingCalls \cup {NoPending}] /\ sent' \in Seq(Calls)
  BY DEF ForwardUnchecked, TypeOK, PendingCalls
<1> QED
  BY <1>1, <1>2, <1>3 DEF TypeOK, ForwardUnchecked

LEMMA ForwardType ==
  ASSUME TypeOK, NEW c \in Calls, NEW r \in CallStates, r.tool \in Tools, r.id \in Ids,
         NEW o \in StageOutcomes, Forward(c, r, o)
  PROVE  TypeOK'
<1> DEFINE taints == r.tool \in TaintSources /\ ~tainted
<1>1. audit' \in Seq(AuditRecords)
  <2>1. Event("session_tainted", c) \in AuditRecords
        /\ Event("tool_call_allowed", c) \in AuditRecords
    BY RecordTypes DEF EventNames
  <2>2. (IF taints THEN <<Event("session_tainted", c)>> ELSE <<>>) \in Seq(AuditRecords)
    BY <2>1
  <2> HIDE DEF taints
  <2>3. audit' = audit \o ApprovalRecord(c, o) \o
       (IF taints THEN <<Event("session_tainted", c)>> ELSE <<>>) \o
       <<Event("tool_call_allowed", c)>>
    BY DEF Forward, taints
  <2> QED
    BY <2>1, <2>2, <2>3, ApprovalRecordType DEF TypeOK
<1>2. /\ call' \in [Calls -> CallStates]
      /\ \A d \in Calls : call'[d].phase = "approval" =>
           call'[d].tool \in Tools /\ call'[d].id \in Ids
  <2>1. Phase(Assessed(FALSE)) \in {"observing", "done"}
    BY DEF Phase
  <2>2. o.out \in {"raw", "rewritten", "scrubbed"}
    BY DEF StageOutcomes, Outcomes
  <2>3. Settle(c, r, Phase(Assessed(FALSE)), "forwarded", o.out)
    BY DEF Forward
  <2> QED
    BY <2>1, <2>2, <2>3, SettleType
<1>3. o.disp \in {"none", "quarantine", "redact"}
  BY DEF StageOutcomes, Outcomes
<1>4. pending' \in [Ids -> PendingCalls \cup {NoPending}] /\ sent' \in Seq(Calls)
  BY <1>3 DEF Forward, TypeOK, PendingCalls
<1>5. history' \in Seq(Tools) /\ taint_origin' \in Tools \cup {NoTool}
  BY DEF Forward, TypeOK
<1>6. since_last' \in 0..(Debounce - 1)
  BY ObserveType DEF Forward
<1> QED
  BY <1>1, <1>2, <1>4, <1>5, <1>6 DEF TypeOK, Forward

LEMMA ConcludeType ==
  ASSUME TypeOK, NEW c \in Calls, NEW r \in CallStates, r.tool \in Tools, r.id \in Ids,
         NEW o \in StageOutcomes, Conclude(c, r, o)
  PROVE  TypeOK'
BY RefuseType, ForwardUncheckedType, ForwardType DEF Conclude

LEMMA RequestType ==
  ASSUME NEW tool \in Tools \cup {ToolsList, OtherMethod, Opaque}, NEW i \in Ids \cup {NoId},
         NEW arg \in Args, NEW crash \in {"none"} \cup Stages
  PROVE  /\ Request(tool, i, arg, crash) \in CallStates
         /\ Request(tool, i, arg, crash).tool = tool
         /\ Request(tool, i, arg, crash).id = i
BY DEF Request, NewCall, CallStates, Stages

LEMMA TypeStep ==
  ASSUME TypeOK, [Next]_vars
  PROVE  TypeOK'
<1>1. ASSUME NEW c \in Calls, NEW t \in Tools, NEW i \in Ids, NEW a \in ArgKinds,
             NEW x \in Crashes, ToolCall(c, Request(t, i, a, x))
      PROVE  TypeOK'
  <2> DEFINE r == Request(t, i, a, x)
  <2>1. r \in CallStates /\ r.tool = t /\ r.id = i
    BY RequestType, ConstantsAssumption DEF Crashes
  <2> HIDE DEF r
  <2>2. PICK o \in Pipeline(r) : AwaitApproval(c, r, o) \/ Conclude(c, r, o)
    BY <1>1 DEF ToolCall, r
  <2>3. o \in StageOutcomes
    BY PipelineOutcome
  <2>4. CASE AwaitApproval(c, r, o)
    <3>1. /\ call' \in [Calls -> CallStates]
          /\ \A d \in Calls : call'[d].phase = "approval" =>
               call'[d].tool \in Tools /\ call'[d].id \in Ids
      BY <2>1, <2>4, SettleType DEF AwaitApproval
    <3> QED
      BY <2>4, <3>1 DEF AwaitApproval, TypeOK, session
  <2>5. CASE Conclude(c, r, o)
    BY <2>1, <2>3, <2>5, ConcludeType
  <2> QED
    BY <2>2, <2>4, <2>5
<1>2. ASSUME NEW c \in Calls, NEW m \in Methods, NEW i \in Ids \cup {NoId}, Passthrough(c, m, i)
      PROVE  TypeOK'
  <2> DEFINE r == Request(m, i, "clean", "none")
  <2>1. r \in CallStates
    BY RequestType DEF Methods, Args
  <2>2. Settle(c, r, "done", "passthrough", "raw")
    BY <1>2 DEF Passthrough
  <2> HIDE DEF r
  <2>3. /\ call' \in [Calls -> CallStates]
        /\ \A d \in Calls : call'[d].phase = "approval" =>
             call'[d].tool \in Tools /\ call'[d].id \in Ids
    BY <2>1, <2>2, SettleType
  <2>4. audit' \in Seq(AuditRecords)
    BY <1>2, RecordTypes DEF Passthrough, EventNames, TypeOK
  <2>5. pending_tools_list' \subseteq Ids /\ sent' \in Seq(Calls)
    BY <1>2 DEF Passthrough, TypeOK, IdsFor, ToolsList, Opaque
  <2> QED
    BY <1>2, <2>3, <2>4, <2>5 DEF Passthrough, TypeOK, session
<1>3. ASSUME NEW c \in Calls, NEW a \in Answers, ApprovalReturns(c, a)
      PROVE  TypeOK'
  <2>1. call[c] \in CallStates /\ call[c].tool \in Tools /\ call[c].id \in Ids
    BY <1>3 DEF ApprovalReturns, TypeOK
  <2> DEFINE approved == a = "approved" \/ (a = "unavailable" /\ "approval" \in OpenPosture)
  <2>2. PICK o \in AfterApproval(call[c], approved) : Conclude(c, call[c], o)
    BY <1>3 DEF ApprovalReturns
  <2>3. o \in StageOutcomes
    BY AfterApprovalOutcome
  <2> QED
    BY <2>1, <2>2, <2>3, ConcludeType
<1>4. ASSUME NEW c \in Calls, NEW v \in Verdicts, AnomalyReturns(c, v)
      PROVE  TypeOK'
  <2>1. /\ call' \in [Calls -> CallStates]
        /\ \A d \in Calls : call'[d].phase = "approval" =>
             call'[d].tool \in Tools /\ call'[d].id \in Ids
    <3>0. call[c] \in CallStates
      BY DEF TypeOK
    <3>1. [call[c] EXCEPT !.phase = "done"] \in CallStates
          /\ [call[c] EXCEPT !.phase = "done"].phase = "done"
      BY <3>0 DEF CallStates
    <3>2. call' = [call EXCEPT ![c] = [call[c] EXCEPT !.phase = "done"]]
      BY <1>4 DEF AnomalyReturns
    <3> QED
      BY <3>1, <3>2 DEF TypeOK
  <2>2. /\ suspended' \in BOOLEAN /\ risk_score' \in Int
        /\ risk_events' \in Seq([event : RiskEvents, call : Calls])
        /\ audit' \in Seq(AuditRecords)
    <3>1. CASE v = "none"
      BY <1>4, <3>1 DEF AnomalyReturns, TypeOK
    <3>2. CASE v # "none"
      <4>1. v \in RiskEvents /\ Record(c, v)
        BY <1>4, <3>2, ConstantsAssumption DEF AnomalyReturns, Verdicts, RiskEvents
      <4>2. /\ risk_score' \in Int /\ suspended' \in BOOLEAN
            /\ risk_events' \in Seq([event : RiskEvents, call : Calls])
            /\ risk_score + Weights[v] \in Int
        BY <4>1, RecordType
      <4>3. ScoredEvent("anomaly_detected", c, risk_score + Weights[v]) \in AuditRecords
        BY <4>2, RecordTypes DEF EventNames
      <4>4. SuspendedRecord(c, v) \in Seq(AuditRecords) /\ audit \in Seq(AuditRecords)
        BY <4>1, SuspendedRecordType DEF TypeOK
      <4>5. audit' = audit \o
               <<ScoredEvent("anomaly_detected", c, risk_score + Weights[v])>> \o
               SuspendedRecord(c, v)
        BY <1>4, <3>2 DEF AnomalyReturns
      <4> QED
        BY <4>2, <4>3, <4>4, <4>5
    <3> QED
      BY <3>1, <3>2
  <2> QED
    BY <1>4, <2>1, <2>2 DEF AnomalyReturns, TypeOK
<1>5. ASSUME NEW c \in Calls, NEW e \in BOOLEAN, UpstreamResponse(c, e)
      PROVE  TypeOK'
  <2>1. "raw" \in Forms /\ "notice" \in Forms /\ "filtered" \in Forms
    BY DEF Forms
  <2>2. /\ replies' \subseteq [call : Calls, form : Forms, error : BOOLEAN]
        /\ pending' \in [Ids -> PendingCalls \cup {NoPending}]
        /\ pending_tools_list' \subseteq Ids
        /\ scanning' \in [call : Calls, pending : Calls] \cup {NotScanning}
        /\ audit' \in Seq(AuditRecords)
    <3> DEFINE i == call[c].id
               p == pending[i]
    <3>1. CASE /\ p # NoPending
               /\ pending' = [pending EXCEPT ![i] = NoPending]
               /\ DeliverToolResult(c, p, e)
               /\ UNCHANGED pending_tools_list
      <4>1. i \in Ids /\ p \in PendingCalls
        BY <1>5, <3>1 DEF TypeOK, UpstreamResponse, CallStates
      <4>2. p.call \in Calls
        BY <4>1 DEF PendingCalls
      <4>3. pending' \in [Ids -> PendingCalls \cup {NoPending}]
        BY <3>1, <4>1 DEF TypeOK
      <4>4. /\ Event("tool_result", p.call) \in AuditRecords
            /\ Event("tool_result_quarantined", p.call) \in AuditRecords
        BY <4>2, RecordTypes DEF EventNames
      <4>5. /\ audit' = audit \/ audit' = Append(audit, Event("tool_result", p.call))
               \/ audit' = Append(audit, Event("tool_result_quarantined", p.call))
            /\ scanning' = scanning \/ scanning' = [call |-> c, pending |-> p.call]
            /\ \/ replies' = replies
               \/ replies' = replies \cup {[call |-> c, form |-> "raw", error |-> e]}
               \/ replies' = replies \cup {[call |-> c, form |-> "notice", error |-> e]}
        BY <3>1 DEF DeliverToolResult, Deliver
      <4>6. replies' \subseteq [call : Calls, form : Forms, error : BOOLEAN]
        BY <2>1, <4>5, DeliverType DEF TypeOK
      <4>7. audit' \in Seq(AuditRecords)
        <5>1. audit \in Seq(AuditRecords)
          BY DEF TypeOK
        <5> HIDE DEF p
        <5> QED
          BY <4>4, <4>5, <5>1
      <4>8. scanning' \in [call : Calls, pending : Calls] \cup {NotScanning}
        BY <4>2, <4>5 DEF TypeOK
      <4> QED
        BY <3>1, <4>3, <4>6, <4>7, <4>8 DEF TypeOK
    <3>2. CASE /\ p = NoPending /\ i \in pending_tools_list
               /\ pending_tools_list' = pending_tools_list \ {i}
               /\ Deliver(c, IF e THEN "raw" ELSE "filtered", e)
               /\ audit' = IF e \/ HiddenTools = {} THEN audit
                           ELSE Append(audit, Event("tools_list_filtered", c))
               /\ UNCHANGED <<pending, scanning>>
      <4>1. replies' \subseteq [call : Calls, form : Forms, error : BOOLEAN]
        BY <2>1, <3>2, DeliverType DEF Deliver
      <4>2. audit' \in Seq(AuditRecords)
        BY <3>2, RecordTypes DEF EventNames, TypeOK
      <4> QED
        BY <3>2, <4>1, <4>2 DEF TypeOK
    <3>3. CASE /\ p = NoPending /\ i \notin pending_tools_list
               /\ Deliver(c, "raw", e)
               /\ UNCHANGED <<pending, pending_tools_list, scanning, audit>>
      BY <2>1, <3>3, DeliverType DEF Deliver, TypeOK
    <3> QED
      BY <1>5, <3>1, <3>2, <3>3 DEF UpstreamResponse
  <2> QED
    BY <1>5, <2>2 DEF UpstreamResponse, TypeOK
<1>6. ASSUME NEW c \in Calls, NEW m \in {ServerRequest, Opaque}, UpstreamSpeaks(c, m)
      PROVE  TypeOK'
  <2> DEFINE r == [NewCall EXCEPT !.tool = m]
  <2>1. r \in CallStates
    BY DEF NewCall, CallStates, Args
  <2>2. Settle(c, r, "done", "passthrough", "raw")
    BY <1>6 DEF UpstreamSpeaks
  <2> HIDE DEF r
  <2>3. /\ call' \in [Calls -> CallStates]
        /\ \A d \in Calls : call'[d].phase = "approval" =>
             call'[d].tool \in Tools /\ call'[d].id \in Ids
    BY <2>1, <2>2, SettleType
  <2>4. audit' \in Seq(AuditRecords)
    BY <1>6, RecordTypes DEF UpstreamSpeaks, EventNames, TypeOK
  <2>5. replies' \subseteq [call : Calls, form : Forms, error : BOOLEAN]
    BY <1>6, DeliverType DEF UpstreamSpeaks, Deliver, Forms
  <2> QED
    BY <1>6, <2>3, <2>4, <2>5 DEF UpstreamSpeaks, TypeOK, session
<1>7. ASSUME NEW res \in {"light", "heavy", "failed"}, RedactionReturns(res)
      PROVE  TypeOK'
  <2> DEFINE c == scanning.call
             p == scanning.pending
  <2>1. c \in Calls /\ p \in Calls
    BY <1>7 DEF RedactionReturns, TypeOK
  <2> HIDE DEF c, p
  <2>2. "scrubbed" \in Forms /\ "raw" \in Forms /\ "withheld" \in Forms
    BY DEF Forms
  <2>3. \E form \in Forms : replies' = replies \cup {[call |-> c, form |-> form, error |-> FALSE]}
    BY <1>7, <2>2 DEF RedactionReturns, Deliver, c
  <2>4. replies' \subseteq [call : Calls, form : Forms, error : BOOLEAN]
    BY <2>1, <2>3, DeliverType
  <2>5. /\ suspended' \in BOOLEAN /\ risk_score' \in Int
        /\ risk_events' \in Seq([event : RiskEvents, call : Calls])
        /\ audit' \in Seq(AuditRecords)
    <3>1. CASE res # "heavy"
      <4>1. UNCHANGED <<risk_score, risk_events, suspended>>
        BY <1>7, <3>1 DEF RedactionReturns
      <4>2. \E name \in EventNames : audit' = Append(audit, Event(name, p))
        BY <1>7, <3>1 DEF RedactionReturns, ScanFailure, EventNames, p
      <4> QED
        BY <2>1, <4>1, <4>2, RecordTypes DEF TypeOK
    <3>2. CASE res = "heavy"
      <4>1. "heavy_redaction" \in RiskEvents /\ Record(p, "heavy_redaction")
        BY <1>7, <3>2 DEF RedactionReturns, RiskEvents, p
      <4>2. /\ risk_score' \in Int /\ suspended' \in BOOLEAN
            /\ risk_events' \in Seq([event : RiskEvents, call : Calls])
            /\ risk_score + Weights["heavy_redaction"] \in Int
        BY <2>1, <4>1, RecordType
      <4>3. ScoredEvent("tool_result_redacted", p, risk_score + Weights["heavy_redaction"])
              \in AuditRecords
        BY <2>1, <4>2, RecordTypes DEF EventNames
      <4>4. SuspendedRecord(p, "heavy_redaction") \in Seq(AuditRecords)
            /\ audit \in Seq(AuditRecords)
        BY <2>1, <4>1, SuspendedRecordType DEF TypeOK
      <4>5. audit' = audit \o SuspendedRecord(p, "heavy_redaction") \o
             <<ScoredEvent("tool_result_redacted", p, risk_score + Weights["heavy_redaction"])>>
        BY <1>7, <3>2 DEF RedactionReturns, p
      <4> QED
        BY <4>2, <4>3, <4>4, <4>5
    <3> QED
      BY <3>1, <3>2
  <2> QED
    BY <1>7, <2>4, <2>5 DEF RedactionReturns, TypeOK
<1>8. CASE UNCHANGED vars
  BY <1>8 DEF TypeOK, vars, session
<1> QED
  BY <1>1, <1>2, <1>3, <1>4, <1>5, <1>6, <1>7, <1>8 DEF Next

\* Every reachable state is well typed, for every policy, posture and set of
\* clients; the debounce counter never reaches the debounce.
THEOREM TypeCorrect == Spec => []TypeOK
<1>1. Init => TypeOK
  <2> SUFFICES ASSUME Init PROVE TypeOK
    OBVIOUS
  <2>1. NewCall \in CallStates /\ NewCall.phase = "new"
    BY DEF NewCall, CallStates, Args
  <2>2. /\ call \in [Calls -> CallStates]
        /\ \A c \in Calls : call[c].phase = "approval" =>
             call[c].tool \in Tools /\ call[c].id \in Ids
    BY <2>1 DEF Init
  <2>3. since_last \in 0..(Debounce - 1)
    BY ConstantsAssumption DEF Init
  <2>4. /\ history \in Seq(Tools) /\ sent \in Seq(Calls) /\ audit \in Seq(AuditRecords)
        /\ risk_events \in Seq([event : RiskEvents, call : Calls])
    BY DEF Init
  <2>5. suspended \in BOOLEAN
    BY Zenon DEF Init
  <2>6. /\ risk_score \in Int /\ taint_origin \in Tools \cup {NoTool}
        /\ scanning \in [call : Calls, pending : Calls] \cup {NotScanning}
    BY DEF Init
  <2>7. pending \in [Ids -> PendingCalls \cup {NoPending}]
    <3>1. pending = [i \in Ids |-> NoPending]
      BY DEF Init
    <3> QED
      BY <3>1
  <2>8. pending_tools_list = {} /\ answered = {} /\ replies = {}
    BY DEF Init
  <2>9. /\ pending_tools_list \subseteq Ids /\ answered \subseteq Calls
        /\ replies \subseteq [call : Calls, form : Forms, error : BOOLEAN]
    BY <2>8
  <2> QED
    BY <2>2, <2>3, <2>4, <2>5, <2>6, <2>7, <2>9 DEF TypeOK
<1>2. TypeOK /\ [Next]_vars => TypeOK'
  BY TypeStep
<1> QED
  BY <1>1, <1>2, PTL DEF Spec

---------------------------------------------------------------------------
(* A refusal is final. *)

SentStages == {"forwarded", "fail_open", "passthrough"}
RefusalStages == Stages \cup {"session_gate"}

\* The inductive strengthening of RefusedNeverSent: a call is decided once, and
\* the stage that decided it says on which side of the gateway it may be.
DecidedOnce ==
  /\ \A c \in Calls : call[c].phase \in {"new", "approval"} => call[c].stage = "undecided"
  /\ \A k \in DOMAIN sent : call[sent[k]].stage \in SentStages
  /\ \A r \in replies : r.form = "denied" => call[r.call].stage \in RefusalStages

\* A step that sends call c, decided just now, and answers nobody.
LEMMA DecideSend ==
  ASSUME TypeOK, DecidedOnce, NEW c \in Calls, NEW r, NEW phase \in {"observing", "done"},
         NEW stage \in SentStages, NEW out, call[c].stage = "undecided",
         Settle(c, r, phase, stage, out), sent' = Append(sent, c), replies' = replies
  PROVE  DecidedOnce'
<1>1. call' = [call EXCEPT ![c] = Settled(r, phase, stage, out)]
  BY DEF Settle
<1>2. call'[c].stage = stage /\ call'[c].phase = phase
  BY <1>1 DEF Settled, TypeOK
<1>3. \A d \in Calls \ {c} : call'[d] = call[d]
  BY <1>1 DEF TypeOK
<1>4. sent \in Seq(Calls) /\ \A q \in replies : q.call \in Calls
  BY DEF TypeOK
<1>5. \A d \in Calls : call'[d].phase \in {"new", "approval"} => call'[d].stage = "undecided"
  BY <1>2, <1>3 DEF DecidedOnce
<1>6. \A k \in DOMAIN sent' : call'[sent'[k]].stage \in SentStages
  BY <1>2, <1>3, <1>4 DEF DecidedOnce
<1>7. \A q \in replies' : q.form = "denied" => call'[q.call].stage \in RefusalStages
  <2>1. "undecided" \notin RefusalStages
    BY DEF RefusalStages, Stages
  <2> QED
    BY <1>3, <1>4, <2>1 DEF DecidedOnce
<1> QED
  BY <1>5, <1>6, <1>7 DEF DecidedOnce

\* A step that changes no decision and denies nothing.
LEMMA KeepDecisions ==
  ASSUME TypeOK, DecidedOnce, sent' = sent,
         \A d \in Calls : call'[d].stage = call[d].stage /\
           (call'[d].phase \in {"new", "approval"} => call[d].phase \in {"new", "approval"}),
         \A q \in replies' : q.form = "denied" => q \in replies
  PROVE  DecidedOnce'
<1>1. sent \in Seq(Calls) /\ \A q \in replies : q.call \in Calls
  BY DEF TypeOK
<1> QED
  BY <1>1 DEF DecidedOnce

LEMMA ConcludeDecidesOnce ==
  ASSUME TypeOK, DecidedOnce, NEW c \in Calls, call[c].stage = "undecided",
         NEW r \in CallStates, NEW o \in StageOutcomes, Conclude(c, r, o)
  PROVE  DecidedOnce'
<1>1. CASE Refuse(c, r, o)
  <2>1. call' = [call EXCEPT ![c] = Settled(r, Phase(AnomalyOn), o.stage, "raw")]
    BY <1>1 DEF Refuse, Settle
  <2>2. /\ call'[c].stage = o.stage /\ call'[c].phase \in {"observing", "done"}
        /\ \A d \in Calls \ {c} : call'[d] = call[d]
    BY <2>1 DEF Settled, Phase, TypeOK
  <2>3. o.stage \in RefusalStages
    BY <1>1 DEF Refuse, StageOutcomes, Outcomes, RefusalStages
  <2>4. \A k \in DOMAIN sent : sent[k] \in Calls /\ sent[k] # c
    BY DEF DecidedOnce, SentStages, TypeOK
  <2>5. sent' = sent /\ replies' = replies \cup {[call |-> c, form |-> "denied", error |-> TRUE]}
    BY <1>1 DEF Refuse
  <2>6. \A q \in replies' : q.call \in Calls /\ (q.form = "denied" /\ q.call # c => q \in replies)
    BY <2>5 DEF TypeOK
  <2>7. \A d \in Calls : call'[d].phase \in {"new", "approval"} => call'[d].stage = "undecided"
    BY <2>2 DEF DecidedOnce
  <2>8. \A k \in DOMAIN sent' : call'[sent'[k]].stage \in SentStages
    BY <2>2, <2>4, <2>5 DEF DecidedOnce
  <2>9. \A q \in replies' : q.form = "denied" => call'[q.call].stage \in RefusalStages
    BY <2>2, <2>3, <2>6 DEF DecidedOnce
  <2> QED
    BY <2>7, <2>8, <2>9 DEF DecidedOnce
<1>2. CASE ForwardUnchecked(c, r, o)
  BY <1>2, DecideSend DEF ForwardUnchecked, SentStages
<1>3. CASE Forward(c, r, o)
  <2>1. Phase(Assessed(FALSE)) \in {"observing", "done"} /\ "forwarded" \in SentStages
    BY DEF Phase, SentStages
  <2>2. /\ Settle(c, r, Phase(Assessed(FALSE)), "forwarded", o.out)
        /\ sent' = Append(sent, c) /\ replies' = replies
    BY <1>3 DEF Forward
  <2> QED
    BY <2>1, <2>2, DecideSend
<1> QED
  BY <1>1, <1>2, <1>3 DEF Conclude

LEMMA DecidedOnceStep ==
  ASSUME TypeOK, DecidedOnce, [Next]_vars
  PROVE  DecidedOnce'
<1>1. ASSUME NEW c \in Calls, NEW t \in Tools, NEW i \in Ids, NEW a \in ArgKinds,
             NEW x \in Crashes, ToolCall(c, Request(t, i, a, x))
      PROVE  DecidedOnce'
  <2> DEFINE r == Request(t, i, a, x)
  <2>1. r \in CallStates
    BY RequestType, ConstantsAssumption DEF Crashes
  <2> HIDE DEF r
  <2>2. PICK o \in Pipeline(r) : AwaitApproval(c, r, o) \/ Conclude(c, r, o)
    BY <1>1 DEF ToolCall, r
  <2>3. call[c].stage = "undecided" /\ call[c].phase = "new"
    BY <1>1 DEF ToolCall, MaySend, DecidedOnce
  <2>4. CASE AwaitApproval(c, r, o)
    <3>1. call' = [call EXCEPT ![c] = Settled(r, "approval", "undecided", "raw")]
      BY <2>4 DEF AwaitApproval, Settle
    <3>2. \A d \in Calls : call'[d].stage = call[d].stage /\
            (call'[d].phase \in {"new", "approval"} => call[d].phase \in {"new", "approval"})
      BY <2>3, <3>1 DEF Settled, TypeOK
    <3> QED
      BY <2>4, <3>2, KeepDecisions DEF AwaitApproval
  <2>5. CASE Conclude(c, r, o)
    BY <2>1, <2>3, <2>5, PipelineOutcome, ConcludeDecidesOnce
  <2> QED
    BY <2>2, <2>4, <2>5
<1>2. ASSUME NEW c \in Calls, NEW m \in Methods, NEW i \in Ids \cup {NoId}, Passthrough(c, m, i)
      PROVE  DecidedOnce'
  <2>1. call[c].stage = "undecided"
    BY <1>2 DEF Passthrough, MaySend, DecidedOnce
  <2> QED
    BY <1>2, <2>1, DecideSend DEF Passthrough, SentStages
<1>3. ASSUME NEW c \in Calls, NEW a \in Answers, ApprovalReturns(c, a)
      PROVE  DecidedOnce'
  <2> DEFINE approved == a = "approved" \/ (a = "unavailable" /\ "approval" \in OpenPosture)
  <2>1. PICK o \in AfterApproval(call[c], approved) : Conclude(c, call[c], o)
    BY <1>3 DEF ApprovalReturns
  <2>2. call[c].stage = "undecided" /\ call[c] \in CallStates
    BY <1>3 DEF ApprovalReturns, DecidedOnce, TypeOK
  <2> QED
    BY <2>1, <2>2, AfterApprovalOutcome, ConcludeDecidesOnce
<1>4. ASSUME NEW c \in Calls, NEW v \in Verdicts, AnomalyReturns(c, v)
      PROVE  DecidedOnce'
  <2>1. /\ call' = [call EXCEPT ![c] = [call[c] EXCEPT !.phase = "done"]]
        /\ sent' = sent /\ replies' = replies
    BY <1>4 DEF AnomalyReturns
  <2>2. \A d \in Calls : call'[d].stage = call[d].stage /\
          (call'[d].phase \in {"new", "approval"} => call[d].phase \in {"new", "approval"})
    BY <2>1 DEF TypeOK, CallStates
  <2> QED
    BY <2>1, <2>2, KeepDecisions
<1>5. ASSUME NEW c \in Calls, NEW e \in BOOLEAN, UpstreamResponse(c, e)
      PROVE  DecidedOnce'
  <2>1. call' = call /\ sent' = sent
    BY <1>5 DEF UpstreamResponse
  <2>2. \A q \in replies' : q.form = "denied" => q \in replies
    BY <1>5 DEF UpstreamResponse, DeliverToolResult, Deliver
  <2> QED
    BY <2>1, <2>2, KeepDecisions
<1>6. ASSUME NEW c \in Calls, NEW m \in {ServerRequest, Opaque}, UpstreamSpeaks(c, m)
      PROVE  DecidedOnce'
  <2> DEFINE r == [NewCall EXCEPT !.tool = m]
  <2>1. call' = [call EXCEPT ![c] = Settled(r, "done", "passthrough", "raw")]
    BY <1>6 DEF UpstreamSpeaks, Settle
  <2> HIDE DEF r
  <2>2. /\ call'[c].phase = "done" /\ call'[c].stage = "passthrough"
        /\ \A d \in Calls \ {c} : call'[d] = call[d]
    BY <2>1 DEF Settled, TypeOK
  <2>3. call[c].stage = "undecided"
    BY <1>6 DEF UpstreamSpeaks, DecidedOnce
  <2>4. sent' = sent /\ \A q \in replies' : q.form = "denied" => q \in replies
    BY <1>6 DEF UpstreamSpeaks, Deliver
  <2>5. (\A k \in DOMAIN sent : sent[k] \in Calls) /\ (\A q \in replies : q.call \in Calls)
    BY DEF TypeOK
  <2>6. \A d \in Calls : call'[d].phase \in {"new", "approval"} => call'[d].stage = "undecided"
    BY <2>2 DEF DecidedOnce
  <2>7. \A k \in DOMAIN sent' : call'[sent'[k]].stage \in SentStages
    BY <2>2, <2>3, <2>4, <2>5 DEF DecidedOnce, SentStages
  <2>8. \A q \in replies' : q.form = "denied" => call'[q.call].stage \in RefusalStages
    BY <2>2, <2>3, <2>4, <2>5 DEF DecidedOnce, RefusalStages, Stages
  <2> QED
    BY <2>6, <2>7, <2>8 DEF DecidedOnce
<1>7. ASSUME NEW res \in {"light", "heavy", "failed"}, RedactionReturns(res)
      PROVE  DecidedOnce'
  <2>1. call' = call /\ sent' = sent
    BY <1>7 DEF RedactionReturns
  <2>2. \A q \in replies' : q.form = "denied" => q \in replies
    BY <1>7 DEF RedactionReturns, Deliver
  <2> QED
    BY <2>1, <2>2, KeepDecisions
<1>8. CASE UNCHANGED vars
  BY <1>8 DEF DecidedOnce, vars
<1> QED
  BY <1>1, <1>2, <1>3, <1>4, <1>5, <1>6, <1>7, <1>8 DEF Next

\* What a denial tells the client stays true under every interleaving of
\* approvals, concurrent requests and postures: the refused call is never sent.
THEOREM RefusalIsFinal == Spec => []RefusedNeverSent
<1>1. Init => DecidedOnce
  BY DEF Init, DecidedOnce, NewCall
<1>2. TypeOK /\ DecidedOnce /\ [Next]_vars => DecidedOnce'
  BY DecidedOnceStep
<1>3. TypeOK /\ DecidedOnce => RefusedNeverSent
  BY DEF TypeOK, DecidedOnce, RefusedNeverSent, Range, SentStages, RefusalStages, Stages
<1> QED
  BY <1>1, <1>2, <1>3, TypeCorrect, PTL DEF Spec

---------------------------------------------------------------------------
(* Score, suspension and the trail agree. *)

Quiet(trail) == \A k \in DOMAIN trail : trail[k].event # "session_suspended"

LEMMA QuietConcat ==
  ASSUME NEW s \in Seq(AuditRecords), NEW t \in Seq(AuditRecords), Quiet(t)
  PROVE  s \o t \in Seq(AuditRecords) /\ SuspensionsIn(s \o t) = SuspensionsIn(s)
<1>1. s \o t \in Seq(AuditRecords) /\ Len(s \o t) = Len(s) + Len(t)
  OBVIOUS
<1>2. \A k \in 1..Len(s) : (s \o t)[k] = s[k]
  OBVIOUS
<1>3. \A k \in DOMAIN (s \o t) \ DOMAIN s : (s \o t)[k] = t[k - Len(s)] /\ k - Len(s) \in DOMAIN t
  BY <1>1
<1> QED
  BY <1>1, <1>2, <1>3 DEF SuspensionsIn, Quiet

LEMMA LoudConcat ==
  ASSUME NEW s \in Seq(AuditRecords), NEW e \in AuditRecords, e.event = "session_suspended"
  PROVE  /\ s \o <<e>> \in Seq(AuditRecords)
         /\ SuspensionsIn(s \o <<e>>) = SuspensionsIn(s) \cup {Len(s) + 1}
<1>1. s \o <<e>> \in Seq(AuditRecords) /\ Len(s \o <<e>>) = Len(s) + 1
  OBVIOUS
<1>2. \A k \in 1..Len(s) : (s \o <<e>>)[k] = s[k]
  OBVIOUS
<1>3. (s \o <<e>>)[Len(s) + 1] = e
  OBVIOUS
<1> QED
  BY <1>1, <1>2, <1>3 DEF SuspensionsIn

\* A single record other than session_suspended is a quiet trail.
LEMMA QuietEvent ==
  ASSUME NEW c \in Calls, NEW name \in EventNames \ {"session_suspended"}, NEW score \in Int
  PROVE  /\ Quiet(<<Event(name, c)>>) /\ <<Event(name, c)>> \in Seq(AuditRecords)
         /\ Quiet(<<ScoredEvent(name, c, score)>>)
         /\ <<ScoredEvent(name, c, score)>> \in Seq(AuditRecords)
<1>1. Event(name, c).event = name /\ ScoredEvent(name, c, score).event = name
  BY DEF Event, ScoredEvent
<1>2. Event(name, c) \in AuditRecords /\ ScoredEvent(name, c, score) \in AuditRecords
  BY RecordTypes
<1> QED
  BY <1>1, <1>2 DEF Quiet

LEMMA QuietApproval ==
  ASSUME NEW c \in Calls, NEW o
  PROVE  Quiet(ApprovalRecord(c, o)) /\ ApprovalRecord(c, o) \in Seq(AuditRecords)
<1>1. Quiet(<<Event("approval_requested", c)>>)
  <2>1. 0 \in Int /\ "approval_requested" \in EventNames \ {"session_suspended"}
    BY DEF EventNames
  <2> QED
    BY <2>1, QuietEvent
<1>2. Quiet(<<>>)
  BY DEF Quiet
<1> QED
  BY <1>1, <1>2, ApprovalRecordType DEF ApprovalRecord

\* A step that scores nothing and records no suspension.
LEMMA QuietStep ==
  ASSUME TypeOK, SuspensionAccounted, SuspensionsIn(audit') = SuspensionsIn(audit),
         UNCHANGED <<suspended, risk_score, risk_events>>
  PROVE  SuspensionAccounted'
<1>1. SuspensionRecords' = SuspensionRecords
  BY DEF SuspensionRecords
<1> QED
  BY <1>1 DEF SuspensionAccounted

\* A step that scores one event and records the transition it makes, if any.
LEMMA ScoringStep ==
  ASSUME TypeOK, SuspensionAccounted, NEW c \in Calls, NEW event \in RiskEvents,
         Record(c, event),
         NEW k, SuspensionsIn(audit') =
           IF SuspendedNow(event) THEN SuspensionsIn(audit) \cup {k} ELSE SuspensionsIn(audit)
  PROVE  SuspensionAccounted'
<1>1. SuspensionRecords' = IF SuspendedNow(event) THEN SuspensionRecords \cup {k}
                           ELSE SuspensionRecords
  BY DEF SuspensionRecords
<1>2. /\ risk_score + Weights[event] \in Int /\ SuspendAt \in Int
      /\ risk_score' = risk_score + Weights[event]
      /\ suspended' <=> (suspended \/ risk_score + Weights[event] >= SuspendAt)
  <2>1. /\ risk_score + Weights[event] \in Int /\ SuspendAt \in Int
        /\ risk_score' = risk_score + Weights[event]
    BY ConstantsAssumption DEF TypeOK, Record
  <2>2. suspended' <=> (suspended \/ risk_score + Weights[event] >= SuspendAt)
    BY Zenon DEF Record
  <2> QED
    BY <2>1, <2>2
<1>3. CASE suspended
  <2>1. SuspensionRecords' = SuspensionRecords /\ suspended'
    BY <1>1, <1>2, <1>3 DEF SuspendedNow
  <2> QED
    BY <1>3, <2>1 DEF SuspensionAccounted
<1>4. CASE ~suspended /\ SuspendedNow(event)
  <2>1. SuspensionRecords' = {k} /\ suspended'
    BY <1>1, <1>2, <1>4 DEF SuspendedNow, SuspensionAccounted
  <2> QED
    BY <2>1 DEF SuspensionAccounted
<1>5. CASE ~suspended /\ ~SuspendedNow(event)
  <2>1. SuspensionRecords' = {} /\ ~suspended'
    BY <1>1, <1>2, <1>5 DEF SuspendedNow, SuspensionAccounted
  <2>2. ~(risk_score' >= SuspendAt)
    BY <1>2, <2>1
  <2> QED
    BY <2>1, <2>2 DEF SuspensionAccounted
<1> QED
  BY <1>3, <1>4, <1>5

\* The record of the transition, appended to a trail.
LEMMA SuspendedConcat ==
  ASSUME NEW s \in Seq(AuditRecords), NEW c \in Calls, NEW event \in RiskEvents,
         risk_score \in Int
  PROVE  /\ s \o SuspendedRecord(c, event) \in Seq(AuditRecords)
         /\ SuspensionsIn(s \o SuspendedRecord(c, event)) =
              IF SuspendedNow(event) THEN SuspensionsIn(s) \cup {Len(s) + 1}
              ELSE SuspensionsIn(s)
<1> DEFINE e == ScoredEvent("session_suspended", c, risk_score + Weights[event])
<1>1. e.event = "session_suspended"
  BY DEF ScoredEvent
<1>2. e \in AuditRecords
  <2>1. risk_score + Weights[event] \in Int
    BY ConstantsAssumption
  <2> QED
    BY <2>1, RecordTypes DEF EventNames
<1>3. SuspendedRecord(c, event) = IF SuspendedNow(event) THEN <<e>> ELSE <<>>
  BY DEF SuspendedRecord
<1> HIDE DEF e
<1>4. CASE SuspendedNow(event)
  BY <1>1, <1>2, <1>3, <1>4, LoudConcat
<1>5. CASE ~SuspendedNow(event)
  <2>1. Quiet(<<>>)
    BY DEF Quiet
  <2> QED
    BY <1>3, <1>5, <2>1, QuietConcat
<1> QED
  BY <1>4, <1>5

LEMMA ConcludeAccounts ==
  ASSUME TypeOK, SuspensionAccounted, NEW c \in Calls, NEW r, NEW o \in StageOutcomes,
         Conclude(c, r, o)
  PROVE  SuspensionAccounted'
<1> DEFINE s == audit \o ApprovalRecord(c, o)
<1>1. s \in Seq(AuditRecords) /\ SuspensionsIn(s) = SuspensionsIn(audit)
  BY QuietApproval, QuietConcat DEF TypeOK
<1>2. risk_score \in Int /\ o.risk \in RiskEvents \cup {"none"}
  BY DEF TypeOK, StageOutcomes, Outcomes
<1> HIDE DEF s
<1>3. CASE Refuse(c, r, o) /\ o.risk = "none"
  <2> DEFINE e == IF o.stage = "session_gate"
                  THEN ScoredEvent("denied_session_suspended", c, risk_score)
                  ELSE Event("tool_call_blocked", c)
  <2>1. audit' = s \o <<e>> /\ UNCHANGED <<suspended, risk_score, risk_events>>
    BY <1>3 DEF Refuse, s
  <2>2. {"denied_session_suspended", "tool_call_blocked"} \subseteq
          EventNames \ {"session_suspended"}
    BY DEF EventNames
  <2>3. Quiet(<<e>>) /\ <<e>> \in Seq(AuditRecords)
    BY <1>2, <2>2, QuietEvent
  <2> HIDE DEF e
  <2>4. SuspensionsIn(audit') = SuspensionsIn(audit)
    BY <1>1, <2>1, <2>3, QuietConcat
  <2> QED
    BY <2>1, <2>4, QuietStep
<1>4. CASE Refuse(c, r, o) /\ o.risk # "none"
  <2> DEFINE e == ScoredEvent("tool_call_blocked", c, risk_score + Weights[o.risk])
             t == s \o <<e>>
  <2>1. o.risk \in RiskEvents /\ Record(c, o.risk) /\ audit' = t \o SuspendedRecord(c, o.risk)
    BY <1>2, <1>4 DEF Refuse, s
  <2>2. risk_score + Weights[o.risk] \in Int
    BY <1>2, <2>1, ConstantsAssumption
  <2>3. "tool_call_blocked" \in EventNames \ {"session_suspended"}
    BY DEF EventNames
  <2>4. Quiet(<<e>>) /\ <<e>> \in Seq(AuditRecords)
    BY <2>2, <2>3, QuietEvent
  <2> HIDE DEF e
  <2>5. t \in Seq(AuditRecords) /\ SuspensionsIn(t) = SuspensionsIn(audit)
    BY <1>1, <2>4, QuietConcat
  <2> HIDE DEF t
  <2>6. SuspensionsIn(audit') =
          IF SuspendedNow(o.risk) THEN SuspensionsIn(audit) \cup {Len(t) + 1}
          ELSE SuspensionsIn(audit)
    BY <1>2, <2>1, <2>5, SuspendedConcat
  <2> QED
    BY <2>1, <2>6, ScoringStep
<1>5. CASE ForwardUnchecked(c, r, o)
  <2>1. 0 \in Int /\ "stage_error_fail_open" \in EventNames \ {"session_suspended"}
    BY DEF EventNames
  <2>2. audit' = s \o <<Event("stage_error_fail_open", c)>>
        /\ UNCHANGED <<suspended, risk_score, risk_events>>
    BY <1>5 DEF ForwardUnchecked, s
  <2>3. SuspensionsIn(audit') = SuspensionsIn(audit)
    BY <1>1, <2>1, <2>2, QuietEvent, QuietConcat
  <2> QED
    BY <2>2, <2>3, QuietStep
<1>6. CASE Forward(c, r, o)
  <2> DEFINE m == IF r.tool \in TaintSources /\ ~tainted
                  THEN <<Event("session_tainted", c)>> ELSE <<>>
             t == s \o m
  <2>1. /\ 0 \in Int
        /\ {"session_tainted", "tool_call_allowed"} \subseteq EventNames \ {"session_suspended"}
    BY DEF EventNames
  <2>2. Quiet(m) /\ m \in Seq(AuditRecords)
    <3>1. Quiet(<<>>) /\ <<>> \in Seq(AuditRecords)
      BY DEF Quiet
    <3>2. /\ Quiet(<<Event("session_tainted", c)>>)
          /\ <<Event("session_tainted", c)>> \in Seq(AuditRecords)
      BY <2>1, QuietEvent
    <3> QED
      BY <3>1, <3>2
  <2>3. audit' = t \o <<Event("tool_call_allowed", c)>>
        /\ UNCHANGED <<suspended, risk_score, risk_events>>
    BY <1>6 DEF Forward, s
  <2> HIDE DEF m
  <2>4. t \in Seq(AuditRecords) /\ SuspensionsIn(t) = SuspensionsIn(audit)
    BY <1>1, <2>2, QuietConcat
  <2> HIDE DEF t
  <2>5. SuspensionsIn(audit') = SuspensionsIn(audit)
    BY <2>1, <2>3, <2>4, QuietEvent, QuietConcat
  <2> QED
    BY <2>3, <2>5, QuietStep
<1> QED
  BY <1>3, <1>4, <1>5, <1>6 DEF Conclude

\* A step that appends one unscored record other than session_suspended.
LEMMA AppendAccounts ==
  ASSUME TypeOK, SuspensionAccounted, UNCHANGED <<suspended, risk_score, risk_events>>,
         NEW c \in Calls, NEW name \in EventNames \ {"session_suspended"},
         audit' = audit \/ audit' = Append(audit, Event(name, c))
  PROVE  SuspensionAccounted'
<1>1. audit \in Seq(AuditRecords) /\ Append(audit, Event(name, c)) = audit \o <<Event(name, c)>>
  <2>1. Event(name, c) \in AuditRecords
    BY RecordTypes
  <2> QED
    BY <2>1 DEF TypeOK
<1>2. 0 \in Int
  OBVIOUS
<1>3. SuspensionsIn(audit') = SuspensionsIn(audit)
  BY <1>1, <1>2, QuietEvent, QuietConcat
<1> QED
  BY <1>3, QuietStep

LEMMA AccountedStep ==
  ASSUME TypeOK, SuspensionAccounted, [Next]_vars
  PROVE  SuspensionAccounted'
<1>1. ASSUME NEW c \in Calls, NEW t \in Tools, NEW i \in Ids, NEW a \in ArgKinds,
             NEW x \in Crashes, ToolCall(c, Request(t, i, a, x))
      PROVE  SuspensionAccounted'
  <2> DEFINE r == Request(t, i, a, x)
  <2>1. PICK o \in Pipeline(r) : AwaitApproval(c, r, o) \/ Conclude(c, r, o)
    BY <1>1 DEF ToolCall
  <2> HIDE DEF r
  <2>2. CASE AwaitApproval(c, r, o)
    BY <2>2, QuietStep DEF AwaitApproval, session
  <2>3. CASE Conclude(c, r, o)
    BY <2>3, PipelineOutcome, ConcludeAccounts
  <2> QED
    BY <2>1, <2>2, <2>3
<1>2. ASSUME NEW c \in Calls, NEW m \in Methods, NEW i \in Ids \cup {NoId}, Passthrough(c, m, i)
      PROVE  SuspensionAccounted'
  <2>1. \E name \in EventNames \ {"session_suspended"} : audit' = Append(audit, Event(name, c))
    BY <1>2 DEF Passthrough, EventNames
  <2>2. UNCHANGED <<suspended, risk_score, risk_events>>
    BY <1>2 DEF Passthrough, session
  <2> QED
    BY <2>1, <2>2, AppendAccounts
<1>3. ASSUME NEW c \in Calls, NEW a \in Answers, ApprovalReturns(c, a)
      PROVE  SuspensionAccounted'
  <2> DEFINE approved == a = "approved" \/ (a = "unavailable" /\ "approval" \in OpenPosture)
  <2>1. PICK o \in AfterApproval(call[c], approved) : Conclude(c, call[c], o)
    BY <1>3 DEF ApprovalReturns
  <2> QED
    BY <2>1, AfterApprovalOutcome, ConcludeAccounts
<1>4. ASSUME NEW c \in Calls, NEW v \in Verdicts, AnomalyReturns(c, v)
      PROVE  SuspensionAccounted'
  <2>1. CASE v = "none"
    BY <1>4, <2>1, QuietStep DEF AnomalyReturns
  <2>2. CASE v # "none"
    <3> DEFINE e == ScoredEvent("anomaly_detected", c, risk_score + Weights[v])
               t == audit \o <<e>>
    <3>1. v \in RiskEvents
      BY <2>2, ConstantsAssumption DEF Verdicts, RiskEvents
    <3>2. Record(c, v) /\ audit' = t \o SuspendedRecord(c, v)
      BY <1>4, <2>2 DEF AnomalyReturns
    <3>3. /\ risk_score + Weights[v] \in Int /\ risk_score \in Int
          /\ "anomaly_detected" \in EventNames \ {"session_suspended"}
      BY <3>1, ConstantsAssumption DEF EventNames, TypeOK
    <3>4. Quiet(<<e>>) /\ <<e>> \in Seq(AuditRecords) /\ audit \in Seq(AuditRecords)
      BY <3>3, QuietEvent DEF TypeOK
    <3> HIDE DEF e
    <3>5. t \in Seq(AuditRecords) /\ SuspensionsIn(t) = SuspensionsIn(audit)
      BY <3>4, QuietConcat
    <3> HIDE DEF t
    <3>6. SuspensionsIn(audit') =
            IF SuspendedNow(v) THEN SuspensionsIn(audit) \cup {Len(t) + 1}
            ELSE SuspensionsIn(audit)
      BY <3>1, <3>2, <3>3, <3>5, SuspendedConcat
    <3> QED
      BY <3>1, <3>2, <3>6, ScoringStep
  <2> QED
    BY <2>1, <2>2
<1>5. ASSUME NEW c \in Calls, NEW e \in BOOLEAN, UpstreamResponse(c, e)
      PROVE  SuspensionAccounted'
  <2> DEFINE p == pending[call[c].id]
  <2>1. p \in PendingCalls \cup {NoPending}
    BY <1>5 DEF UpstreamResponse, TypeOK, CallStates
  <2>2. CASE p # NoPending
    <3>1. p.call \in Calls
      BY <2>1, <2>2 DEF PendingCalls
    <3>2. \E name \in EventNames \ {"session_suspended"} :
            audit' = audit \/ audit' = Append(audit, Event(name, p.call))
      BY <1>5, <2>2 DEF UpstreamResponse, DeliverToolResult, EventNames
    <3>3. UNCHANGED <<suspended, risk_score, risk_events>>
      BY <1>5 DEF UpstreamResponse
    <3> HIDE DEF p
    <3> QED
      BY <3>1, <3>2, <3>3, AppendAccounts
  <2>3. CASE p = NoPending
    <3>1. \E name \in EventNames \ {"session_suspended"} :
            audit' = audit \/ audit' = Append(audit, Event(name, c))
      BY <1>5, <2>3 DEF UpstreamResponse, EventNames
    <3>2. UNCHANGED <<suspended, risk_score, risk_events>>
      BY <1>5 DEF UpstreamResponse
    <3> HIDE DEF p
    <3> QED
      BY <3>1, <3>2, AppendAccounts
  <2> QED
    BY <2>2, <2>3
<1>6. ASSUME NEW c \in Calls, NEW m \in {ServerRequest, Opaque}, UpstreamSpeaks(c, m)
      PROVE  SuspensionAccounted'
  <2>1. \E name \in EventNames \ {"session_suspended"} : audit' = Append(audit, Event(name, c))
    BY <1>6 DEF UpstreamSpeaks, EventNames
  <2>2. UNCHANGED <<suspended, risk_score, risk_events>>
    BY <1>6 DEF UpstreamSpeaks, session
  <2> QED
    BY <2>1, <2>2, AppendAccounts
<1>7. ASSUME NEW res \in {"light", "heavy", "failed"}, RedactionReturns(res)
      PROVE  SuspensionAccounted'
  <2> DEFINE p == scanning.pending
  <2>1. p \in Calls
    BY <1>7 DEF RedactionReturns, TypeOK
  <2>2. CASE res # "heavy"
    <3>1. \E name \in EventNames \ {"session_suspended"} : audit' = Append(audit, Event(name, p))
      BY <1>7, <2>2 DEF RedactionReturns, ScanFailure, EventNames
    <3>2. UNCHANGED <<suspended, risk_score, risk_events>>
      BY <1>7, <2>2 DEF RedactionReturns
    <3> HIDE DEF p
    <3> QED
      BY <2>1, <3>1, <3>2, AppendAccounts
  <2>3. CASE res = "heavy"
    <3> DEFINE h == "heavy_redaction"
               e == ScoredEvent("tool_result_redacted", p, risk_score + Weights[h])
               t == audit \o SuspendedRecord(p, h)
    <3>1. Record(p, h) /\ audit' = t \o <<e>>
      BY <1>7, <2>3 DEF RedactionReturns
    <3>2. h \in RiskEvents
      BY DEF RiskEvents
    <3>3. /\ risk_score + Weights[h] \in Int /\ risk_score \in Int
          /\ "tool_result_redacted" \in EventNames \ {"session_suspended"}
      BY <3>2, ConstantsAssumption DEF EventNames, TypeOK
    <3>4. Quiet(<<e>>) /\ <<e>> \in Seq(AuditRecords) /\ audit \in Seq(AuditRecords)
      BY <2>1, <3>3, QuietEvent DEF TypeOK
    <3> HIDE DEF e, h, p
    <3>5. /\ t \in Seq(AuditRecords)
          /\ SuspensionsIn(t) = IF SuspendedNow(h) THEN SuspensionsIn(audit) \cup {Len(audit) + 1}
                                ELSE SuspensionsIn(audit)
      BY <2>1, <3>2, <3>3, <3>4, SuspendedConcat
    <3> HIDE DEF t
    <3>6. SuspensionsIn(audit') = SuspensionsIn(t)
      BY <3>1, <3>4, <3>5, QuietConcat
    <3> QED
      BY <2>1, <3>1, <3>2, <3>5, <3>6, ScoringStep
  <2> QED
    BY <2>2, <2>3
<1>8. CASE UNCHANGED vars
  BY <1>8, QuietStep DEF vars, session
<1> QED
  BY <1>1, <1>2, <1>3, <1>4, <1>5, <1>6, <1>7, <1>8 DEF Next

\* For all integer weights and thresholds and every interleaving: a scored
\* session at the threshold is suspended, the suspension never lapses without
\* its record, and the trail records it exactly once.
THEOREM SuspensionIsAccounted == Spec => []SuspensionAccounted
<1>1. Init => SuspensionAccounted
  BY DEF Init, SuspensionAccounted, SuspensionRecords, SuspensionsIn
<1>2. TypeOK /\ SuspensionAccounted /\ [Next]_vars => SuspensionAccounted'
  BY AccountedStep
<1> QED
  BY <1>1, <1>2, TypeCorrect, PTL DEF Spec

-----------------------------------------------------------------------------
(* What Gateway lets through: the audit trail against the wire and the live   *)
(* score, the order rules and the suspension on the wire, the reach of a      *)
(* fail-open posture, and the protection of results.                          *)

\* Pieces of a trail may be joined in any order of brackets.
LEMMA ConcatTwice ==
  ASSUME NEW x \in Seq(AuditRecords), NEW y \in Seq(AuditRecords), NEW z \in Seq(AuditRecords)
  PROVE  x \o y \o z = x \o (y \o z)
<1> DEFINE R == AuditRecords
<1> HIDE DEF R
<1> SUFFICES ASSUME x \in Seq(R), y \in Seq(R), z \in Seq(R) PROVE x \o y \o z = x \o (y \o z)
  BY DEF R
<1> QED
  OBVIOUS

---------------------------------------------------------------------------
(* What an outcome says about the call it decides. *)

\* The disposition an action asks for a result.
DispOf(action) == IF action \in {"redact", "quarantine"} THEN action ELSE "none"

\* A handler that continues did not raise, is not of a terminal action, tags the
\* result as its action asks and scrubs PII where it must; only a raise is internal.
LEMMA HandlerVerdict ==
  ASSUME NEW action \in Actions, NEW r, NEW o \in Handler(action, r)
  PROVE  /\ o.verdict = "continue" =>
              /\ r.crash # "action" /\ action # "require_approval" /\ action # "block"
              /\ ~(action = "redact" /\ ~RedactionOn)
              /\ o.disp = DispOf(action)
              /\ (action = "redact" /\ r.arg = "pii") => o.out = "scrubbed"
         /\ o.internal => r.crash = "action"
         /\ ~o.approval
<1>1. CASE r.crash = "action"
  BY <1>1 DEF Handler, Crash, deny, Outcome
<1>2. ASSUME o = deny("action", "blocked_tool")
      PROVE  o.verdict # "continue" /\ ~o.internal /\ ~o.approval
  BY <1>2 DEF deny, Outcome
<1>3. ASSUME NEW disp, NEW out, o = proceed(disp, out)
      PROVE  o.disp = disp /\ o.out = out /\ ~o.internal /\ ~o.approval
  BY <1>3 DEF proceed, Outcome
<1>4. CASE r.crash # "action" /\ action = "allow"
  BY <1>3, <1>4 DEF Handler, AllowHandler, DispOf
<1>5. CASE r.crash # "action" /\ action = "rewrite"
  BY <1>3, <1>5 DEF Handler, RewriteHandler, DispOf
<1>6. CASE r.crash # "action" /\ action = "quarantine"
  BY <1>3, <1>6 DEF Handler, QuarantineHandler, DispOf
<1>7. CASE r.crash # "action" /\ action = "redact"
  <2>1. o \in RedactHandler(r)
    BY <1>7 DEF Handler
  <2>2. \/ o = deny("action", "blocked_tool")
        \/ RedactionOn /\ o = proceed("redact", IF r.arg = "pii" THEN "scrubbed" ELSE "raw")
    BY <2>1 DEF RedactHandler, BlockHandler
  <2> QED
    BY <1>2, <1>3, <1>7, <2>2 DEF DispOf
<1>8. CASE r.crash # "action" /\ action \in {"block", "require_approval"}
  BY <1>2, <1>8 DEF Handler, BlockHandler
<1> QED
  BY <1>1, <1>4, <1>5, <1>6, <1>7, <1>8 DEF Actions

\* What a call that waits for a human has passed: the constraints and the order
\* rules, as they were when it was asked.
Waits(r) ==
  /\ r.tool \in Tools /\ ActionOf[r.tool] = "require_approval" /\ Broker = "http"
  /\ r.arg # "violating" /\ r.crash \in {"none", "action"}

\* What a call that continues has passed.
Passes(r, o) ==
  /\ r.arg # "violating" /\ r.crash = "none" /\ r.tool \notin HiddenTools
  /\ o.disp = Owed(r.tool)
  /\ (Owed(r.tool) = "redact" /\ r.arg = "pii") => o.out = "scrubbed"

\* What a call that some stage raised on has passed.
Raised(r) ==
  r.crash # "none" /\ (r.arg = "violating" => r.crash \in {"policy", "constraints"})

\* The handler after the human: nothing the earlier stages checked is lost.
LEMMA ApprovedVerdict ==
  ASSUME NEW r, r.tool \in Tools, ActionOf[r.tool] = "require_approval",
         r.arg # "violating", r.crash \in {"none", "action"},
         NEW approved, approved => Broker \in {"allow", "http"},
         NEW o \in AfterApproval(r, approved)
  PROVE  /\ o.verdict = "continue" => Passes(r, o)
         /\ o.internal => Raised(r)
         /\ o.approval
<1>1. PICK p \in IF approved THEN Handler(ThenOf[r.tool], r)
                 ELSE {deny("action", "approval_denied")} :
        o = [p EXCEPT !.approval = TRUE]
  BY DEF AfterApproval
<1>2. CASE ~approved
  <2>1. p = deny("action", "approval_denied")
    BY <1>1, <1>2
  <2> QED
    BY <1>1, <2>1 DEF deny, Outcome
<1>3. CASE approved
  <2>1. p \in Handler(ThenOf[r.tool], r) /\ ThenOf[r.tool] \in Actions
    BY <1>1, <1>3, ConstantsAssumption
  <2>2. p \in StageOutcomes
    BY <2>1, HandlerOutcome
  <2>3. /\ o.verdict = p.verdict /\ o.internal = p.internal /\ o.disp = p.disp
        /\ o.out = p.out /\ o.approval
    BY <1>1, <2>2 DEF StageOutcomes, Outcomes
  <2>4. Owed(r.tool) = DispOf(ThenOf[r.tool]) /\ r.tool \notin HiddenTools
    BY <1>3 DEF Owed, DispOf, HiddenTools, terminal_deny
  <2>5. /\ p.verdict = "continue" =>
             /\ r.crash # "action" /\ p.disp = DispOf(ThenOf[r.tool])
             /\ (ThenOf[r.tool] = "redact" /\ r.arg = "pii") => p.out = "scrubbed"
        /\ p.internal => r.crash = "action"
    BY <2>1, HandlerVerdict
  <2>6. Owed(r.tool) = "redact" => ThenOf[r.tool] = "redact"
    BY <2>4 DEF DispOf
  <2> QED
    BY <2>3, <2>4, <2>5, <2>6 DEF Passes, Raised
<1> QED
  BY <1>2, <1>3

\* The pipeline: what it lets through was not suspended, forbidden or violating
\* when it was checked.
LEMMA PipelineVerdict ==
  ASSUME NEW r \in CallStates, r.tool \in Tools, NEW o \in Pipeline(r)
  PROVE  /\ o.verdict = "continue" => ~Forbidden(r.tool) /\ Passes(r, o)
         /\ o.verdict = "ask" => Waits(r)
         /\ o.internal => Raised(r)
         /\ suspended => o.verdict = "deny" /\ ~o.internal
<1>1. r.crash \in {"none"} \cup Stages /\ ActionOf[r.tool] \in Actions
  BY ConstantsAssumption DEF CallStates
<1>2. CASE suspended
  <2>1. o = deny("session_gate", "none")
    BY <1>2 DEF Pipeline
  <2> QED
    BY <2>1 DEF deny, Outcome
<1>3. ASSUME NEW stage, NEW risk
      PROVE  /\ deny(stage, risk).verdict = "deny" /\ ~deny(stage, risk).internal
             /\ [deny(stage, risk) EXCEPT !.internal = TRUE].verdict = "deny"
  BY DEF deny, Outcome
<1>4. CASE ~suspended /\ r.crash = "policy"
  BY <1>3, <1>4 DEF Pipeline, Crash, Raised
<1>5. CASE ~suspended /\ r.crash = "constraints"
  BY <1>3, <1>5 DEF Pipeline, ConstraintsStage, Crash, Raised
<1>6. CASE ~suspended /\ r.crash \notin {"policy", "constraints"} /\ r.arg = "violating"
  BY <1>3, <1>6 DEF Pipeline, ConstraintsStage
<1>7. CASE ~suspended /\ r.crash \notin {"policy", "constraints"} /\ r.arg # "violating"
  <2>1. o \in SequenceStage(r)
    BY <1>7 DEF Pipeline, ConstraintsStage
  <2>2. CASE r.crash = "sequence"
    BY <1>3, <1>7, <2>1, <2>2 DEF SequenceStage, Crash, Raised
  <2>3. CASE r.crash # "sequence" /\ Forbidden(r.tool)
    BY <1>3, <1>7, <2>1, <2>3 DEF SequenceStage
  <2>4. CASE r.crash # "sequence" /\ ~Forbidden(r.tool)
    <3>1. o \in ActionStage(r)
      BY <2>1, <2>4 DEF SequenceStage
    <3>2. r.crash \in {"none", "action"}
      BY <1>1, <1>7, <2>4 DEF Stages
    <3>3. CASE ActionOf[r.tool] # "require_approval"
      <4>1. o \in Handler(ActionOf[r.tool], r)
        BY <3>1, <3>3 DEF ActionStage
      <4>2. Owed(r.tool) = DispOf(ActionOf[r.tool])
        BY <3>3 DEF Owed, DispOf
      <4>3. Owed(r.tool) = "redact" => ActionOf[r.tool] = "redact"
        BY <4>2 DEF DispOf
      <4>4. /\ o.verdict = "continue" =>
                /\ r.crash # "action" /\ ActionOf[r.tool] # "block"
                /\ ~(ActionOf[r.tool] = "redact" /\ ~RedactionOn)
                /\ o.disp = DispOf(ActionOf[r.tool])
                /\ (ActionOf[r.tool] = "redact" /\ r.arg = "pii") => o.out = "scrubbed"
            /\ o.internal => r.crash = "action"
        BY <1>1, <4>1, HandlerVerdict
      <4>5. o.verdict = "continue" => r.tool \notin HiddenTools
        BY <3>3, <4>4 DEF HiddenTools, terminal_deny
      <4>6. o.verdict # "ask"
        BY <4>1, HandlerOutcome
      <4> QED
        BY <1>7, <2>4, <3>2, <4>2, <4>3, <4>4, <4>5, <4>6 DEF Passes, Raised
    <3>4. CASE ActionOf[r.tool] = "require_approval" /\ Broker = "none"
      BY <1>3, <1>7, <3>1, <3>4 DEF ActionStage
    <3>5. CASE ActionOf[r.tool] = "require_approval" /\ Broker = "http"
      <4>1. o = Ask
        BY <3>1, <3>5 DEF ActionStage
      <4>2. o.verdict = "ask" /\ ~o.internal
        BY <4>1 DEF Ask, Outcome
      <4> QED
        BY <1>7, <3>2, <3>5, <4>2 DEF Waits
    <3>6. CASE ActionOf[r.tool] = "require_approval" /\ Broker \in {"allow", "deny"}
      <4>1. o \in AfterApproval(r, Broker = "allow")
        BY <3>1, <3>6 DEF ActionStage
      <4>2. /\ o.verdict = "continue" => Passes(r, o)
            /\ o.internal => Raised(r)
        BY <1>7, <3>2, <3>6, <4>1, ApprovedVerdict
      <4>3. o.verdict # "ask"
        BY <4>1, AfterApprovalOutcome
      <4> QED
        BY <1>7, <2>4, <4>2, <4>3
    <3> QED
      BY <3>3, <3>4, <3>5, <3>6, ConstantsAssumption
  <2> QED
    BY <2>2, <2>3, <2>4
<1> QED
  BY <1>2, <1>4, <1>5, <1>6, <1>7

---------------------------------------------------------------------------
(* The steps, with what is known of the call each one decides. *)

\* Every call that waits for a human has passed the stages before the action.
WaitingPassed == \A c \in Calls : call[c].phase = "approval" => Waits(call[c])

\* Outcome o decides request r of call c now: read from the client just before, or
\* parked until a human answered.
Decides(c, r, o) ==
  /\ r.tool \in Tools /\ r.id \in Ids /\ call[c].stage = "undecided"
  /\ \/ /\ MaySend(c, r.id)
        /\ o.verdict = "continue" => ~Forbidden(r.tool)
        /\ suspended => o.verdict = "deny" /\ ~o.internal
     \/ call[c].phase = "approval" /\ r = call[c] /\ Waits(r) /\ o.approval
  /\ o.verdict = "continue" => Passes(r, o)
  /\ o.internal => Raised(r)

\* Request r of call c, read just before, is parked until a human answers.
Parks(c, r, o) ==
  /\ r.tool \in Tools /\ r.id \in Ids /\ call[c].stage = "undecided"
  /\ MaySend(c, r.id) /\ Waits(r) /\ ~suspended

LEMMA Steps ==
  ASSUME TypeOK, DecidedOnce, WaitingPassed, [Next]_vars
  PROVE  \/ \E c \in Calls, r \in CallStates, o \in StageOutcomes :
              Decides(c, r, o) /\ Conclude(c, r, o)
         \/ \E c \in Calls, r \in CallStates, o \in StageOutcomes :
              Parks(c, r, o) /\ AwaitApproval(c, r, o)
         \/ \E c \in Calls, m \in Methods, i \in Ids \cup {NoId} : Passthrough(c, m, i)
         \/ \E c \in Calls, v \in Verdicts : AnomalyReturns(c, v)
         \/ \E c \in Calls, e \in BOOLEAN : UpstreamResponse(c, e)
         \/ \E c \in Calls, m \in {ServerRequest, Opaque} : UpstreamSpeaks(c, m)
         \/ \E res \in {"light", "heavy", "failed"} : RedactionReturns(res)
         \/ UNCHANGED vars
<1>1. ASSUME NEW c \in Calls, NEW t \in Tools, NEW i \in Ids, NEW a \in ArgKinds,
             NEW x \in Crashes, ToolCall(c, Request(t, i, a, x))
      PROVE  \/ \E r \in CallStates, o \in StageOutcomes : Decides(c, r, o) /\ Conclude(c, r, o)
             \/ \E r \in CallStates, o \in StageOutcomes : Parks(c, r, o) /\ AwaitApproval(c, r, o)
  <2> DEFINE r == Request(t, i, a, x)
  <2>1. r \in CallStates /\ r.tool = t /\ r.id = i
    BY RequestType, ConstantsAssumption DEF Crashes
  <2>2. PICK o \in Pipeline(r) : AwaitApproval(c, r, o) \/ Conclude(c, r, o)
    BY <1>1 DEF ToolCall
  <2>3. MaySend(c, r.id) /\ call[c].stage = "undecided"
    BY <1>1 DEF ToolCall, MaySend, DecidedOnce
  <2> HIDE DEF r
  <2>4. o \in StageOutcomes
    BY PipelineOutcome
  <2>5. /\ o.verdict = "continue" => ~Forbidden(r.tool) /\ Passes(r, o)
        /\ o.verdict = "ask" => Waits(r)
        /\ o.internal => Raised(r)
        /\ suspended => o.verdict = "deny" /\ ~o.internal
    BY <2>1, PipelineVerdict
  <2>6. CASE AwaitApproval(c, r, o)
    <3>1. o.verdict = "ask"
      BY <2>6 DEF AwaitApproval
    <3> QED
      BY <2>1, <2>3, <2>4, <2>5, <2>6, <3>1 DEF Parks
  <2>7. CASE Conclude(c, r, o)
    BY <2>1, <2>3, <2>4, <2>5, <2>7 DEF Decides
  <2> QED
    BY <2>2, <2>6, <2>7
<1>2. ASSUME NEW c \in Calls, NEW a \in Answers, ApprovalReturns(c, a)
      PROVE  \E r \in CallStates, o \in StageOutcomes : Decides(c, r, o) /\ Conclude(c, r, o)
  <2> DEFINE approved == a = "approved" \/ (a = "unavailable" /\ "approval" \in OpenPosture)
             r == call[c]
  <2>1. r \in CallStates /\ r.tool \in Tools /\ r.id \in Ids /\ r.phase = "approval"
    BY <1>2 DEF ApprovalReturns, TypeOK
  <2>2. PICK o \in AfterApproval(r, approved) : Conclude(c, r, o)
    BY <1>2 DEF ApprovalReturns
  <2>3. o \in StageOutcomes /\ Waits(r) /\ r.stage = "undecided"
    BY <2>1, AfterApprovalOutcome DEF WaitingPassed, DecidedOnce
  <2> HIDE DEF approved
  <2>4. /\ o.verdict = "continue" => Passes(r, o)
        /\ o.internal => Raised(r)
        /\ o.approval
    BY <2>1, <2>3, ApprovedVerdict DEF Waits
  <2>5. Decides(c, r, o)
    BY <2>1, <2>3, <2>4 DEF Decides
  <2> QED
    BY <2>1, <2>2, <2>3, <2>5
<1> QED
  BY <1>1, <1>2 DEF Next

\* The call a settling step settles, and the others.
LEMMA SettleFields ==
  ASSUME TypeOK, NEW c \in Calls, NEW r, NEW phase, NEW stage, NEW out,
         Settle(c, r, phase, stage, out)
  PROVE  /\ call'[c].phase = phase /\ call'[c].tool = r.tool /\ call'[c].id = r.id
         /\ call'[c].arg = r.arg /\ call'[c].crash = r.crash
         /\ call'[c].stage = stage /\ call'[c].out = out
         /\ \A d \in Calls \ {c} : call'[d] = call[d]
<1>1. call' = [call EXCEPT ![c] = Settled(r, phase, stage, out)]
  BY DEF Settle
<1>2. call'[c] = Settled(r, phase, stage, out) /\ \A d \in Calls \ {c} : call'[d] = call[d]
  BY <1>1 DEF TypeOK
<1> QED
  BY <1>2 DEF Settled

\* The anomaly verdict changes nothing of a call but its phase.
LEMMA AnomalyFields ==
  ASSUME TypeOK, NEW c \in Calls, NEW v, AnomalyReturns(c, v)
  PROVE  /\ call[c].phase = "observing" /\ call'[c].phase = "done"
         /\ \A d \in Calls :
              /\ call'[d].tool = call[d].tool /\ call'[d].id = call[d].id
              /\ call'[d].arg = call[d].arg /\ call'[d].crash = call[d].crash
              /\ call'[d].stage = call[d].stage /\ call'[d].out = call[d].out
         /\ \A d \in Calls \ {c} : call'[d] = call[d]
<1>1. /\ call[c].phase = "observing" /\ call' = [call EXCEPT ![c] = [call[c] EXCEPT !.phase = "done"]]
      /\ call \in [Calls -> CallStates]
  BY DEF AnomalyReturns, TypeOK
<1>2. call'[c] = [call[c] EXCEPT !.phase = "done"] /\ \A d \in Calls \ {c} : call'[d] = call[d]
  BY <1>1
<1> QED
  BY <1>1, <1>2 DEF CallStates

\* A decision is never revised: only the phase of a decided call changes.
LEMMA DecisionsStay ==
  ASSUME TypeOK, DecidedOnce, WaitingPassed, [Next]_vars
  PROVE  \A d \in Calls : call[d].stage # "undecided" =>
           /\ call'[d].tool = call[d].tool /\ call'[d].id = call[d].id
           /\ call'[d].arg = call[d].arg /\ call'[d].crash = call[d].crash
           /\ call'[d].stage = call[d].stage /\ call'[d].out = call[d].out
<1>1. ASSUME NEW c \in Calls, NEW r, NEW o, Decides(c, r, o), Conclude(c, r, o)
      PROVE  \A d \in Calls : call[d].stage # "undecided" => call'[d] = call[d]
  <2>1. \E phase, stage, out : Settle(c, r, phase, stage, out)
    BY <1>1 DEF Conclude, Refuse, ForwardUnchecked, Forward
  <2>2. call[c].stage = "undecided"
    BY <1>1 DEF Decides
  <2> QED
    BY <2>1, <2>2, SettleFields
<1>2. ASSUME NEW c \in Calls, NEW r, NEW o, Parks(c, r, o), AwaitApproval(c, r, o)
      PROVE  \A d \in Calls : call[d].stage # "undecided" => call'[d] = call[d]
  BY <1>2, SettleFields DEF AwaitApproval, Parks
<1>3. ASSUME NEW c \in Calls, NEW m \in Methods, NEW i \in Ids \cup {NoId}, Passthrough(c, m, i)
      PROVE  \A d \in Calls : call[d].stage # "undecided" => call'[d] = call[d]
  <2>1. call[c].stage = "undecided"
    BY <1>3 DEF Passthrough, MaySend, DecidedOnce
  <2>2. \E r : Settle(c, r, "done", "passthrough", "raw")
    BY <1>3 DEF Passthrough
  <2> QED
    BY <2>1, <2>2, SettleFields
<1>4. ASSUME NEW c \in Calls, NEW m \in {ServerRequest, Opaque}, UpstreamSpeaks(c, m)
      PROVE  \A d \in Calls : call[d].stage # "undecided" => call'[d] = call[d]
  <2>1. call[c].stage = "undecided"
    BY <1>4 DEF UpstreamSpeaks, DecidedOnce
  <2>2. \E r : Settle(c, r, "done", "passthrough", "raw")
    BY <1>4 DEF UpstreamSpeaks
  <2> QED
    BY <2>1, <2>2, SettleFields
<1>5. ASSUME \/ \E c \in Calls, e \in BOOLEAN : UpstreamResponse(c, e)
             \/ \E res \in {"light", "heavy", "failed"} : RedactionReturns(res)
             \/ UNCHANGED vars
      PROVE  call' = call
  BY <1>5 DEF UpstreamResponse, RedactionReturns, vars
<1> QED
  BY <1>1, <1>2, <1>3, <1>4, <1>5, AnomalyFields, Steps

\* What holds of a call the pipeline let through.
Passed(r) ==
  /\ r.arg # "violating" /\ r.crash = "none" /\ r.tool \notin HiddenTools
  /\ (Owed(r.tool) = "redact" /\ r.arg = "pii") => r.out = "scrubbed"

\* What a step writes to the upstream: nothing, or one call decided just now, of
\* which the session's history, taint and order rules have been told or the trail
\* will say that they were passed by.
WireStep ==
  \/ /\ sent' = sent /\ history' = history /\ taint_origin' = taint_origin
  \/ \E c \in Calls :
       /\ sent' = Append(sent, c) /\ call[c].stage = "undecided"
       /\ \/ /\ call'[c].stage = "passthrough"
             /\ history' = history /\ taint_origin' = taint_origin
          \/ /\ call'[c].stage = "fail_open"
             /\ history' = history /\ taint_origin' = taint_origin
             /\ "pipeline" \in OpenPosture /\ Raised(call'[c])
          \/ /\ call'[c].stage = "forwarded" /\ call'[c].tool \in Tools
             /\ history' = Append(history, call'[c].tool)
             /\ taint_origin' =
                  IF call'[c].tool \in TaintSources /\ ~tainted THEN call'[c].tool
                  ELSE taint_origin
             /\ Passed(call'[c])
             /\ Forbidden(call'[c].tool) => Waits(call'[c])

LEMMA WireSteps ==
  ASSUME TypeOK, DecidedOnce, WaitingPassed, [Next]_vars
  PROVE  WireStep
<1>1. ASSUME NEW c \in Calls, NEW r \in CallStates, NEW o \in StageOutcomes, Decides(c, r, o),
             Conclude(c, r, o)
      PROVE  WireStep
  <2>1. CASE Refuse(c, r, o)
    BY <2>1 DEF Refuse, WireStep
  <2>2. CASE ForwardUnchecked(c, r, o)
    <3>1. /\ sent' = Append(sent, c) /\ history' = history /\ taint_origin' = taint_origin
          /\ Settle(c, r, "done", "fail_open", "raw")
          /\ o.internal /\ "pipeline" \in OpenPosture
      BY <2>2 DEF ForwardUnchecked, FailsOpen
    <3>2. /\ call'[c].stage = "fail_open" /\ call'[c].arg = r.arg /\ call'[c].crash = r.crash
      BY <3>1, SettleFields
    <3>3. Raised(r) /\ call[c].stage = "undecided"
      BY <1>1, <3>1 DEF Decides
    <3>4. Raised(call'[c])
      BY <3>2, <3>3 DEF Raised
    <3> QED
      BY <3>1, <3>2, <3>3, <3>4 DEF WireStep
  <2>3. CASE Forward(c, r, o)
    <3>1. /\ sent' = Append(sent, c) /\ history' = Append(history, r.tool)
          /\ taint_origin' = IF r.tool \in TaintSources /\ ~tainted THEN r.tool ELSE taint_origin
          /\ Settle(c, r, Phase(Assessed(FALSE)), "forwarded", o.out)
          /\ o.verdict = "continue"
      BY <2>3 DEF Forward
    <3>2. /\ call'[c].stage = "forwarded" /\ call'[c].arg = r.arg /\ call'[c].crash = r.crash
          /\ call'[c].tool = r.tool /\ call'[c].out = o.out
      <4>1. \E phase : Settle(c, r, phase, "forwarded", o.out)
        BY <3>1
      <4> QED
        BY <4>1, SettleFields
    <3>3. Passes(r, o) /\ call[c].stage = "undecided" /\ r.tool \in Tools
      BY <1>1, <3>1 DEF Decides
    <3>4. Passed(call'[c])
      BY <3>2, <3>3 DEF Passes, Passed
    <3>5. Forbidden(r.tool) => Waits(r)
      BY <1>1, <3>1 DEF Decides
    <3>6. Forbidden(call'[c].tool) => Waits(call'[c])
      BY <3>2, <3>5 DEF Waits
    <3> QED
      BY <3>1, <3>2, <3>3, <3>4, <3>6 DEF WireStep
  <2> QED
    BY <1>1, <2>1, <2>2, <2>3 DEF Conclude
<1>2. ASSUME NEW c \in Calls, NEW r, NEW o, AwaitApproval(c, r, o)
      PROVE  WireStep
  BY <1>2 DEF AwaitApproval, WireStep, session
<1>3. ASSUME NEW c \in Calls, NEW m \in Methods, NEW i \in Ids \cup {NoId}, Passthrough(c, m, i)
      PROVE  WireStep
  <2>1. call[c].stage = "undecided"
    BY <1>3 DEF Passthrough, MaySend, DecidedOnce
  <2>2. \E r : Settle(c, r, "done", "passthrough", "raw")
    BY <1>3 DEF Passthrough
  <2>3. call'[c].stage = "passthrough"
    BY <2>2, SettleFields
  <2>4. sent' = Append(sent, c) /\ history' = history /\ taint_origin' = taint_origin
    BY <1>3 DEF Passthrough, session
  <2> QED
    BY <2>1, <2>3, <2>4 DEF WireStep
<1>4. ASSUME \/ \E c \in Calls, v \in Verdicts : AnomalyReturns(c, v)
             \/ \E c \in Calls, e \in BOOLEAN : UpstreamResponse(c, e)
             \/ \E c \in Calls, m \in {ServerRequest, Opaque} : UpstreamSpeaks(c, m)
             \/ \E res \in {"light", "heavy", "failed"} : RedactionReturns(res)
             \/ UNCHANGED vars
      PROVE  WireStep
  <2>1. sent' = sent /\ history' = history /\ taint_origin' = taint_origin
    BY <1>4 DEF AnomalyReturns, UpstreamResponse, UpstreamSpeaks, RedactionReturns, vars, session
  <2> QED
    BY <2>1 DEF WireStep
<1> QED
  BY <1>1, <1>2, <1>3, <1>4, Steps

---------------------------------------------------------------------------
(* The stages that were passed, at the time the call is written. *)

LEMMA WaitingStep ==
  ASSUME TypeOK, DecidedOnce, WaitingPassed, [Next]_vars
  PROVE  WaitingPassed'
<1>1. ASSUME NEW c \in Calls, NEW r, NEW o, Conclude(c, r, o)
      PROVE  WaitingPassed'
  <2>1. \E phase \in {"observing", "done"} : \E stage, out : Settle(c, r, phase, stage, out)
    BY <1>1 DEF Conclude, Refuse, ForwardUnchecked, Forward, Phase
  <2>2. call'[c].phase # "approval" /\ \A d \in Calls \ {c} : call'[d] = call[d]
    BY <2>1, SettleFields
  <2> QED
    BY <2>2 DEF WaitingPassed
<1>2. ASSUME NEW c \in Calls, NEW r, NEW o, Parks(c, r, o), AwaitApproval(c, r, o)
      PROVE  WaitingPassed'
  <2>1. Settle(c, r, "approval", "undecided", "raw") /\ Waits(r)
    BY <1>2 DEF AwaitApproval, Parks
  <2>2. /\ call'[c].tool = r.tool /\ call'[c].arg = r.arg /\ call'[c].crash = r.crash
        /\ \A d \in Calls \ {c} : call'[d] = call[d]
    BY <2>1, SettleFields
  <2>3. Waits(call'[c])
    BY <2>1, <2>2 DEF Waits
  <2> QED
    BY <2>2, <2>3 DEF WaitingPassed
<1>3. ASSUME \/ \E c \in Calls, m \in Methods, i \in Ids \cup {NoId} : Passthrough(c, m, i)
             \/ \E c \in Calls, m \in {ServerRequest, Opaque} : UpstreamSpeaks(c, m)
      PROVE  WaitingPassed'
  <2>1. \E c \in Calls : \E r : Settle(c, r, "done", "passthrough", "raw")
    BY <1>3 DEF Passthrough, UpstreamSpeaks
  <2> QED
    BY <2>1, SettleFields DEF WaitingPassed
<1>4. ASSUME NEW c \in Calls, NEW v \in Verdicts, AnomalyReturns(c, v)
      PROVE  WaitingPassed'
  <2>1. call'[c].phase = "done" /\ \A d \in Calls \ {c} : call'[d] = call[d]
    BY <1>4, AnomalyFields
  <2> QED
    BY <2>1 DEF WaitingPassed
<1>5. ASSUME \/ \E c \in Calls, e \in BOOLEAN : UpstreamResponse(c, e)
             \/ \E res \in {"light", "heavy", "failed"} : RedactionReturns(res)
             \/ UNCHANGED vars
      PROVE  WaitingPassed'
  <2>1. call' = call
    BY <1>5 DEF UpstreamResponse, RedactionReturns, vars
  <2> QED
    BY <2>1 DEF WaitingPassed
<1> QED
  BY <1>1, <1>2, <1>3, <1>4, <1>5, Steps

\* A step writes at most one call, and leaves the calls already written as they are.
LEMMA DenialsStep ==
  ASSUME TypeOK, DecidedOnce, WaitingPassed, PolicyDenialsHold, [Next]_vars
  PROVE  PolicyDenialsHold'
<1>1. sent \in Seq(Calls) /\ \A k \in DOMAIN sent : sent[k] \in Calls
  BY DEF TypeOK
<1>2. \A k \in DOMAIN sent :
        /\ call'[sent[k]].tool = call[sent[k]].tool /\ call'[sent[k]].arg = call[sent[k]].arg
        /\ call'[sent[k]].crash = call[sent[k]].crash /\ call'[sent[k]].stage = call[sent[k]].stage
  BY <1>1, DecisionsStay DEF DecidedOnce, SentStages
<1> DEFINE Held(r) ==
      /\ r.stage = "forwarded" =>
           r.arg # "violating" /\ r.tool \notin HiddenTools /\ r.crash = "none"
      /\ r.stage = "fail_open" =>
           /\ "pipeline" \in OpenPosture /\ r.crash # "none"
           /\ r.arg = "violating" => r.crash \in {"policy", "constraints"}
<1>3. \A k \in DOMAIN sent : Held(call'[sent[k]])
  BY <1>2 DEF PolicyDenialsHold
<1>4. \A k \in DOMAIN sent' : Held(call'[sent'[k]])
  <2>1. CASE sent' = sent
    BY <1>3, <2>1
  <2>2. ASSUME NEW c \in Calls, sent' = Append(sent, c), Held(call'[c])
        PROVE  \A k \in DOMAIN sent' : Held(call'[sent'[k]])
    <3> HIDE DEF Held
    <3> QED
      BY <1>1, <1>3, <2>2
  <2>3. \A c \in Calls : call'[c].stage = "passthrough" => Held(call'[c])
    OBVIOUS
  <2>4. \A c \in Calls : call'[c].stage = "forwarded" /\ Passed(call'[c]) => Held(call'[c])
    BY DEF Passed
  <2>5. \A c \in Calls :
          call'[c].stage = "fail_open" /\ "pipeline" \in OpenPosture /\ Raised(call'[c])
            => Held(call'[c])
    BY DEF Raised
  <2> HIDE DEF Held
  <2> QED
    BY <2>1, <2>2, <2>3, <2>4, <2>5, WireSteps DEF WireStep
<1> QED
  BY <1>4 DEF PolicyDenialsHold

\* The fail-open posture covers unexpected errors only, for every policy and
\* posture: what went through the pipeline passed every stage, and what went
\* unchecked is a call that a stage raised on before any other denied it.
THEOREM PolicyDenialsAreFinal == Spec => []PolicyDenialsHold
<1>1. Init => DecidedOnce /\ WaitingPassed /\ PolicyDenialsHold
  BY DEF Init, DecidedOnce, WaitingPassed, PolicyDenialsHold, NewCall
<1>2. TypeOK /\ DecidedOnce /\ WaitingPassed /\ PolicyDenialsHold /\ [Next]_vars
        => DecidedOnce' /\ WaitingPassed' /\ PolicyDenialsHold'
  BY DecidedOnceStep, WaitingStep, DenialsStep
<1> QED
  BY <1>1, <1>2, TypeCorrect, PTL DEF Spec

---------------------------------------------------------------------------
(* The order rules on the wire. *)

\* No tool that waits for a human is a sink or the second of a sequence rule: the
\* approval is not followed by another look at the session.
NoOrderedApproval ==
  Broker = "http" =>
    \A t \in Tools : ActionOf[t] = "require_approval" =>
      t \notin TaintSinks /\ \A s \in Tools : <<s, t>> \notin SequenceRules

\* The session remembers every call the pipeline forwarded, and the taint of
\* every source among them.
HistoryRemembers ==
  \A k \in DOMAIN sent : call[sent[k]].stage = "forwarded" =>
    /\ call[sent[k]].tool \in Range(history)
    /\ call[sent[k]].tool \in TaintSources => tainted

LEMMA OrderStep ==
  ASSUME NoOrderedApproval, TypeOK, DecidedOnce, WaitingPassed, HistoryRemembers,
         SequenceRespected, [Next]_vars
  PROVE  HistoryRemembers' /\ SequenceRespected'
<1>1. /\ sent \in Seq(Calls) /\ \A k \in DOMAIN sent : sent[k] \in Calls
      /\ history \in Seq(Tools)
  BY DEF TypeOK
<1>2. \A k \in DOMAIN sent :
        /\ call'[sent[k]].tool = call[sent[k]].tool /\ call'[sent[k]].stage = call[sent[k]].stage
  BY <1>1, DecisionsStay DEF DecidedOnce, SentStages
<1>3. CASE /\ sent' = sent /\ history' = history /\ taint_origin' = taint_origin
  <2>1. HistoryRemembers'
    BY <1>2, <1>3 DEF HistoryRemembers, tainted
  <2>2. SequenceRespected'
    BY <1>1, <1>2, <1>3 DEF SequenceRespected
  <2> QED
    BY <2>1, <2>2
<1>4. ASSUME NEW c \in Calls, sent' = Append(sent, c), call'[c].stage \in {"passthrough", "fail_open"},
             history' = history, taint_origin' = taint_origin
      PROVE  HistoryRemembers' /\ SequenceRespected'
  <2>1. /\ DOMAIN sent' = 1..(Len(sent) + 1) /\ DOMAIN sent = 1..Len(sent)
        /\ \A k \in DOMAIN sent : sent'[k] = sent[k]
        /\ sent'[Len(sent) + 1] = c /\ Len(sent) \in Nat
    BY <1>1, <1>4
  <2>2. \A k \in DOMAIN sent' : call'[sent'[k]].stage = "forwarded" => k \in DOMAIN sent
    BY <1>4, <2>1
  <2>3. HistoryRemembers'
    BY <1>2, <1>4, <2>1, <2>2 DEF HistoryRemembers, tainted
  <2>4. ASSUME NEW j \in DOMAIN sent', NEW k \in 1..(j - 1),
               call'[sent'[k]].stage = "forwarded", call'[sent'[j]].stage = "forwarded"
        PROVE  ~OrderForbidden(call'[sent'[k]].tool, call'[sent'[j]].tool)
    <3>1. j \in DOMAIN sent /\ k \in DOMAIN sent
      BY <2>1, <2>2, <2>4
    <3> QED
      BY <1>2, <2>1, <2>4, <3>1 DEF SequenceRespected
  <2>5. SequenceRespected'
    BY <2>4 DEF SequenceRespected
  <2> QED
    BY <2>3, <2>5
<1>5. ASSUME NEW c \in Calls, sent' = Append(sent, c), call'[c].tool \in Tools,
             history' = Append(history, call'[c].tool),
             taint_origin' = IF call'[c].tool \in TaintSources /\ ~tainted THEN call'[c].tool
                             ELSE taint_origin,
             Forbidden(call'[c].tool) => Waits(call'[c])
      PROVE  HistoryRemembers' /\ SequenceRespected'
  <2> DEFINE t == call'[c].tool
  <2>1. /\ DOMAIN sent' = 1..(Len(sent) + 1) /\ DOMAIN sent = 1..Len(sent)
        /\ \A k \in DOMAIN sent : sent'[k] = sent[k]
        /\ sent'[Len(sent) + 1] = c /\ Len(sent) \in Nat
    BY <1>1, <1>5
  <2>2. Range(history) \subseteq Range(history') /\ t \in Range(history')
    <3>1. /\ history' = Append(history, t) /\ t \in Tools
      BY <1>5
    <3> HIDE DEF t
    <3>2. /\ DOMAIN history' = 1..(Len(history) + 1) /\ DOMAIN history = 1..Len(history)
          /\ \A k \in DOMAIN history : history'[k] = history[k]
          /\ history'[Len(history) + 1] = t /\ Len(history) \in Nat
      BY <1>1, <3>1
    <3> QED
      BY <3>2 DEF Range
  <2>3. (tainted => tainted') /\ (t \in TaintSources => tainted')
    BY <1>5, ConstantsAssumption DEF tainted
  <2>4. HistoryRemembers'
    <3> HIDE DEF t
    <3>1. \A k \in DOMAIN sent : call'[sent'[k]].stage = "forwarded" =>
            /\ call'[sent'[k]].tool \in Range(history')
            /\ call'[sent'[k]].tool \in TaintSources => tainted'
      BY <1>2, <2>1, <2>2, <2>3 DEF HistoryRemembers
    <3>2. call'[c].tool = t
      BY DEF t
    <3> QED
      BY <2>1, <2>2, <2>3, <3>1, <3>2 DEF HistoryRemembers
  <2>5. ASSUME NEW k \in DOMAIN sent, call[sent[k]].stage = "forwarded"
        PROVE  ~OrderForbidden(call[sent[k]].tool, t)
    <3>1. /\ call[sent[k]].tool \in Range(history)
          /\ call[sent[k]].tool \in TaintSources => tainted
      BY <2>5 DEF HistoryRemembers
    <3>2. CASE ~Forbidden(t)
      BY <3>1, <3>2 DEF Forbidden, OrderForbidden
    <3>3. CASE Forbidden(t)
      <4>1. Broker = "http" /\ t \in Tools /\ ActionOf[t] = "require_approval"
        BY <1>5, <3>3 DEF Waits
      <4>2. \A s : <<s, t>> \in SequenceRules => s \in Tools
        BY ConstantsAssumption
      <4> QED
        BY <4>1, <4>2 DEF NoOrderedApproval, OrderForbidden
    <3> QED
      BY <3>2, <3>3
  <2>6. ASSUME NEW j \in DOMAIN sent', NEW k \in 1..(j - 1),
               call'[sent'[k]].stage = "forwarded", call'[sent'[j]].stage = "forwarded"
        PROVE  ~OrderForbidden(call'[sent'[k]].tool, call'[sent'[j]].tool)
    <3>1. k \in DOMAIN sent /\ sent'[k] = sent[k] /\ call[sent[k]].stage = "forwarded"
          /\ call'[sent'[k]].tool = call[sent[k]].tool
      BY <1>2, <2>1, <2>6
    <3>2. CASE j = Len(sent) + 1
      BY <2>1, <2>5, <3>1, <3>2
    <3>3. CASE j \in DOMAIN sent
      BY <1>2, <2>1, <2>6, <3>1, <3>3 DEF SequenceRespected
    <3> QED
      BY <2>1, <3>2, <3>3
  <2>7. SequenceRespected'
    BY <2>6 DEF SequenceRespected
  <2> QED
    BY <2>4, <2>7
<1> QED
  BY <1>3, <1>4, <1>5, WireSteps DEF WireStep

---------------------------------------------------------------------------
(* What a step adds to the trail. *)

\* Records that let nothing through and report no score but this one.
Plain(trail, score) ==
  \A k \in DOMAIN trail :
    trail[k].event \notin LetThrough /\ (trail[k].scored => trail[k].score = score)

Reports(trail) == \E k \in DOMAIN trail : trail[k].scored

CallDecisions == {"tool_call_allowed", "stage_error_fail_open"}

LEMMA PlainConcat ==
  ASSUME NEW s \in Seq(AuditRecords), NEW t \in Seq(AuditRecords), NEW score,
         Plain(s, score), Plain(t, score)
  PROVE  /\ s \o t \in Seq(AuditRecords) /\ Plain(s \o t, score)
         /\ Reports(s) \/ Reports(t) => Reports(s \o t)
<1>1. s \o t \in Seq(AuditRecords) /\ Len(s \o t) = Len(s) + Len(t)
  OBVIOUS
<1>2. \A k \in 1..Len(s) : (s \o t)[k] = s[k]
  OBVIOUS
<1>3. \A k \in DOMAIN (s \o t) \ DOMAIN s : (s \o t)[k] = t[k - Len(s)] /\ k - Len(s) \in DOMAIN t
  BY <1>1
<1>4. Plain(s \o t, score)
  BY <1>1, <1>2, <1>3 DEF Plain
<1>5. Reports(s) => Reports(s \o t)
  BY <1>1, <1>2 DEF Reports
<1>6. Reports(t) => Reports(s \o t)
  <2>1. \A k \in DOMAIN t : k + Len(s) \in DOMAIN (s \o t) /\ (s \o t)[k + Len(s)] = t[k]
    BY <1>1
  <2> QED
    BY <2>1 DEF Reports
<1> QED
  BY <1>1, <1>4, <1>5, <1>6

LEMMA PlainEvents ==
  ASSUME NEW c \in Calls, NEW name \in EventNames \ LetThrough, NEW score \in Int, NEW any
  PROVE  /\ <<Event(name, c)>> \in Seq(AuditRecords) /\ Plain(<<Event(name, c)>>, any)
         /\ <<ScoredEvent(name, c, score)>> \in Seq(AuditRecords)
         /\ Plain(<<ScoredEvent(name, c, score)>>, score)
         /\ Reports(<<ScoredEvent(name, c, score)>>)
         /\ <<>> \in Seq(AuditRecords) /\ Plain(<<>>, any)
<1>1. /\ Event(name, c).event = name /\ ~Event(name, c).scored
      /\ ScoredEvent(name, c, score).event = name /\ ScoredEvent(name, c, score).scored
      /\ ScoredEvent(name, c, score).score = score
  BY DEF Event, ScoredEvent
<1>2. Event(name, c) \in AuditRecords /\ ScoredEvent(name, c, score) \in AuditRecords
  BY RecordTypes
<1> QED
  BY <1>1, <1>2 DEF Plain, Reports

LEMMA PlainApproval ==
  ASSUME NEW c \in Calls, NEW o, NEW any
  PROVE  ApprovalRecord(c, o) \in Seq(AuditRecords) /\ Plain(ApprovalRecord(c, o), any)
<1>1. 0 \in Int /\ "approval_requested" \in EventNames \ LetThrough
  BY DEF EventNames, LetThrough
<1>2. CASE o.approval
  BY <1>1, <1>2, PlainEvents DEF ApprovalRecord
<1>3. CASE ~o.approval
  BY <1>1, <1>3, PlainEvents DEF ApprovalRecord
<1> QED
  BY <1>2, <1>3

LEMMA PlainSuspension ==
  ASSUME NEW c \in Calls, NEW event \in RiskEvents, risk_score \in Int
  PROVE  /\ SuspendedRecord(c, event) \in Seq(AuditRecords)
         /\ Plain(SuspendedRecord(c, event), risk_score + Weights[event])
<1>1. /\ risk_score + Weights[event] \in Int
      /\ "session_suspended" \in EventNames \ LetThrough
  BY ConstantsAssumption DEF EventNames, LetThrough
<1>2. CASE SuspendedNow(event)
  BY <1>1, <1>2, PlainEvents DEF SuspendedRecord
<1>3. CASE ~SuspendedNow(event)
  BY <1>1, <1>3, PlainEvents DEF SuspendedRecord
<1> QED
  BY <1>2, <1>3

\* The trail grows by t, which reports the score the step leaves, if any, and
\* reports one if the step scores.
Extends(t) ==
  /\ t \in Seq(AuditRecords) /\ audit' = audit \o t
  /\ \A k \in DOMAIN t : t[k].scored => t[k].score = risk_score'
  /\ (risk_score' = risk_score /\ risk_events' = risk_events) \/ Reports(t)

\* A step that writes nothing: the only record of something let through is that
\* of an upstream line, of no request.
Unwritten(t) ==
  /\ sent' = sent
  /\ \A k \in DOMAIN t : t[k].event \in LetThrough =>
       /\ t[k].event \notin CallDecisions
       /\ call[t[k].call].stage = "undecided" /\ call'[t[k].call].stage = "passthrough"

\* A step that writes call c: its record is the last one, and of a call let
\* through a suspended session the trail says just before that a human was asked.
Written(c, t) ==
  /\ sent' = Append(sent, c) /\ suspended' = suspended
  /\ call[c].stage = "undecided" /\ call'[c].stage \in SentStages
  /\ t # <<>> /\ t[Len(t)].call = c /\ t[Len(t)].event \in LetThrough
  /\ \A k \in 1..(Len(t) - 1) : t[k].event \notin LetThrough
  /\ (suspended /\ t[Len(t)].event \in CallDecisions) =>
       /\ call[c].phase = "approval" /\ call'[c].phase # "approval"
       /\ \A d \in Calls \ {c} : call'[d] = call[d]
       /\ \E k \in DOMAIN t : t[k].event = "approval_requested" /\ t[k].call = c

\* A step that lets nothing through.
LEMMA PlainExtension ==
  ASSUME NEW t \in Seq(AuditRecords), audit' = audit \o t, Plain(t, risk_score'), sent' = sent,
         (risk_score' = risk_score /\ risk_events' = risk_events) \/ Reports(t)
  PROVE  \E u : Extends(u) /\ Unwritten(u)
<1>1. Extends(t) /\ Unwritten(t)
  BY DEF Extends, Unwritten, Plain
<1> QED
  BY <1>1

\* A step that appends one unscored record of something let through to plain ones.
LEMMA LastRecord ==
  ASSUME NEW u \in Seq(AuditRecords), NEW c \in Calls, NEW name \in LetThrough,
         Plain(u, risk_score), audit' = audit \o (u \o <<Event(name, c)>>),
         risk_score' = risk_score, risk_events' = risk_events,
         sent' = Append(sent, c), suspended' = suspended,
         call[c].stage = "undecided", call'[c].stage \in SentStages,
         (suspended /\ name \in CallDecisions) =>
           /\ call[c].phase = "approval" /\ call'[c].phase # "approval"
           /\ \A d \in Calls \ {c} : call'[d] = call[d]
           /\ \E k \in DOMAIN u : u[k].event = "approval_requested" /\ u[k].call = c
  PROVE  \E t : Extends(t) /\ Written(c, t)
<1> DEFINE e == Event(name, c)
           t == u \o <<e>>
<1>1. e.event = name /\ e.call = c /\ ~e.scored /\ e \in AuditRecords
  <2>1. name \in EventNames /\ 0 \in Int
    BY DEF EventNames, LetThrough
  <2>2. e \in AuditRecords
    BY <2>1, RecordTypes
  <2> QED
    BY <2>2 DEF Event
<1> HIDE DEF e
<1>2. /\ t \in Seq(AuditRecords) /\ Len(t) = Len(u) + 1 /\ t[Len(t)] = e /\ Len(u) \in Nat
      /\ \A k \in 1..Len(u) : t[k] = u[k]
      /\ DOMAIN u = 1..Len(u) /\ DOMAIN t = 1..(Len(u) + 1)
  BY <1>1
<1>3. audit' = audit \o t
  BY DEF e
<1> HIDE DEF t
<1>p. \A k \in 1..Len(u) :
        u[k].event \notin LetThrough /\ (u[k].scored => u[k].score = risk_score)
  BY <1>2 DEF Plain
<1>4. Extends(t)
  <2>1. \A k \in DOMAIN t : t[k].scored => t[k].score = risk_score
    BY <1>1, <1>2, <1>p
  <2> QED
    BY <1>2, <1>3, <2>1 DEF Extends
<1>5. t # <<>>
  BY <1>2
<1>6. \A k \in 1..(Len(t) - 1) : t[k].event \notin LetThrough
  BY <1>2, <1>p
<1>7. (\E k \in DOMAIN u : u[k].event = "approval_requested" /\ u[k].call = c) =>
        \E k \in DOMAIN t : t[k].event = "approval_requested" /\ t[k].call = c
  BY <1>2
<1>8. t[Len(t)].call = c /\ t[Len(t)].event = name
  BY <1>1, <1>2
<1> HIDE DEF Event
<1>9. Written(c, t)
  BY <1>5, <1>6, <1>7, <1>8 DEF Written
<1> QED
  BY <1>4, <1>9

TrailStep ==
  \/ \E t : Extends(t) /\ Unwritten(t)
  \/ \E c \in Calls : \E t : Extends(t) /\ Written(c, t)

LEMMA ConcludeTrail ==
  ASSUME TypeOK, NEW c \in Calls, NEW r \in CallStates, NEW o \in StageOutcomes,
         Decides(c, r, o), Conclude(c, r, o)
  PROVE  TrailStep
<1> DEFINE s == ApprovalRecord(c, o)
<1>1. s \in Seq(AuditRecords) /\ \A any : Plain(s, any)
  BY PlainApproval
<1>2. /\ risk_score \in Int /\ o.risk \in RiskEvents \cup {"none"} /\ audit \in Seq(AuditRecords)
      /\ call[c].stage = "undecided"
  BY DEF TypeOK, StageOutcomes, Outcomes, Decides
<1>3. o.approval => \E k \in DOMAIN s : s[k].event = "approval_requested" /\ s[k].call = c
  <2>1. SUFFICES ASSUME o.approval PROVE 1 \in DOMAIN s /\ s[1] = Event("approval_requested", c)
    BY DEF Event
  <2> QED
    BY <2>1 DEF ApprovalRecord
<1> HIDE DEF s
<1>4. CASE Refuse(c, r, o) /\ o.risk = "none"
  <2> DEFINE e == IF o.stage = "session_gate"
                  THEN ScoredEvent("denied_session_suspended", c, risk_score)
                  ELSE Event("tool_call_blocked", c)
  <2>1. audit' = audit \o s \o <<e>> /\ UNCHANGED <<suspended, risk_score, risk_events>>
        /\ sent' = sent
    BY <1>4 DEF Refuse, s
  <2>2. {"denied_session_suspended", "tool_call_blocked"} \subseteq EventNames \ LetThrough
    BY DEF EventNames, LetThrough
  <2>3. <<e>> \in Seq(AuditRecords) /\ Plain(<<e>>, risk_score)
    BY <1>2, <2>2, PlainEvents
  <2> HIDE DEF e
  <2>4. s \o <<e>> \in Seq(AuditRecords) /\ Plain(s \o <<e>>, risk_score)
    BY <1>1, <2>3, PlainConcat
  <2>5. audit' = audit \o (s \o <<e>>)
    BY <1>1, <1>2, <2>1, <2>3
  <2>6. \E u : Extends(u) /\ Unwritten(u)
    BY <2>1, <2>4, <2>5, PlainExtension
  <2> QED
    BY <2>6 DEF TrailStep
<1>5. CASE Refuse(c, r, o) /\ o.risk # "none"
  <2> DEFINE v == risk_score + Weights[o.risk]
             e == ScoredEvent("tool_call_blocked", c, v)
             q == SuspendedRecord(c, o.risk)
  <2>1. o.risk \in RiskEvents /\ risk_score' = v /\ audit' = audit \o s \o <<e>> \o q /\ sent' = sent
    BY <1>2, <1>5 DEF Refuse, Record, s
  <2>2. v \in Int /\ "tool_call_blocked" \in EventNames \ LetThrough
    BY <1>2, <2>1, ConstantsAssumption DEF EventNames, LetThrough
  <2>3. q \in Seq(AuditRecords) /\ Plain(q, v)
    BY <1>2, <2>1, PlainSuspension
  <2> HIDE DEF v, q
  <2>4. <<e>> \in Seq(AuditRecords) /\ Plain(<<e>>, v) /\ Reports(<<e>>)
    BY <2>2, PlainEvents
  <2> HIDE DEF e
  <2>5. s \o <<e>> \in Seq(AuditRecords) /\ Plain(s \o <<e>>, v) /\ Reports(s \o <<e>>)
    BY <1>1, <2>4, PlainConcat
  <2>6. /\ (s \o <<e>>) \o q \in Seq(AuditRecords) /\ Plain((s \o <<e>>) \o q, v)
        /\ Reports((s \o <<e>>) \o q)
    BY <2>3, <2>5, PlainConcat
  <2>7. audit' = audit \o ((s \o <<e>>) \o q)
    BY <1>1, <1>2, <2>1, <2>3, <2>4
  <2>8. \E u : Extends(u) /\ Unwritten(u)
    BY <2>1, <2>6, <2>7, PlainExtension
  <2> QED
    BY <2>8 DEF TrailStep
<1>6. (suspended /\ (Forward(c, r, o) \/ ForwardUnchecked(c, r, o))) =>
        call[c].phase = "approval" /\ o.approval
  BY DEF Decides, Forward, ForwardUnchecked, FailsOpen
<1>7. CASE ForwardUnchecked(c, r, o)
  <2> DEFINE name == "stage_error_fail_open"
  <2>1. /\ audit' = audit \o s \o <<Event(name, c)>> /\ sent' = Append(sent, c)
        /\ UNCHANGED <<suspended, risk_score, risk_events>>
        /\ Settle(c, r, "done", "fail_open", "raw")
    BY <1>7 DEF ForwardUnchecked, s
  <2>2. /\ call'[c].stage \in SentStages /\ call'[c].phase # "approval"
        /\ \A d \in Calls \ {c} : call'[d] = call[d]
    BY <2>1, SettleFields DEF SentStages
  <2>3. name \in LetThrough
    BY DEF LetThrough
  <2>4. Event(name, c) \in AuditRecords
    <3>1. name \in EventNames /\ 0 \in Int
      BY DEF EventNames
    <3> QED
      BY <3>1, RecordTypes
  <2> HIDE DEF name
  <2>5. audit' = audit \o (s \o <<Event(name, c)>>)
    <3>1. <<Event(name, c)>> \in Seq(AuditRecords)
      BY <2>4
    <3> QED
      BY <1>1, <1>2, <2>1, <3>1, ConcatTwice
  <2>6. \E t : Extends(t) /\ Written(c, t)
    BY <1>1, <1>2, <1>3, <1>6, <1>7, <2>1, <2>2, <2>3, <2>5, LastRecord
  <2> QED
    BY <2>6 DEF TrailStep
<1>8. CASE Forward(c, r, o)
  <2> DEFINE name == "tool_call_allowed"
             m == IF r.tool \in TaintSources /\ ~tainted
                  THEN <<Event("session_tainted", c)>> ELSE <<>>
             u == s \o m
  <2>1. /\ audit' = audit \o s \o m \o <<Event(name, c)>> /\ sent' = Append(sent, c)
        /\ UNCHANGED <<suspended, risk_score, risk_events>>
        /\ \E phase \in {"observing", "done"} : Settle(c, r, phase, "forwarded", o.out)
    BY <1>8 DEF Forward, Phase, s
  <2>2. /\ call'[c].stage \in SentStages /\ call'[c].phase # "approval"
        /\ \A d \in Calls \ {c} : call'[d] = call[d]
    BY <2>1, SettleFields DEF SentStages
  <2>3. /\ name \in LetThrough /\ name \in EventNames /\ 0 \in Int
        /\ "session_tainted" \in EventNames \ LetThrough
    BY DEF LetThrough, EventNames
  <2>4. Event(name, c) \in AuditRecords
    BY <2>3, RecordTypes
  <2>5. m \in Seq(AuditRecords) /\ Plain(m, risk_score)
    BY <2>3, PlainEvents
  <2> HIDE DEF name, m
  <2>6. u \in Seq(AuditRecords) /\ Plain(u, risk_score)
    BY <1>1, <2>5, PlainConcat
  <2>7. audit' = audit \o (u \o <<Event(name, c)>>)
    <3>1. /\ audit \in Seq(AuditRecords) /\ u \in Seq(AuditRecords)
          /\ <<Event(name, c)>> \in Seq(AuditRecords)
      BY <1>1, <1>2, <2>4, <2>6
    <3>2. audit \o s \o m = audit \o u
      BY <1>1, <1>2, <2>5, ConcatTwice
    <3>3. audit \o u \o <<Event(name, c)>> = audit \o (u \o <<Event(name, c)>>)
      BY <3>1, ConcatTwice
    <3> QED
      BY <2>1, <3>2, <3>3
  <2>8. (\E k \in DOMAIN s : s[k].event = "approval_requested" /\ s[k].call = c) =>
          \E k \in DOMAIN u : u[k].event = "approval_requested" /\ u[k].call = c
    <3>1. \A k \in DOMAIN s : k \in DOMAIN u /\ u[k] = s[k]
      BY <1>1, <2>5
    <3> QED
      BY <3>1
  <2> HIDE DEF u
  <2>9. \E t : Extends(t) /\ Written(c, t)
    BY <1>2, <1>3, <1>6, <1>8, <2>1, <2>2, <2>3, <2>6, <2>7, <2>8, LastRecord
  <2> QED
    BY <2>9 DEF TrailStep
<1> QED
  BY <1>4, <1>5, <1>7, <1>8 DEF Conclude

\* A step that appends at most one plain, unscored record.
LEMMA AppendTrail ==
  ASSUME TypeOK, NEW c \in Calls, NEW name \in EventNames \ LetThrough,
         audit' = audit \/ audit' = Append(audit, Event(name, c)),
         sent' = sent, risk_score' = risk_score, risk_events' = risk_events
  PROVE  TrailStep
<1>1. 0 \in Int
  OBVIOUS
<1>2. /\ <<Event(name, c)>> \in Seq(AuditRecords) /\ Plain(<<Event(name, c)>>, risk_score)
      /\ <<>> \in Seq(AuditRecords) /\ Plain(<<>>, risk_score)
  BY <1>1, PlainEvents
<1>3. Event(name, c) \in AuditRecords /\ audit \in Seq(AuditRecords)
  BY <1>1, RecordTypes DEF TypeOK
<1>4. audit' = audit \o <<>> \/ audit' = audit \o <<Event(name, c)>>
  BY <1>3
<1>5. \E t : Extends(t) /\ Unwritten(t)
  BY <1>2, <1>4, PlainExtension
<1> QED
  BY <1>5 DEF TrailStep

\* A step that scores one event and reports it in a trail of its own.
LEMMA ScoredTrail ==
  ASSUME TypeOK, NEW c \in Calls, NEW event \in RiskEvents, Record(c, event), sent' = sent,
         NEW name \in EventNames \ LetThrough,
         LET e == <<ScoredEvent(name, c, risk_score + Weights[event])>>
         IN  \/ audit' = audit \o e \o SuspendedRecord(c, event)
             \/ audit' = audit \o SuspendedRecord(c, event) \o e
  PROVE  TrailStep
<1> DEFINE v == risk_score + Weights[event]
           e == <<ScoredEvent(name, c, v)>>
           q == SuspendedRecord(c, event)
<1>a. risk_score \in Int /\ audit \in Seq(AuditRecords)
  BY DEF TypeOK
<1>b. Weights[event] \in Int
  BY ConstantsAssumption
<1>c. v \in Int
  BY <1>a, <1>b
<1>d. risk_score' = v
  BY DEF Record
<1>e. audit' = audit \o e \o q \/ audit' = audit \o q \o e
  OBVIOUS
<1>1. /\ v \in Int /\ risk_score \in Int /\ audit \in Seq(AuditRecords) /\ risk_score' = v
      /\ audit' = audit \o e \o q \/ audit' = audit \o q \o e
  BY <1>a, <1>c, <1>d, <1>e
<1>2. q \in Seq(AuditRecords) /\ Plain(q, v)
  BY <1>1, PlainSuspension
<1> HIDE DEF v, q
<1>3. e \in Seq(AuditRecords) /\ Plain(e, v) /\ Reports(e)
  BY <1>1, PlainEvents
<1> HIDE DEF e
<1>4. /\ e \o q \in Seq(AuditRecords) /\ Plain(e \o q, v) /\ Reports(e \o q)
      /\ q \o e \in Seq(AuditRecords) /\ Plain(q \o e, v) /\ Reports(q \o e)
  BY <1>2, <1>3, PlainConcat
<1>5. audit' = audit \o (e \o q) \/ audit' = audit \o (q \o e)
  <2>1. /\ audit \in Seq(AuditRecords) /\ e \in Seq(AuditRecords) /\ q \in Seq(AuditRecords)
    BY <1>1, <1>2, <1>3
  <2>3. audit \o e \o q = audit \o (e \o q)
    BY <2>1, ConcatTwice
  <2>4. audit \o q \o e = audit \o (q \o e)
    BY <2>1, ConcatTwice
  <2> QED
    BY <1>1, <2>3, <2>4
<1>6. \E t : Extends(t) /\ Unwritten(t)
  BY <1>1, <1>4, <1>5, PlainExtension
<1> QED
  BY <1>6 DEF TrailStep

LEMMA TrailSteps ==
  ASSUME TypeOK, DecidedOnce, WaitingPassed, [Next]_vars
  PROVE  TrailStep
<1>1. ASSUME NEW c \in Calls, NEW r \in CallStates, NEW o \in StageOutcomes, Decides(c, r, o),
             Conclude(c, r, o)
      PROVE  TrailStep
  BY <1>1, ConcludeTrail
<1>2. ASSUME UNCHANGED <<audit, sent, risk_score, risk_events>>
      PROVE  TrailStep
  <2>1. <<>> \in Seq(AuditRecords) /\ Plain(<<>>, risk_score) /\ audit' = audit \o <<>>
    BY <1>2 DEF Plain, TypeOK
  <2>2. \E t : Extends(t) /\ Unwritten(t)
    BY <1>2, <2>1, PlainExtension
  <2> QED
    BY <2>2 DEF TrailStep
<1>3. ASSUME NEW c \in Calls, NEW m \in Methods, NEW i \in Ids \cup {NoId}, Passthrough(c, m, i)
      PROVE  TrailStep
  <2>1. call[c].stage = "undecided"
    BY <1>3 DEF Passthrough, MaySend, DecidedOnce
  <2>2. \E r : Settle(c, r, "done", "passthrough", "raw")
    BY <1>3 DEF Passthrough
  <2>3. call'[c].stage \in SentStages
    BY <2>2, SettleFields DEF SentStages
  <2>4. PICK name \in {"passthrough_opaque", "passthrough_request"} :
          audit' = Append(audit, Event(name, c))
    BY <1>3 DEF Passthrough
  <2>5. sent' = Append(sent, c) /\ UNCHANGED <<suspended, risk_score, risk_events>>
    BY <1>3 DEF Passthrough, session
  <2>6. name \in LetThrough /\ name \notin CallDecisions /\ name \in EventNames /\ 0 \in Int
    BY DEF LetThrough, CallDecisions, EventNames
  <2>7. Event(name, c) \in AuditRecords /\ audit \in Seq(AuditRecords)
    BY <2>6, RecordTypes DEF TypeOK
  <2>8. audit' = audit \o (<<>> \o <<Event(name, c)>>)
    BY <2>4, <2>7
  <2>9. <<>> \in Seq(AuditRecords) /\ Plain(<<>>, risk_score)
    BY DEF Plain
  <2>10. \E t : Extends(t) /\ Written(c, t)
    BY <2>1, <2>3, <2>5, <2>6, <2>8, <2>9, LastRecord
  <2> QED
    BY <2>10 DEF TrailStep
<1>4. ASSUME NEW c \in Calls, NEW v \in Verdicts, AnomalyReturns(c, v)
      PROVE  TrailStep
  <2>1. CASE v = "none"
    BY <1>2, <1>4, <2>1 DEF AnomalyReturns
  <2>2. CASE v # "none"
    <3>1. v \in RiskEvents /\ "anomaly_detected" \in EventNames \ LetThrough
      BY <2>2, ConstantsAssumption DEF Verdicts, RiskEvents, EventNames, LetThrough
    <3>2. /\ Record(c, v) /\ sent' = sent
          /\ audit' = audit \o <<ScoredEvent("anomaly_detected", c, risk_score + Weights[v])>>
                        \o SuspendedRecord(c, v)
      BY <1>4, <2>2 DEF AnomalyReturns
    <3> QED
      BY <3>1, <3>2, ScoredTrail
  <2> QED
    BY <2>1, <2>2
<1>5. ASSUME NEW c \in Calls, NEW e \in BOOLEAN, UpstreamResponse(c, e)
      PROVE  TrailStep
  <2> DEFINE p == pending[call[c].id]
  <2>1. p \in PendingCalls \cup {NoPending}
    BY <1>5 DEF UpstreamResponse, TypeOK, CallStates
  <2>2. UNCHANGED <<sent, risk_score, risk_events>>
    BY <1>5 DEF UpstreamResponse
  <2>3. CASE p # NoPending
    <3>1. p.call \in Calls
      BY <2>1, <2>3 DEF PendingCalls
    <3>2. \E name \in EventNames \ LetThrough :
            audit' = audit \/ audit' = Append(audit, Event(name, p.call))
      BY <1>5, <2>3 DEF UpstreamResponse, DeliverToolResult, EventNames, LetThrough
    <3> HIDE DEF p
    <3> QED
      BY <2>2, <3>1, <3>2, AppendTrail
  <2>4. CASE p = NoPending
    <3>1. \E name \in EventNames \ LetThrough :
            audit' = audit \/ audit' = Append(audit, Event(name, c))
      BY <1>5, <2>4 DEF UpstreamResponse, EventNames, LetThrough
    <3> HIDE DEF p
    <3> QED
      BY <2>2, <3>1, AppendTrail
  <2> QED
    BY <2>3, <2>4
<1>6. ASSUME NEW c \in Calls, NEW m \in {ServerRequest, Opaque}, UpstreamSpeaks(c, m)
      PROVE  TrailStep
  <2>1. call[c].stage = "undecided"
    BY <1>6 DEF UpstreamSpeaks, DecidedOnce
  <2>2. \E r : Settle(c, r, "done", "passthrough", "raw")
    BY <1>6 DEF UpstreamSpeaks
  <2>3. call'[c].stage = "passthrough"
    BY <2>2, SettleFields
  <2>4. PICK name \in {"passthrough_opaque", "upstream_request"} :
          audit' = Append(audit, Event(name, c))
    BY <1>6 DEF UpstreamSpeaks
  <2>5. UNCHANGED <<sent, risk_score, risk_events>>
    BY <1>6 DEF UpstreamSpeaks, session
  <2>6. name \notin CallDecisions /\ name \in EventNames /\ 0 \in Int
    BY DEF CallDecisions, EventNames
  <2> DEFINE e == Event(name, c)
             t == <<e>>
  <2>7. e \in AuditRecords /\ e.event = name /\ e.call = c /\ ~e.scored
    <3>1. e \in AuditRecords
      BY <2>6, RecordTypes
    <3> QED
      BY <3>1 DEF Event
  <2>8. audit' = Append(audit, e) /\ audit \in Seq(AuditRecords)
    BY <2>4 DEF TypeOK
  <2> HIDE DEF e
  <2>9. t \in Seq(AuditRecords) /\ audit' = audit \o t /\ \A k \in DOMAIN t : t[k] = e
    BY <2>7, <2>8
  <2> HIDE DEF t
  <2>10. Extends(t)
    BY <2>5, <2>7, <2>9 DEF Extends
  <2>11. Unwritten(t)
    BY <2>1, <2>3, <2>5, <2>6, <2>7, <2>9 DEF Unwritten
  <2> QED
    BY <2>10, <2>11 DEF TrailStep
<1>7. ASSUME NEW res \in {"light", "heavy", "failed"}, RedactionReturns(res)
      PROVE  TrailStep
  <2> DEFINE p == scanning.pending
  <2>1. p \in Calls
    BY <1>7 DEF RedactionReturns, TypeOK
  <2>2. CASE res # "heavy"
    <3>1. \E name \in EventNames \ LetThrough : audit' = Append(audit, Event(name, p))
      BY <1>7, <2>2 DEF RedactionReturns, ScanFailure, EventNames, LetThrough
    <3>2. UNCHANGED <<sent, risk_score, risk_events>>
      BY <1>7, <2>2 DEF RedactionReturns
    <3> HIDE DEF p
    <3> QED
      BY <2>1, <3>1, <3>2, AppendTrail
  <2>3. CASE res = "heavy"
    <3> DEFINE h == "heavy_redaction"
    <3>1. /\ Record(p, h) /\ sent' = sent
          /\ audit' = audit \o SuspendedRecord(p, h)
               \o <<ScoredEvent("tool_result_redacted", p, risk_score + Weights[h])>>
      BY <1>7, <2>3 DEF RedactionReturns
    <3>2. h \in RiskEvents /\ "tool_result_redacted" \in EventNames \ LetThrough
      BY DEF RiskEvents, EventNames, LetThrough
    <3> HIDE DEF p, h
    <3> QED
      BY <2>1, <3>1, <3>2, ScoredTrail
  <2> QED
    BY <2>2, <2>3
<1>8. ASSUME NEW c \in Calls, NEW r, NEW o, AwaitApproval(c, r, o)
      PROVE  TrailStep
  BY <1>2, <1>8 DEF AwaitApproval, session
<1>9. CASE UNCHANGED vars
  BY <1>2, <1>9 DEF vars, session
<1> QED
  BY <1>1, <1>3, <1>4, <1>5, <1>6, <1>7, <1>8, <1>9, Steps

\* Where the old and the new records of the extended trail are.
LEMMA ExtendedTrail ==
  ASSUME TypeOK, NEW t, Extends(t)
  PROVE  /\ Len(audit) \in Nat /\ Len(t) \in Nat /\ Len(audit') = Len(audit) + Len(t)
         /\ DOMAIN audit = 1..Len(audit) /\ DOMAIN t = 1..Len(t)
         /\ DOMAIN audit' = 1..(Len(audit) + Len(t))
         /\ \A k \in DOMAIN audit : audit'[k] = audit[k]
         /\ \A k \in DOMAIN t : audit'[Len(audit) + k] = t[k]
         /\ \A k \in DOMAIN audit' \ DOMAIN audit :
              k - Len(audit) \in DOMAIN t /\ audit'[k] = t[k - Len(audit)]
BY DEF Extends, TypeOK

---------------------------------------------------------------------------
(* The score the trail reports. *)

LEMMA ScoreStep ==
  ASSUME TypeOK, TrailScoreIsLive, NEW t, Extends(t)
  PROVE  TrailScoreIsLive'
<1>1. /\ Len(audit) \in Nat /\ Len(t) \in Nat /\ Len(audit') = Len(audit) + Len(t)
      /\ DOMAIN audit = 1..Len(audit) /\ DOMAIN t = 1..Len(t)
      /\ DOMAIN audit' = 1..(Len(audit) + Len(t))
      /\ \A k \in DOMAIN audit : audit'[k] = audit[k]
      /\ \A k \in DOMAIN t : audit'[Len(audit) + k] = t[k]
      /\ \A k \in DOMAIN audit' \ DOMAIN audit :
           k - Len(audit) \in DOMAIN t /\ audit'[k] = t[k - Len(audit)]
  BY ExtendedTrail
<1>2. /\ \A k \in DOMAIN t : t[k].scored => t[k].score = risk_score'
      /\ (risk_score' = risk_score /\ risk_events' = risk_events) \/ Reports(t)
  BY DEF Extends
<1>3. ASSUME Reports(t)
      PROVE  \E k \in DOMAIN audit' \ DOMAIN audit : audit'[k].scored
  <2>1. PICK k \in DOMAIN t : t[k].scored
    BY <1>3 DEF Reports
  <2>2. Len(audit) + k \in DOMAIN audit' \ DOMAIN audit /\ audit'[Len(audit) + k] = t[k]
    BY <1>1
  <2> QED
    BY <2>1, <2>2
<1>4. risk_events' # <<>> => \E k \in DOMAIN audit' : audit'[k].scored
  <2>1. CASE Reports(t)
    BY <1>3, <2>1
  <2>2. CASE risk_events' = risk_events
    <3>1. DOMAIN audit \subseteq DOMAIN audit'
      BY <1>1
    <3> QED
      BY <1>1, <2>2, <3>1 DEF TrailScoreIsLive
  <2> QED
    BY <1>2, <2>1, <2>2
<1>5. ASSUME NEW k \in DOMAIN audit', audit'[k].scored,
             \A j \in (k + 1)..Len(audit') : ~audit'[j].scored
      PROVE  audit'[k].score = risk_score'
  <2>1. CASE k \notin DOMAIN audit
    BY <1>1, <1>2, <1>5, <2>1
  <2>2. CASE k \in DOMAIN audit
    <3>1. ~Reports(t)
      <4>1. \A j \in DOMAIN audit' \ DOMAIN audit : j \in (k + 1)..Len(audit')
        BY <1>1, <2>2
      <4> QED
        BY <1>3, <1>5, <4>1
    <3>2. risk_score' = risk_score /\ audit'[k] = audit[k]
      BY <1>1, <1>2, <2>2, <3>1
    <3>3. \A j \in (k + 1)..Len(audit) : ~audit[j].scored
      <4>1. \A j \in (k + 1)..Len(audit) : j \in (k + 1)..Len(audit') /\ j \in DOMAIN audit
        BY <1>1, <2>2
      <4> QED
        BY <1>1, <1>5, <4>1
    <3> QED
      BY <1>5, <2>2, <3>2, <3>3 DEF TrailScoreIsLive
  <2> QED
    BY <2>1, <2>2
<1> QED
  BY <1>4, <1>5 DEF TrailScoreIsLive

\* For all integer weights and every interleaving, the last score the trail
\* reports is the session's: a reader of the trail sees the live score.
THEOREM TrailShowsTheScore == Spec => []TrailScoreIsLive
<1>1. Init => DecidedOnce /\ WaitingPassed /\ TrailScoreIsLive
  BY DEF Init, DecidedOnce, WaitingPassed, TrailScoreIsLive, NewCall
<1>2. TypeOK /\ DecidedOnce /\ WaitingPassed /\ TrailScoreIsLive /\ [Next]_vars
        => DecidedOnce' /\ WaitingPassed' /\ TrailScoreIsLive'
  BY DecidedOnceStep, WaitingStep, TrailSteps, ScoreStep DEF TrailStep
<1> QED
  BY <1>1, <1>2, TypeCorrect, PTL DEF Spec

---------------------------------------------------------------------------
(* The trail against the wire. *)

\* What a record says was let through has been decided, so a call still to be
\* written has no such record yet.
RecordsAreDecided ==
  \A k \in DOMAIN audit : audit[k].event \in LetThrough => call[audit[k].call].stage # "undecided"

LEMMA DecidedRecordsStep ==
  ASSUME TypeOK, DecidedOnce, WaitingPassed, RecordsAreDecided, [Next]_vars
  PROVE  RecordsAreDecided'
<1>1. \A d \in Calls : call[d].stage # "undecided" => call'[d].stage # "undecided"
  BY DecisionsStay
<1>2. \A k \in DOMAIN audit : audit[k].call \in Calls
  <2>1. audit \in Seq(AuditRecords)
    BY DEF TypeOK
  <2>2. \A k \in DOMAIN audit : audit[k] \in AuditRecords
    BY <2>1
  <2> QED
    BY <2>2 DEF AuditRecords
<1>3. ASSUME NEW t, Extends(t),
             \A k \in DOMAIN t : t[k].event \in LetThrough => call'[t[k].call].stage # "undecided"
      PROVE  RecordsAreDecided'
  <2>1. /\ \A k \in DOMAIN audit : audit'[k] = audit[k]
        /\ \A k \in DOMAIN audit' \ DOMAIN audit :
             k - Len(audit) \in DOMAIN t /\ audit'[k] = t[k - Len(audit)]
    BY <1>3, ExtendedTrail
  <2> QED
    BY <1>1, <1>2, <1>3, <2>1 DEF RecordsAreDecided
<1>4. ASSUME NEW t, Extends(t), Unwritten(t)
      PROVE  RecordsAreDecided'
  BY <1>3, <1>4 DEF Unwritten
<1>5. ASSUME NEW c \in Calls, NEW t, Extends(t), Written(c, t)
      PROVE  RecordsAreDecided'
  <2>1. DOMAIN t = 1..Len(t) /\ Len(t) \in Nat
    BY <1>5, ExtendedTrail
  <2>2. \A k \in DOMAIN t : t[k].event \in LetThrough => k = Len(t)
    BY <1>5, <2>1 DEF Written
  <2>3. t[Len(t)].call = c /\ call'[c].stage # "undecided"
    BY <1>5 DEF Written, SentStages
  <2> QED
    BY <1>3, <1>5, <2>2, <2>3
<1> QED
  BY <1>4, <1>5, TrailSteps DEF TrailStep

LEMMA WireMatchStep ==
  ASSUME TypeOK, DecidedOnce, WaitingPassed, RecordsAreDecided, TrailMatchesWire, [Next]_vars
  PROVE  TrailMatchesWire'
<1>a. sent \in Seq(Calls)
  BY DEF TypeOK
<1>b. \A j \in DOMAIN sent : sent[j] \in Calls
  BY <1>a
<1>c. \A j \in DOMAIN sent : call[sent[j]].stage \in SentStages
  BY DEF DecidedOnce
<1>d. \A j \in DOMAIN sent : call[sent[j]].stage # "undecided"
  BY <1>c DEF SentStages
<1>1. /\ sent \in Seq(Calls) /\ \A j \in DOMAIN sent : sent[j] \in Calls
      /\ \A j \in DOMAIN sent : call[sent[j]].stage # "undecided"
  BY <1>a, <1>b, <1>d
<1>2. ASSUME NEW t, Extends(t), Unwritten(t)
      PROVE  TrailMatchesWire'
  <2>1. /\ DOMAIN audit \subseteq DOMAIN audit'
        /\ \A k \in DOMAIN audit : audit'[k] = audit[k]
        /\ \A k \in DOMAIN audit' \ DOMAIN audit :
             k - Len(audit) \in DOMAIN t /\ audit'[k] = t[k - Len(audit)]
    BY <1>2, ExtendedTrail
  <2>2. sent' = sent /\ Range(sent)' = Range(sent)
    BY <1>2 DEF Unwritten, Range
  <2>3. \A k \in DOMAIN t : t[k].event \in LetThrough => t[k].call \notin Range(sent)
    BY <1>1, <1>2 DEF Unwritten, Range
  <2>4. Through' = Through
    BY <2>1, <2>2, <2>3 DEF Through
  <2>5. \A k \in Through : audit'[k] = audit[k]
    BY <2>1 DEF Through
  <2> QED
    BY <2>2, <2>4, <2>5 DEF TrailMatchesWire
<1>3. ASSUME NEW c \in Calls, NEW t, Extends(t), Written(c, t)
      PROVE  TrailMatchesWire'
  <2>1. /\ Len(audit) \in Nat /\ Len(t) \in Nat /\ Len(audit') = Len(audit) + Len(t)
        /\ DOMAIN audit = 1..Len(audit) /\ DOMAIN t = 1..Len(t)
        /\ DOMAIN audit' = 1..(Len(audit) + Len(t))
        /\ \A k \in DOMAIN audit : audit'[k] = audit[k]
        /\ \A k \in DOMAIN t : audit'[Len(audit) + k] = t[k]
        /\ \A k \in DOMAIN audit' \ DOMAIN audit :
             k - Len(audit) \in DOMAIN t /\ audit'[k] = t[k - Len(audit)]
    BY <1>3, ExtendedTrail
  <2>2. /\ sent' = Append(sent, c) /\ call[c].stage = "undecided"
        /\ t # <<>> /\ t[Len(t)].call = c /\ t[Len(t)].event \in LetThrough
        /\ \A k \in 1..(Len(t) - 1) : t[k].event \notin LetThrough
        /\ t \in Seq(AuditRecords)
    BY <1>3 DEF Written, Extends
  <2>3. /\ DOMAIN sent' = 1..(Len(sent) + 1) /\ DOMAIN sent = 1..Len(sent) /\ Len(sent) \in Nat
        /\ \A j \in DOMAIN sent : sent'[j] = sent[j]
        /\ sent'[Len(sent) + 1] = c
    BY <1>1, <2>2
  <2>4. Range(sent') = Range(sent) \cup {c} /\ c \notin Range(sent)
    <3>1. Range(sent') = {sent'[j] : j \in 1..(Len(sent) + 1)} /\ Range(sent) = {sent[j] : j \in 1..Len(sent)}
      BY <2>3 DEF Range
    <3>2. 1..(Len(sent) + 1) = 1..Len(sent) \cup {Len(sent) + 1}
      BY <2>3
    <3>3. \A x : x \in Range(sent') <=> x \in Range(sent) \cup {c}
      BY <2>3, <3>1, <3>2
    <3>4. c \notin Range(sent)
      BY <1>1, <2>2 DEF Range
    <3> QED
      BY <3>3, <3>4
  <2> DEFINE n == Len(audit) + Len(t)
  <2>5. Len(t) >= 1 /\ n \in DOMAIN audit' /\ n \notin DOMAIN audit /\ audit'[n] = t[Len(t)]
    BY <2>1, <2>2
  <2>6. \A k \in DOMAIN audit : audit[k].event \in LetThrough => audit[k].call # c
    BY <2>2 DEF RecordsAreDecided
  <2>7. ASSUME NEW k \in DOMAIN audit' \ DOMAIN audit, audit'[k].event \in LetThrough
        PROVE  k = n
    <3>1. k - Len(audit) \in 1..Len(t) /\ t[k - Len(audit)].event \in LetThrough /\ k \in Nat
      BY <2>1, <2>7
    <3>2. k - Len(audit) \notin 1..(Len(t) - 1)
      BY <2>2, <3>1
    <3> QED
      BY <2>1, <3>1, <3>2
  <2>8. Through' = Through \cup {n}
    <3>1. \A k \in DOMAIN audit : k \in Through' <=> k \in Through
      BY <2>1, <2>4, <2>5, <2>6 DEF Through
    <3>2. n \in Through'
      BY <2>2, <2>4, <2>5 DEF Through
    <3>3. \A k \in Through' : k \in DOMAIN audit \/ k = n
      BY <2>7 DEF Through
    <3>4. Through \subseteq DOMAIN audit
      BY DEF Through
    <3> HIDE DEF n
    <3> QED
      BY <3>1, <3>2, <3>3, <3>4
  <2>9. \A k \in Through : k < n /\ k \in Nat /\ audit'[k] = audit[k] /\ audit[k].call # c
    BY <2>1, <2>5, <2>6 DEF Through
  <2>10. \A j \in DOMAIN sent : j < Len(sent) + 1 /\ j \in Nat /\ sent[j] # c /\ sent'[j] = sent[j]
    BY <2>3, <2>4 DEF Range
  <2>11. audit'[n].call = c /\ n \in Nat
    BY <2>1, <2>2, <2>5
  <2> HIDE DEF n
  <2>12. \A j \in DOMAIN sent' : \E k \in Through' : audit'[k].call = sent'[j]
    BY <2>3, <2>8, <2>9, <2>11 DEF TrailMatchesWire
  <2>13. ASSUME NEW k \in Through', NEW l \in Through', NEW i \in DOMAIN sent',
                NEW j \in DOMAIN sent', audit'[k].call = sent'[i], audit'[l].call = sent'[j]
         PROVE  k < l <=> i < j
    <3>1. k = n <=> i = Len(sent) + 1
      BY <2>3, <2>8, <2>9, <2>10, <2>11, <2>13
    <3>2. l = n <=> j = Len(sent) + 1
      BY <2>3, <2>8, <2>9, <2>10, <2>11, <2>13
    <3>3. CASE k = n \/ l = n
      BY <2>3, <2>8, <2>9, <2>10, <2>11, <3>1, <3>2, <3>3
    <3>4. CASE k # n /\ l # n
      BY <2>3, <2>8, <2>9, <2>10, <2>13, <3>1, <3>2, <3>4 DEF TrailMatchesWire
    <3> QED
      BY <3>3, <3>4
  <2> QED
    BY <2>12, <2>13 DEF TrailMatchesWire
<1> QED
  BY <1>2, <1>3, TrailSteps DEF TrailStep

\* The trail and the wire agree, for every policy, posture and set of clients:
\* each request written to the upstream has one record as let through, and the
\* records are in the order of the writes.
THEOREM TrailIsTheWire == Spec => []TrailMatchesWire
<1>1. Init => DecidedOnce /\ WaitingPassed /\ RecordsAreDecided /\ TrailMatchesWire
  BY DEF Init, DecidedOnce, WaitingPassed, RecordsAreDecided, TrailMatchesWire, Through, NewCall
<1>2. TypeOK /\ DecidedOnce /\ WaitingPassed /\ RecordsAreDecided /\ TrailMatchesWire /\ [Next]_vars
        => DecidedOnce' /\ WaitingPassed' /\ RecordsAreDecided' /\ TrailMatchesWire'
  BY DecidedOnceStep, WaitingStep, DecidedRecordsStep, WireMatchStep
<1> QED
  BY <1>1, <1>2, TypeCorrect, PTL DEF Spec

---------------------------------------------------------------------------
(* Calls let through a suspended session. *)

LEMMA NoSuspensionNoStraggler ==
  ASSUME SuspensionAccounted, ~suspended
  PROVE  Stragglers = {}
BY DEF SuspensionAccounted, Stragglers

\* Call c leaves the approval channel through a suspended session: the one record
\* that can join the stragglers.
Straggles(c) ==
  /\ call[c].phase = "approval" /\ call'[c].phase # "approval"
  /\ \A d \in Calls \ {c} : call'[d] = call[d]
  /\ Stragglers' \subseteq Stragglers \cup {Len(audit')}
  /\ audit'[Len(audit')].call = c
  /\ \E k \in DOMAIN audit' : audit'[k].event = "approval_requested" /\ audit'[k].call = c

LEMMA StragglersGrow ==
  ASSUME TypeOK, DecidedOnce, WaitingPassed, SuspensionAccounted, [Next]_vars
  PROVE  /\ DOMAIN audit \subseteq DOMAIN audit' /\ \A k \in DOMAIN audit : audit'[k] = audit[k]
         /\ Stragglers' \subseteq Stragglers \/ \E c \in Calls : Straggles(c)
<1> DEFINE Trailed == /\ DOMAIN audit \subseteq DOMAIN audit'
                      /\ \A k \in DOMAIN audit : audit'[k] = audit[k]
<1>1. SuspensionAccounted'
  BY AccountedStep
<1>2. ASSUME NEW t, Extends(t), NEW k \in Stragglers', k \in DOMAIN audit
      PROVE  k \in Stragglers
  <2>1. /\ DOMAIN audit = 1..Len(audit) /\ DOMAIN audit' = 1..(Len(audit) + Len(t))
        /\ Len(audit) \in Nat /\ Len(t) \in Nat
        /\ \A j \in DOMAIN audit : audit'[j] = audit[j]
    BY <1>2, ExtendedTrail
  <2>2. PICK j \in DOMAIN audit' : audit'[j].event = "session_suspended" /\ j < k
    BY <1>2 DEF Stragglers, SuspensionRecords, SuspensionsIn
  <2>3. j \in DOMAIN audit
    BY <1>2, <2>1, <2>2
  <2>4. audit[k].event \in {"tool_call_allowed", "stage_error_fail_open"}
    BY <1>2, <2>1 DEF Stragglers
  <2> QED
    BY <1>2, <2>1, <2>2, <2>3, <2>4 DEF Stragglers, SuspensionRecords, SuspensionsIn
<1>3. ASSUME NEW t, Extends(t)
      PROVE  Trailed
  BY <1>3, ExtendedTrail
<1>4. ASSUME NEW t, Extends(t), NEW k \in Stragglers', k \notin DOMAIN audit
      PROVE  k - Len(audit) \in DOMAIN t /\ t[k - Len(audit)].event \in CallDecisions
  <2>1. \A j \in DOMAIN audit' \ DOMAIN audit :
          j - Len(audit) \in DOMAIN t /\ audit'[j] = t[j - Len(audit)]
    BY <1>4, ExtendedTrail
  <2>2. k \in DOMAIN audit' /\ audit'[k].event \in CallDecisions
    BY <1>4 DEF Stragglers, CallDecisions
  <2> QED
    BY <1>4, <2>1, <2>2
<1>5. ASSUME NEW t, Extends(t), Unwritten(t)
      PROVE  Stragglers' \subseteq Stragglers
  <2>1. \A k \in Stragglers' : k \in DOMAIN audit
    BY <1>4, <1>5 DEF Unwritten, CallDecisions, LetThrough
  <2> QED
    BY <1>2, <1>5, <2>1
<1>6. ASSUME NEW c \in Calls, NEW t, Extends(t), Written(c, t)
      PROVE  Stragglers' \subseteq Stragglers \/ Straggles(c)
  <2>1. CASE ~suspended
    <3>1. ~suspended'
      BY <1>6, <2>1 DEF Written
    <3>2. Stragglers' = {}
      BY <1>1, <3>1 DEF SuspensionAccounted, Stragglers
    <3> QED
      BY <3>2
  <2>2. /\ Len(audit) \in Nat /\ Len(t) \in Nat /\ Len(audit') = Len(audit) + Len(t)
        /\ DOMAIN t = 1..Len(t)
        /\ \A k \in DOMAIN t : audit'[Len(audit) + k] = t[k]
        /\ DOMAIN audit' = 1..(Len(audit) + Len(t))
    BY <1>6, ExtendedTrail
  <2>3. \A k \in DOMAIN t : t[k].event \in CallDecisions => k = Len(t)
    <3>1. \A k \in 1..(Len(t) - 1) : t[k].event \notin LetThrough
      BY <1>6 DEF Written
    <3>2. CallDecisions \subseteq LetThrough
      BY DEF CallDecisions, LetThrough
    <3> QED
      BY <2>2, <3>1, <3>2
  <2>4. CASE t[Len(t)].event \notin CallDecisions
    <3>1. \A k \in Stragglers' : k \in DOMAIN audit
      BY <1>4, <1>6, <2>3, <2>4
    <3> QED
      BY <1>2, <1>6, <3>1
  <2>5. CASE suspended /\ t[Len(t)].event \in CallDecisions
    <3>1. /\ call[c].phase = "approval" /\ call'[c].phase # "approval"
          /\ \A d \in Calls \ {c} : call'[d] = call[d]
          /\ \E k \in DOMAIN t : t[k].event = "approval_requested" /\ t[k].call = c
          /\ t # <<>> /\ t[Len(t)].call = c /\ t \in Seq(AuditRecords)
      BY <1>6, <2>5 DEF Written, Extends
    <3>2. Len(t) \in DOMAIN t
      BY <3>1
    <3>3. audit'[Len(audit')].call = c
      BY <2>2, <3>1, <3>2
    <3>4. \E k \in DOMAIN audit' : audit'[k].event = "approval_requested" /\ audit'[k].call = c
      <4>1. PICK k \in DOMAIN t : t[k].event = "approval_requested" /\ t[k].call = c
        BY <3>1
      <4>2. Len(audit) + k \in DOMAIN audit' /\ audit'[Len(audit) + k] = t[k]
        BY <2>2
      <4> QED
        BY <4>1, <4>2
    <3>5. ASSUME NEW k \in Stragglers'
          PROVE  k \in Stragglers \cup {Len(audit')}
      <4>1. CASE k \in DOMAIN audit
        BY <1>2, <1>6, <4>1
      <4>2. CASE k \notin DOMAIN audit
        <5>1. k - Len(audit) = Len(t) /\ k \in DOMAIN audit'
          BY <1>4, <1>6, <2>3, <4>2 DEF Stragglers
        <5> QED
          BY <2>2, <5>1
      <4> QED
        BY <4>1, <4>2
    <3> QED
      BY <3>1, <3>3, <3>4, <3>5 DEF Straggles
  <2> QED
    BY <2>1, <2>4, <2>5
<1> HIDE DEF Trailed
<1>7. Trailed
  BY <1>3, TrailSteps DEF TrailStep
<1>8. Stragglers' \subseteq Stragglers \/ \E c \in Calls : Straggles(c)
  BY <1>5, <1>6, TrailSteps DEF TrailStep
<1> QED
  BY <1>7, <1>8 DEF Trailed

LEMMA ApprovedStep ==
  ASSUME TypeOK, DecidedOnce, WaitingPassed, SuspensionAccounted, StragglersWereApproved,
         [Next]_vars
  PROVE  StragglersWereApproved'
<1>1. /\ DOMAIN audit \subseteq DOMAIN audit' /\ \A k \in DOMAIN audit : audit'[k] = audit[k]
      /\ Stragglers' \subseteq Stragglers \/ \E c \in Calls : Straggles(c)
  BY StragglersGrow
<1>2. \A k \in Stragglers : k \in DOMAIN audit /\ \E j \in DOMAIN audit' :
        audit'[j].event = "approval_requested" /\ audit'[j].call = audit'[k].call
  BY <1>1 DEF StragglersWereApproved, Recorded, Stragglers
<1>3. \A k \in Stragglers' : \E j \in DOMAIN audit' :
        audit'[j].event = "approval_requested" /\ audit'[j].call = audit'[k].call
  BY <1>1, <1>2 DEF Straggles
<1> QED
  BY <1>3 DEF StragglersWereApproved, Recorded

\* What the stages checked holds on the wire although approvals, verdicts and
\* scans come between the check and the call, for every policy in which no tool
\* that waits for a human is a sink or the second tool of a sequence rule: the
\* order rules, and after a suspension only calls a human had been asked about.
THEOREM ChecksReachTheWire == NoOrderedApproval => (Spec => []ChecksHoldOnTheWire)
<1> SUFFICES ASSUME NoOrderedApproval PROVE Spec => []ChecksHoldOnTheWire
  OBVIOUS
<1> DEFINE Ordered == /\ DecidedOnce /\ WaitingPassed /\ SuspensionAccounted /\ HistoryRemembers
                      /\ SequenceRespected /\ StragglersWereApproved
<1>1. Init => Ordered
  <2>1. Init => DecidedOnce /\ WaitingPassed
    BY DEF Init, DecidedOnce, WaitingPassed, NewCall
  <2>2. Init => SuspensionAccounted /\ StragglersWereApproved
    BY DEF Init, SuspensionAccounted, SuspensionRecords, SuspensionsIn, StragglersWereApproved,
           Stragglers
  <2>3. Init => HistoryRemembers /\ SequenceRespected
    BY DEF Init, HistoryRemembers, SequenceRespected
  <2> QED
    BY <2>1, <2>2, <2>3
<1>2. TypeOK /\ Ordered /\ [Next]_vars => Ordered'
  BY DecidedOnceStep, WaitingStep, AccountedStep, OrderStep, ApprovedStep
<1>3. Ordered => ChecksHoldOnTheWire
  BY DEF ChecksHoldOnTheWire
<1> QED
  BY <1>1, <1>2, <1>3, TypeCorrect, PTL DEF Spec

\* Under the stdio pump one call at a time is between two steps of its handler,
\* and a call that waits for a human finds no straggler before it.
OneAtATime ==
  \A c, d \in Calls : {call[c].phase, call[d].phase} \subseteq {"approval", "observing"} => c = d

AskedFirst == (\E c \in Calls : call[c].phase = "approval") => Stragglers = {}

\* Who is busy after a step: nobody new, or only the call just read.
LEMMA BusyStep ==
  ASSUME Sequential, TypeOK, DecidedOnce, WaitingPassed, OneAtATime, [Next]_vars
  PROVE  /\ OneAtATime'
         /\ \A c \in Calls : call'[c].phase = "approval" =>
              call[c].phase = "approval" \/ (~suspended /\ suspended' = suspended)
<1> DEFINE Busy == {"approval", "observing"}
           Parked == \A c \in Calls : call'[c].phase = "approval" =>
                       call[c].phase = "approval" \/ (~suspended /\ suspended' = suspended)
<1>1. \A c, d \in Calls : call[c].phase \in Busy /\ call[d].phase \in Busy => c = d
  BY DEF OneAtATime
<1>2. ASSUME \A c, d \in Calls : call'[c].phase \in Busy /\ call'[d].phase \in Busy => c = d
      PROVE  OneAtATime'
  BY <1>2 DEF OneAtATime
<1>3. ASSUME NEW c \in Calls, NEW r, NEW o, Decides(c, r, o), Conclude(c, r, o)
      PROVE  OneAtATime' /\ Parked
  <2>1. \E phase \in {"observing", "done"} : \E stage, out : Settle(c, r, phase, stage, out)
    BY <1>3 DEF Conclude, Refuse, ForwardUnchecked, Forward, Phase
  <2>2. call'[c].phase # "approval" /\ \A d \in Calls \ {c} : call'[d] = call[d]
    BY <2>1, SettleFields
  <2>3. call[c].phase = "approval" \/ \A d \in Calls : call[d].phase \notin Busy
    BY <1>3 DEF Decides, MaySend
  <2>4. \A d \in Calls \ {c} : call'[d].phase \notin Busy
    BY <1>1, <2>2, <2>3
  <2> QED
    BY <1>2, <2>2, <2>4
<1>4. ASSUME NEW c \in Calls, NEW r, NEW o, Parks(c, r, o), AwaitApproval(c, r, o)
      PROVE  OneAtATime' /\ Parked
  <2>1. /\ Settle(c, r, "approval", "undecided", "raw") /\ ~suspended /\ suspended' = suspended
        /\ \A d \in Calls : call[d].phase \notin Busy
    BY <1>4 DEF AwaitApproval, Parks, MaySend, session
  <2>2. \A d \in Calls \ {c} : call'[d] = call[d]
    BY <2>1, SettleFields
  <2> QED
    BY <1>2, <2>1, <2>2
<1>5. ASSUME \/ \E c \in Calls, m \in Methods, i \in Ids \cup {NoId} : Passthrough(c, m, i)
             \/ \E c \in Calls, m \in {ServerRequest, Opaque} : UpstreamSpeaks(c, m)
      PROVE  OneAtATime' /\ Parked
  <2>1. PICK c \in Calls : \E r : Settle(c, r, "done", "passthrough", "raw")
    BY <1>5 DEF Passthrough, UpstreamSpeaks
  <2>2. call'[c].phase = "done" /\ \A d \in Calls \ {c} : call'[d] = call[d]
    BY <2>1, SettleFields
  <2> QED
    BY <1>1, <1>2, <2>2
<1>6. ASSUME NEW c \in Calls, NEW v \in Verdicts, AnomalyReturns(c, v)
      PROVE  OneAtATime' /\ Parked
  <2>1. call'[c].phase = "done" /\ \A d \in Calls \ {c} : call'[d] = call[d]
    BY <1>6, AnomalyFields
  <2> QED
    BY <1>1, <1>2, <2>1
<1>7. ASSUME \/ \E c \in Calls, e \in BOOLEAN : UpstreamResponse(c, e)
             \/ \E res \in {"light", "heavy", "failed"} : RedactionReturns(res)
             \/ UNCHANGED vars
      PROVE  OneAtATime' /\ Parked
  <2>1. call' = call
    BY <1>7 DEF UpstreamResponse, RedactionReturns, vars
  <2> QED
    BY <1>1, <1>2, <2>1
<1>8. OneAtATime' /\ Parked
  <2> HIDE DEF Parked
  <2> QED
    BY <1>3, <1>4, <1>5, <1>6, <1>7, Steps
<1> QED
  BY <1>8

LEMMA StragglerStep ==
  ASSUME Sequential, TypeOK, DecidedOnce, WaitingPassed, SuspensionAccounted, OneAtATime,
         AskedFirst, AtMostOneStraggler, [Next]_vars
  PROVE  OneAtATime' /\ AskedFirst' /\ AtMostOneStraggler'
<1>1. /\ OneAtATime'
      /\ \A c \in Calls : call'[c].phase = "approval" =>
           call[c].phase = "approval" \/ (~suspended /\ suspended' = suspended)
  BY BusyStep
<1>2. SuspensionAccounted'
  BY AccountedStep
<1>3. CASE Stragglers' \subseteq Stragglers
  <2>1. AtMostOneStraggler'
    BY <1>3 DEF AtMostOneStraggler
  <2>2. ASSUME NEW c \in Calls, call'[c].phase = "approval"
        PROVE  Stragglers' = {}
    <3>1. CASE call[c].phase = "approval"
      BY <1>3, <3>1 DEF AskedFirst
    <3>2. CASE ~suspended /\ suspended' = suspended
      BY <1>2, <3>2 DEF SuspensionAccounted, Stragglers
    <3> QED
      BY <1>1, <2>2, <3>1, <3>2
  <2>3. AskedFirst'
    BY <2>2 DEF AskedFirst
  <2> QED
    BY <1>1, <2>1, <2>3
<1>4. ASSUME NEW c \in Calls, Straggles(c)
      PROVE  AskedFirst' /\ AtMostOneStraggler'
  <2>1. Stragglers = {}
    BY <1>4 DEF Straggles, AskedFirst
  <2>2. AtMostOneStraggler'
    BY <1>4, <2>1 DEF Straggles, AtMostOneStraggler
  <2>3. \A d \in Calls : call'[d].phase # "approval"
    BY <1>4 DEF Straggles, OneAtATime
  <2> QED
    BY <2>2, <2>3 DEF AskedFirst
<1> QED
  BY <1>1, <1>3, <1>4, StragglersGrow

\* Under the stdio pump, for every policy, posture and weight table, a suspended
\* session lets at most one more call through: the one whose approval was pending.
THEOREM OneStragglerAtMost == Sequential => (Spec => []AtMostOneStraggler)
<1> SUFFICES ASSUME Sequential PROVE Spec => []AtMostOneStraggler
  OBVIOUS
<1> DEFINE Gated == /\ DecidedOnce /\ WaitingPassed /\ SuspensionAccounted /\ OneAtATime
                    /\ AskedFirst /\ AtMostOneStraggler
<1>1. Init => Gated
  <2>1. Init => DecidedOnce /\ WaitingPassed /\ OneAtATime
    BY DEF Init, DecidedOnce, WaitingPassed, OneAtATime, NewCall
  <2>2. Init => SuspensionAccounted /\ AskedFirst /\ AtMostOneStraggler
    BY DEF Init, SuspensionAccounted, SuspensionRecords, SuspensionsIn, AskedFirst,
           AtMostOneStraggler, Stragglers
  <2> QED
    BY <2>1, <2>2
<1>2. TypeOK /\ Gated /\ [Next]_vars => Gated'
  BY DecidedOnceStep, WaitingStep, AccountedStep, StragglerStep
<1> QED
  BY <1>1, <1>2, TypeCorrect, PTL DEF Spec

---------------------------------------------------------------------------
(* Responses find the call they answer. *)

\* While clients do not reuse the id of a request in flight, an id in flight names
\* one request.
OneInFlight ==
  \A c, d \in Calls : InFlight(c) /\ InFlight(d) /\ call[c].id = call[d].id => c = d

\* A request that is undecided, or written and unanswered, has no reply.
Unreplied ==
  \A c \in Calls : (call[c].stage = "undecided" \/ c \in Range(sent) \ answered) =>
    \A q \in replies : q.call # c

AnsweredWereSent == answered \subseteq Range(sent)

\* A result is scanned for the call that it answers.
ScanPairs ==
  scanning # NotScanning => scanning.pending = scanning.call /\ scanning.call \in answered

\* The pending table holds calls that await their response, each under its id and
\* with the disposition its policy asks.
Tracked ==
  \A i \in Ids : pending[i] # NoPending =>
    /\ pending[i].call \in Range(sent) \ answered /\ call[pending[i].call].id = i
    /\ call[pending[i].call].stage = "forwarded" =>
         pending[i].disp = Owed(call[pending[i].call].tool)

\* Every forwarded call that awaits its response is in the pending table.
Expected ==
  \A c \in Range(sent) \ answered : call[c].stage = "forwarded" =>
    call[c].id \in Ids /\ pending[call[c].id].call = c

Pairs == OneInFlight /\ Unreplied /\ AnsweredWereSent /\ ScanPairs /\ Tracked /\ Expected

\* The basic facts of the calls written and answered.
LEMMA WrittenFacts ==
  ASSUME TypeOK, DecidedOnce, Pairs
  PROVE  /\ Range(sent) \subseteq Calls /\ NoCall \notin Calls
         /\ \A d \in Range(sent) : call[d].stage \in SentStages /\ call[d].phase # "new"
         /\ \A d \in Range(sent) \ answered : call[d].id # NoId => InFlight(d)
         /\ \A i \in Ids : pending[i] # NoPending =>
              pending[i].call \in Range(sent) \ answered /\ InFlight(pending[i].call)
<1>1. Range(sent) \subseteq Calls /\ NoCall \notin Calls /\ NoId \notin Ids
  BY ConstantsAssumption DEF TypeOK, Range
<1>2. \A d \in Range(sent) : call[d].stage \in SentStages /\ call[d].phase # "new"
  BY <1>1 DEF DecidedOnce, Range, SentStages
<1>3. \A d \in Range(sent) \ answered : call[d].id # NoId => InFlight(d)
  BY <1>1, <1>2 DEF Pairs, Unreplied, InFlight
<1>4. \A i \in Ids : pending[i] # NoPending =>
        pending[i].call \in Range(sent) \ answered /\ InFlight(pending[i].call)
  BY <1>1, <1>3 DEF Pairs, Tracked
<1> QED
  BY <1>1, <1>2, <1>3, <1>4

\* Nobody else in flight has the id of a call that is read or decided now.
LEMMA FreshId ==
  ASSUME ~IdReuse, TypeOK, DecidedOnce, Pairs, NEW c \in Calls, NEW i,
         MaySend(c, i) \/ (call[c].phase = "approval" /\ call[c].id = i)
  PROVE  \A d \in Calls \ {c} : InFlight(d) => call[d].id # i
<1>1. CASE MaySend(c, i)
  BY <1>1 DEF MaySend
<1>2. CASE call[c].phase = "approval" /\ call[c].id = i
  <2>1. call[c].stage = "undecided" /\ call[c].id \in Ids /\ NoId \notin Ids
    BY <1>2, ConstantsAssumption DEF DecidedOnce, TypeOK
  <2>2. InFlight(c)
    BY <1>2, <2>1 DEF InFlight, Pairs, Unreplied
  <2> QED
    BY <1>2, <2>2 DEF Pairs, OneInFlight
<1> QED
  BY <1>1, <1>2

\* Ids stay unique while replies grow and only call c may join under a fresh id.
LEMMA UniqueFrame ==
  ASSUME OneInFlight, NEW c \in Calls, replies \subseteq replies',
         \A d \in Calls \ {c} : call'[d] = call[d],
         \A d \in Calls \ {c} : InFlight(d) => call[d].id # call'[c].id
  PROVE  OneInFlight'
<1>1. \A d \in Calls \ {c} : (InFlight(d))' => InFlight(d) /\ call'[d].id = call[d].id
  BY DEF InFlight
<1> QED
  BY <1>1 DEF OneInFlight

\* A step that decides, parks, passes or speaks call c.
LEMMA SettlePairs ==
  ASSUME TypeOK, DecidedOnce, Pairs, NEW c \in Calls, call[c].stage = "undecided",
         \A d \in Calls \ {c} : call'[d] = call[d],
         \A d \in Calls \ {c} : InFlight(d) => call[d].id # call'[c].id,
         scanning' = scanning, answered' = answered,
         \/ /\ sent' = sent /\ pending' = pending
            /\ \/ replies' = replies
               \/ /\ call'[c].stage # "undecided"
                  /\ \E form, error :
                       replies' = replies \cup {[call |-> c, form |-> form, error |-> error]}
         \/ /\ sent' = Append(sent, c) /\ replies' = replies
            /\ \/ pending' = pending /\ call'[c].stage = "passthrough"
               \/ /\ call'[c].id \in Ids
                  /\ \E disp :
                       /\ pending' = [pending EXCEPT ![call'[c].id] = [call |-> c, disp |-> disp]]
                       /\ call'[c].stage = "forwarded" => disp = Owed(call'[c].tool)
  PROVE  Pairs'
<1> DEFINE i == call'[c].id
<1>1. /\ Range(sent) \subseteq Calls /\ NoCall \notin Calls
      /\ \A d \in Range(sent) : call[d].stage \in SentStages /\ call[d].phase # "new"
      /\ \A j \in Ids : pending[j] # NoPending =>
           pending[j].call \in Range(sent) \ answered /\ InFlight(pending[j].call)
      /\ \A d \in Range(sent) \ answered : call[d].id # NoId => InFlight(d)
  BY WrittenFacts
<1>2. c \notin Range(sent) /\ \A d \in Range(sent) : d # c /\ call'[d] = call[d]
  BY <1>1 DEF SentStages
<1>3. Range(sent') = Range(sent) \/ Range(sent') = Range(sent) \cup {c}
  <2>1. CASE sent' = sent
    BY <2>1
  <2>2. CASE sent' = Append(sent, c)
    <3>1. sent \in Seq(Calls)
      BY DEF TypeOK
    <3>2. /\ DOMAIN sent' = 1..(Len(sent) + 1) /\ DOMAIN sent = 1..Len(sent) /\ Len(sent) \in Nat
          /\ \A j \in DOMAIN sent : sent'[j] = sent[j]
          /\ sent'[Len(sent) + 1] = c
      BY <2>2, <3>1
    <3>3. 1..(Len(sent) + 1) = 1..Len(sent) \cup {Len(sent) + 1}
      BY <3>2
    <3>4. \A x : x \in Range(sent') <=> x \in Range(sent) \cup {c}
      BY <3>2, <3>3 DEF Range
    <3> QED
      BY <3>4
  <2> QED
    BY <2>1, <2>2
<1>4. c \in Range(sent') => sent' = Append(sent, c)
  BY <1>2
<1>5. replies \subseteq replies' /\ \A q \in replies' \ replies : q.call = c
  OBVIOUS
<1>6. OneInFlight'
  BY <1>5, UniqueFrame DEF Pairs
<1>7. Unreplied'
  <2>1. ASSUME NEW d \in Calls, call'[d].stage = "undecided" \/ d \in Range(sent') \ answered',
               NEW q \in replies'
        PROVE  q.call # d
    <3>1. CASE d # c
      <4>1. call[d].stage = "undecided" \/ d \in Range(sent) \ answered
        BY <1>3, <2>1, <3>1
      <4> QED
        BY <1>5, <3>1, <4>1 DEF Pairs, Unreplied
    <3>2. CASE d = c
      <4>1. replies' = replies
        BY <1>4, <2>1, <3>2
      <4> QED
        BY <3>2, <4>1 DEF Pairs, Unreplied
    <3> QED
      BY <3>1, <3>2
  <2> QED
    BY <2>1 DEF Unreplied
<1>8. AnsweredWereSent' /\ ScanPairs'
  BY <1>3 DEF Pairs, AnsweredWereSent, ScanPairs
<1>9. c \notin answered
  BY <1>2 DEF Pairs, AnsweredWereSent
<1>10. ASSUME pending' = pending
       PROVE  Tracked'
  <2>1. \A j \in Ids : pending[j] # NoPending =>
          pending[j].call # c /\ call'[pending[j].call] = call[pending[j].call]
    BY <1>1, <1>2
  <2> QED
    BY <1>3, <1>10, <2>1 DEF Pairs, Tracked
<1>11. ASSUME pending' = pending, Range(sent') = Range(sent) \/ call'[c].stage = "passthrough"
       PROVE  Expected'
  BY <1>2, <1>3, <1>11 DEF Pairs, Expected
<1>12. ASSUME i \in Ids, NEW disp,
              pending' = [pending EXCEPT ![i] = [call |-> c, disp |-> disp]],
              call'[c].stage = "forwarded" => disp = Owed(call'[c].tool),
              sent' = Append(sent, c), c \in Range(sent')
       PROVE  Tracked' /\ Expected'
  <2>1. pending \in [Ids -> PendingCalls \cup {NoPending}]
    BY DEF TypeOK
  <2> DEFINE new == [call |-> c, disp |-> disp]
  <2>2. new.call = c /\ new.disp = disp
    OBVIOUS
  <2>3. pending'[i] = new /\ \A j \in Ids \ {i} : pending'[j] = pending[j]
    BY <1>12, <2>1
  <2> HIDE DEF new
  <2>4. ASSUME NEW j \in Ids, pending'[j] # NoPending
        PROVE  /\ pending'[j].call \in Range(sent') \ answered' /\ call'[pending'[j].call].id = j
               /\ call'[pending'[j].call].stage = "forwarded" =>
                    pending'[j].disp = Owed(call'[pending'[j].call].tool)
    <3>1. CASE j = i
      BY <1>9, <1>12, <2>2, <2>3, <3>1
    <3>2. CASE j # i
      <4>1. pending'[j] = pending[j] /\ pending[j] # NoPending
        BY <2>3, <2>4, <3>2
      <4>2. /\ pending[j].call \in Range(sent) \ answered /\ call[pending[j].call].id = j
            /\ call[pending[j].call].stage = "forwarded" =>
                 pending[j].disp = Owed(call[pending[j].call].tool)
        BY <4>1 DEF Pairs, Tracked
      <4>3. call'[pending[j].call] = call[pending[j].call]
        BY <1>2, <4>2
      <4> QED
        BY <1>3, <4>1, <4>2, <4>3
    <3> QED
      BY <3>1, <3>2
  <2>5. ASSUME NEW d \in Range(sent') \ answered', call'[d].stage = "forwarded"
        PROVE  call'[d].id \in Ids /\ pending'[call'[d].id].call = d
    <3>1. CASE d = c
      BY <1>12, <2>2, <2>3, <3>1
    <3>2. CASE d # c
      <4>1. d \in Range(sent) \ answered /\ call'[d] = call[d]
        BY <1>2, <1>3, <2>5, <3>2
      <4>2. call[d].id \in Ids /\ pending[call[d].id].call = d
        BY <2>5, <4>1 DEF Pairs, Expected
      <4>3. NoId \notin Ids
        BY ConstantsAssumption
      <4>4. InFlight(d) /\ d \in Calls
        BY <1>1, <4>1, <4>2, <4>3
      <4>5. call[d].id # i
        BY <3>2, <4>4
      <4> QED
        BY <2>3, <4>1, <4>2, <4>5
    <3> QED
      BY <3>1, <3>2
  <2> QED
    BY <2>4, <2>5 DEF Tracked, Expected
<1>13. Tracked' /\ Expected'
  <2>1. CASE pending' = pending /\ (sent' = sent \/ call'[c].stage = "passthrough")
    BY <1>10, <1>11, <2>1
  <2>2. CASE sent' = Append(sent, c) /\ ~(pending' = pending /\ call'[c].stage = "passthrough")
    <3>1. c \in Range(sent')
      <4>1. sent \in Seq(Calls)
        BY DEF TypeOK
      <4>2. Len(sent) + 1 \in DOMAIN sent' /\ sent'[Len(sent) + 1] = c
        BY <2>2, <4>1
      <4> QED
        BY <4>2 DEF Range
    <3>2. sent' # sent
      BY <1>2, <3>1
    <3>3. i \in Ids
      BY <2>2, <3>2
    <3>4. \E disp : /\ pending' = [pending EXCEPT ![i] = [call |-> c, disp |-> disp]]
                    /\ call'[c].stage = "forwarded" => disp = Owed(call'[c].tool)
      BY Zenon, <2>2, <3>2
    <3> QED
      BY <1>12, <2>2, <3>1, <3>3, <3>4
  <2> QED
    BY <2>1, <2>2
<1> QED
  BY <1>6, <1>7, <1>8, <1>13 DEF Pairs

\* A step that changes neither tables nor replies and of the calls only phases of
\* calls already read.
LEMMA PhasePairs ==
  ASSUME Pairs, UNCHANGED <<pending, sent, answered, scanning, replies>>,
         \A d \in Calls : /\ call'[d].id = call[d].id /\ call'[d].tool = call[d].tool
                          /\ call'[d].stage = call[d].stage
                          /\ call'[d].phase = "new" <=> call[d].phase = "new",
         Range(sent) \subseteq Calls,
         \A i \in Ids : pending[i] # NoPending => pending[i].call \in Calls
  PROVE  Pairs'
<1>1. \A d \in Calls : (InFlight(d))' <=> InFlight(d)
  BY DEF InFlight
<1>2. OneInFlight'
  BY <1>1 DEF Pairs, OneInFlight
<1>3. Unreplied' /\ AnsweredWereSent' /\ ScanPairs'
  BY DEF Pairs, Unreplied, AnsweredWereSent, ScanPairs
<1>4. Tracked'
  BY DEF Pairs, Tracked
<1>5. Expected'
  BY DEF Pairs, Expected
<1> QED
  BY <1>2, <1>3, <1>4, <1>5 DEF Pairs

\* The response to call c: the entry it consumes is its own.
LEMMA ResponsePairs ==
  ASSUME TypeOK, DecidedOnce, Pairs, NEW c \in Calls, NEW e \in BOOLEAN, UpstreamResponse(c, e)
  PROVE  /\ Pairs'
         /\ pending[call[c].id] # NoPending => pending[call[c].id].call = c
<1> DEFINE i == call[c].id
           p == pending[i]
<1>1. /\ Range(sent) \subseteq Calls
      /\ \A d \in Range(sent) : call[d].stage \in SentStages /\ call[d].phase # "new"
      /\ \A d \in Range(sent) \ answered : call[d].id # NoId => InFlight(d)
      /\ \A j \in Ids : pending[j] # NoPending =>
           pending[j].call \in Range(sent) \ answered /\ InFlight(pending[j].call)
  BY WrittenFacts
<1>2. /\ c \in Range(sent) \ answered /\ i # NoId /\ answered' = answered \cup {c}
      /\ scanning = NotScanning /\ sent' = sent /\ call' = call
  BY DEF UpstreamResponse
<1>3. i \in Ids /\ pending \in [Ids -> PendingCalls \cup {NoPending}]
  BY <1>2 DEF TypeOK, CallStates
<1>4. p # NoPending => p.call = c
  BY <1>1, <1>2, <1>3 DEF Pairs, OneInFlight, Tracked
<1>5. \A j \in Ids : pending[j] # NoPending /\ pending[j].call = c => j = i
  BY DEF Pairs, Tracked
<1>6. /\ replies \subseteq replies' /\ \A q \in replies' \ replies : q.call = c
      /\ scanning' = NotScanning \/ scanning' = [call |-> c, pending |-> p.call]
      /\ scanning' # NotScanning => p # NoPending
      /\ \/ p = NoPending /\ pending' = pending
         \/ pending' = [pending EXCEPT ![i] = NoPending]
  BY <1>2 DEF UpstreamResponse, DeliverToolResult, Deliver
<1>7. \A j \in Ids : /\ j # i => pending'[j] = pending[j]
                     /\ pending'[i] = NoPending
  BY <1>3, <1>6
<1>8. OneInFlight'
  <2>1. \A d \in Calls : (InFlight(d))' => InFlight(d)
    BY <1>2, <1>6 DEF InFlight
  <2> QED
    BY <1>2, <2>1 DEF Pairs, OneInFlight
<1>9. Unreplied'
  <2>1. call[c].stage # "undecided"
    BY <1>1, <1>2 DEF SentStages
  <2> QED
    BY <1>2, <1>6, <2>1 DEF Pairs, Unreplied
<1>10. AnsweredWereSent' /\ ScanPairs'
  BY <1>2, <1>4, <1>6 DEF Pairs, AnsweredWereSent, ScanPairs
<1>11. Tracked'
  <2>1. ASSUME NEW j \in Ids, pending'[j] # NoPending
        PROVE  /\ pending'[j] = pending[j] /\ pending[j] # NoPending /\ pending[j].call # c
    <3>1. j # i
      BY <1>7, <2>1
    <3> QED
      BY <1>5, <1>7, <2>1, <3>1
  <2> QED
    BY <1>2, <2>1 DEF Pairs, Tracked
<1>12. Expected'
  <2>1. ASSUME NEW d \in Range(sent') \ answered', call'[d].stage = "forwarded"
        PROVE  call'[d].id \in Ids /\ pending'[call'[d].id].call = d
    <3>1. d # c /\ call[d].id \in Ids /\ pending[call[d].id].call = d /\ d \in Calls
      BY <1>1, <1>2, <2>1 DEF Pairs, Expected
    <3>2. call[d].id # i
      <4>1. d # NoCall
        BY <3>1, ConstantsAssumption
      <4>2. NoPending.call = NoCall
        BY DEF NoPending
      <4> QED
        BY <1>4, <3>1, <4>1, <4>2
    <3> QED
      BY <1>2, <1>7, <3>1, <3>2
  <2> QED
    BY <2>1 DEF Expected
<1> QED
  BY <1>4, <1>8, <1>9, <1>10, <1>11, <1>12 DEF Pairs

LEMMA PairsStep ==
  ASSUME ~IdReuse, TypeOK, DecidedOnce, WaitingPassed, Pairs, [Next]_vars
  PROVE  Pairs'
<1>1. ASSUME NEW c \in Calls, NEW r \in CallStates, NEW o \in StageOutcomes, Decides(c, r, o),
             Conclude(c, r, o)
      PROVE  Pairs'
  <2>1. /\ call[c].stage = "undecided" /\ r.id \in Ids
        /\ \A d \in Calls \ {c} : InFlight(d) => call[d].id # r.id
    <3>1. MaySend(c, r.id) \/ (call[c].phase = "approval" /\ call[c].id = r.id)
      BY <1>1 DEF Decides
    <3> QED
      BY <1>1, <3>1, FreshId DEF Decides
  <2>2. CASE Refuse(c, r, o)
    <3>1. /\ Settle(c, r, Phase(AnomalyOn), o.stage, "raw")
          /\ UNCHANGED <<sent, pending, scanning, answered>>
          /\ replies' = replies \cup {[call |-> c, form |-> "denied", error |-> TRUE]}
      BY <2>2 DEF Refuse
    <3>2. o.stage # "undecided"
      BY <2>2 DEF Refuse, StageOutcomes, Outcomes, Stages
    <3>3. /\ call'[c].id = r.id /\ call'[c].stage = o.stage
          /\ \A d \in Calls \ {c} : call'[d] = call[d]
      <4>1. \E phase : Settle(c, r, phase, o.stage, "raw")
        BY <3>1
      <4> QED
        BY <4>1, SettleFields
    <3> QED
      BY <2>1, <3>1, <3>2, <3>3, SettlePairs
  <2>3. CASE ForwardUnchecked(c, r, o)
    <3>1. /\ Settle(c, r, "done", "fail_open", "raw")
          /\ UNCHANGED <<scanning, answered, replies>> /\ sent' = Append(sent, c)
          /\ pending' = [pending EXCEPT ![r.id] = [call |-> c, disp |-> "none"]]
      BY <2>3 DEF ForwardUnchecked
    <3>2. /\ call'[c].id = r.id /\ call'[c].stage = "fail_open"
          /\ \A d \in Calls \ {c} : call'[d] = call[d]
      BY <3>1, SettleFields
    <3> QED
      BY <2>1, <3>1, <3>2, SettlePairs
  <2>4. CASE Forward(c, r, o)
    <3>1. /\ \E phase : Settle(c, r, phase, "forwarded", o.out)
          /\ UNCHANGED <<scanning, answered, replies>> /\ sent' = Append(sent, c)
          /\ pending' = [pending EXCEPT ![r.id] = [call |-> c, disp |-> o.disp]]
          /\ o.verdict = "continue"
      BY <2>4 DEF Forward
    <3>2. /\ call'[c].id = r.id /\ call'[c].stage = "forwarded" /\ call'[c].tool = r.tool
          /\ \A d \in Calls \ {c} : call'[d] = call[d]
      BY <3>1, SettleFields
    <3>3. o.disp = Owed(r.tool)
      BY <1>1, <3>1 DEF Decides, Passes
    <3> QED
      BY <2>1, <3>1, <3>2, <3>3, SettlePairs
  <2> QED
    BY <1>1, <2>2, <2>3, <2>4 DEF Conclude
<1>2. ASSUME NEW c \in Calls, NEW r \in CallStates, NEW o, Parks(c, r, o), AwaitApproval(c, r, o)
      PROVE  Pairs'
  <2>1. /\ Settle(c, r, "approval", "undecided", "raw")
        /\ UNCHANGED <<sent, pending, scanning, answered, replies>>
    BY <1>2 DEF AwaitApproval, session
  <2>2. call'[c].id = r.id /\ \A d \in Calls \ {c} : call'[d] = call[d]
    BY <2>1, SettleFields
  <2>3. call[c].stage = "undecided" /\ \A d \in Calls \ {c} : InFlight(d) => call[d].id # r.id
    BY <1>2, FreshId DEF Parks
  <2> QED
    BY <2>1, <2>2, <2>3, SettlePairs
<1>3. ASSUME NEW c \in Calls, NEW m \in Methods, NEW i \in Ids \cup {NoId}, Passthrough(c, m, i)
      PROVE  Pairs'
  <2> DEFINE r == Request(m, i, "clean", "none")
  <2>1. r.id = i
    BY RequestType DEF Methods, Args
  <2> HIDE DEF r
  <2>2. /\ Settle(c, r, "done", "passthrough", "raw") /\ MaySend(c, i)
        /\ UNCHANGED <<pending, scanning, answered, replies>> /\ sent' = Append(sent, c)
    BY <1>3 DEF Passthrough, session, r
  <2>3. /\ call'[c].id = i /\ call'[c].stage = "passthrough"
        /\ \A d \in Calls \ {c} : call'[d] = call[d]
    BY <2>1, <2>2, SettleFields
  <2>4. call[c].stage = "undecided" /\ \A d \in Calls \ {c} : InFlight(d) => call[d].id # i
    BY <2>2, FreshId DEF MaySend, DecidedOnce
  <2> QED
    BY <2>2, <2>3, <2>4, SettlePairs
<1>4. ASSUME NEW c \in Calls, NEW m \in {ServerRequest, Opaque}, UpstreamSpeaks(c, m)
      PROVE  Pairs'
  <2> DEFINE r == [NewCall EXCEPT !.tool = m]
  <2>1. r.id = NoId
    BY DEF NewCall
  <2> HIDE DEF r
  <2>2. /\ Settle(c, r, "done", "passthrough", "raw")
        /\ UNCHANGED <<pending, scanning, answered, sent>>
        /\ replies' = replies \cup {[call |-> c, form |-> "raw", error |-> FALSE]}
    BY <1>4 DEF UpstreamSpeaks, Deliver, session, r
  <2>3. /\ call'[c].id = NoId /\ call'[c].stage = "passthrough"
        /\ \A d \in Calls \ {c} : call'[d] = call[d]
    BY <2>1, <2>2, SettleFields
  <2>4. call[c].stage = "undecided" /\ \A d \in Calls \ {c} : InFlight(d) => call[d].id # NoId
    BY <1>4 DEF UpstreamSpeaks, DecidedOnce, InFlight
  <2> QED
    BY <2>2, <2>3, <2>4, SettlePairs
<1>5. /\ Range(sent) \subseteq Calls
      /\ \A i \in Ids : pending[i] # NoPending => pending[i].call \in Calls
  BY WrittenFacts
<1>6. ASSUME NEW c \in Calls, NEW v \in Verdicts, AnomalyReturns(c, v)
      PROVE  Pairs'
  <2>1. UNCHANGED <<pending, sent, answered, scanning, replies>>
    BY <1>6 DEF AnomalyReturns
  <2>2. \A d \in Calls : /\ call'[d].id = call[d].id /\ call'[d].tool = call[d].tool
                         /\ call'[d].stage = call[d].stage
                         /\ call'[d].phase = "new" <=> call[d].phase = "new"
    BY <1>6, AnomalyFields
  <2> QED
    BY <1>5, <2>1, <2>2, PhasePairs
<1>7. ASSUME NEW res \in {"light", "heavy", "failed"}, RedactionReturns(res)
      PROVE  Pairs'
  <2> DEFINE c == scanning.call
  <2>1. c \in Calls /\ c \in answered
    BY <1>7 DEF RedactionReturns, TypeOK, Pairs, ScanPairs
  <2>2. call[c].stage # "undecided"
    BY <2>1, WrittenFacts DEF Pairs, AnsweredWereSent, SentStages
  <2>3. /\ UNCHANGED <<pending, sent, answered, call>> /\ scanning' = NotScanning
        /\ \E form : replies' = replies \cup {[call |-> c, form |-> form, error |-> FALSE]}
    BY <1>7 DEF RedactionReturns, Deliver
  <2> HIDE DEF c
  <2>4. replies \subseteq replies' /\ \A q \in replies' \ replies : q.call = c
    BY <2>3
  <2>5. OneInFlight'
    <3>1. \A d \in Calls : (InFlight(d))' => InFlight(d)
      BY <2>3, <2>4 DEF InFlight
    <3> QED
      BY <2>3, <3>1 DEF Pairs, OneInFlight
  <2>6. Unreplied'
    BY <2>1, <2>2, <2>3, <2>4 DEF Pairs, Unreplied
  <2>7. AnsweredWereSent' /\ ScanPairs' /\ Tracked' /\ Expected'
    BY <2>3 DEF Pairs, AnsweredWereSent, ScanPairs, Tracked, Expected
  <2> QED
    BY <2>5, <2>6, <2>7 DEF Pairs
<1>8. CASE UNCHANGED vars
  BY <1>5, <1>8, PhasePairs DEF vars, session
<1> QED
  BY <1>1, <1>2, <1>3, <1>4, <1>6, <1>7, <1>8, ResponsePairs, Steps

\* A step of which every forwarded call has no reply yet, or keeps its protection:
\* no new raw reply but an error, of a tool that owes none, or on the record.
LEMMA ProtectedFrame ==
  ASSUME ProtectedDataStaysProtected, DOMAIN audit \subseteq DOMAIN audit',
         \A k \in DOMAIN audit : audit'[k] = audit[k],
         \A d \in Calls : call'[d].stage = "forwarded" =>
           \/ /\ \A q \in replies' : q.call # d
              /\ (Owed(call'[d].tool) = "redact" /\ call'[d].arg = "pii") =>
                   call'[d].out = "scrubbed"
           \/ /\ call[d].stage = "forwarded" /\ call'[d].tool = call[d].tool
              /\ call'[d].arg = call[d].arg /\ call'[d].out = call[d].out
              /\ \A q \in replies' \ replies : (q.call = d /\ q.form = "raw") =>
                   \/ q.error \/ Owed(call[d].tool) = "none"
                   \/ /\ "redaction" \in OpenPosture
                      /\ \E k \in DOMAIN audit' :
                           audit'[k].event = "redaction_error_fail_open" /\ audit'[k].call = d
  PROVE  ProtectedDataStaysProtected'
<1>1. \A d \in Calls : Recorded("redaction_error_fail_open", d) =>
        \E k \in DOMAIN audit' :
          audit'[k].event = "redaction_error_fail_open" /\ audit'[k].call = d
  BY DEF Recorded
<1>2. ASSUME NEW d \in Calls, call'[d].stage = "forwarded"
      PROVE  /\ Owed(call'[d].tool) # "none" =>
                  \A q \in replies' : (q.call = d /\ q.form = "raw") =>
                    \/ q.error
                    \/ /\ "redaction" \in OpenPosture
                       /\ \E k \in DOMAIN audit' :
                            audit'[k].event = "redaction_error_fail_open" /\ audit'[k].call = d
             /\ (Owed(call'[d].tool) = "redact" /\ call'[d].arg = "pii") =>
                  call'[d].out = "scrubbed"
  <2>1. CASE /\ \A q \in replies' : q.call # d
             /\ (Owed(call'[d].tool) = "redact" /\ call'[d].arg = "pii") =>
                  call'[d].out = "scrubbed"
    BY <2>1
  <2>2. CASE /\ call[d].stage = "forwarded" /\ call'[d].tool = call[d].tool
             /\ call'[d].arg = call[d].arg /\ call'[d].out = call[d].out
             /\ \A q \in replies' \ replies : (q.call = d /\ q.form = "raw") =>
                  \/ q.error \/ Owed(call[d].tool) = "none"
                  \/ /\ "redaction" \in OpenPosture
                     /\ \E k \in DOMAIN audit' :
                          audit'[k].event = "redaction_error_fail_open" /\ audit'[k].call = d
    BY <1>1, <2>2 DEF ProtectedDataStaysProtected
  <2> QED
    BY <1>2, <2>1, <2>2
<1> QED
  BY <1>2 DEF ProtectedDataStaysProtected, Recorded

LEMMA ProtectedStep ==
  ASSUME TypeOK, DecidedOnce, WaitingPassed, Pairs, ProtectedDataStaysProtected, [Next]_vars
  PROVE  ProtectedDataStaysProtected'
<1>1. DOMAIN audit \subseteq DOMAIN audit' /\ \A k \in DOMAIN audit : audit'[k] = audit[k]
  <2>1. ASSUME NEW t, Extends(t)
        PROVE  DOMAIN audit \subseteq DOMAIN audit' /\ \A k \in DOMAIN audit : audit'[k] = audit[k]
    BY <2>1, ExtendedTrail
  <2> QED
    BY <2>1, TrailSteps DEF TrailStep
<1> DEFINE Kept(d) ==
      /\ call[d].stage = "forwarded" /\ call'[d].tool = call[d].tool
      /\ call'[d].arg = call[d].arg /\ call'[d].out = call[d].out
      /\ \A q \in replies' \ replies : (q.call = d /\ q.form = "raw") =>
           \/ q.error \/ Owed(call[d].tool) = "none"
           \/ /\ "redaction" \in OpenPosture
              /\ \E k \in DOMAIN audit' :
                   audit'[k].event = "redaction_error_fail_open" /\ audit'[k].call = d
           Fresh(d) ==
      /\ \A q \in replies' : q.call # d
      /\ (Owed(call'[d].tool) = "redact" /\ call'[d].arg = "pii") => call'[d].out = "scrubbed"
<1>2. ASSUME \A d \in Calls : call'[d].stage = "forwarded" => Fresh(d) \/ Kept(d)
      PROVE  ProtectedDataStaysProtected'
  BY <1>1, <1>2, ProtectedFrame
\* The step settles call c, and every new reply is to it.
<1>3. ASSUME NEW c \in Calls, \A d \in Calls \ {c} : call'[d] = call[d],
             \A q \in replies' \ replies : q.call = c,
             call'[c].stage = "forwarded" => Fresh(c)
      PROVE  ProtectedDataStaysProtected'
  <2>1. \A d \in Calls \ {c} : call'[d].stage = "forwarded" => Kept(d)
    BY <1>3
  <2> HIDE DEF Fresh, Kept
  <2> QED
    BY <1>2, <1>3, <2>1
<1>4. ASSUME NEW c \in Calls, NEW r \in CallStates, NEW o \in StageOutcomes, Decides(c, r, o),
             Conclude(c, r, o)
      PROVE  ProtectedDataStaysProtected'
  <2>1. CASE Refuse(c, r, o)
    <3>1. /\ \E phase : Settle(c, r, phase, o.stage, "raw")
          /\ replies' = replies \cup {[call |-> c, form |-> "denied", error |-> TRUE]}
      BY <2>1 DEF Refuse
    <3>2. o.stage # "forwarded"
      BY <2>1 DEF Refuse, StageOutcomes, Outcomes, Stages
    <3>3. call'[c].stage = o.stage /\ \A d \in Calls \ {c} : call'[d] = call[d]
      BY <3>1, SettleFields
    <3>4. \A q \in replies' \ replies : q.call = c
      BY <3>1
    <3> HIDE DEF Fresh, Kept
    <3> QED
      BY <1>3, <3>2, <3>3, <3>4
  <2>2. CASE ForwardUnchecked(c, r, o)
    <3>1. Settle(c, r, "done", "fail_open", "raw") /\ replies' = replies
      BY <2>2 DEF ForwardUnchecked
    <3>2. call'[c].stage = "fail_open" /\ \A d \in Calls \ {c} : call'[d] = call[d]
      BY <3>1, SettleFields
    <3> HIDE DEF Fresh, Kept
    <3> QED
      BY <1>3, <3>1, <3>2
  <2>3. CASE Forward(c, r, o)
    <3>1. /\ \E phase : Settle(c, r, phase, "forwarded", o.out)
          /\ replies' = replies /\ o.verdict = "continue"
      BY <2>3 DEF Forward
    <3>2. /\ call'[c].tool = r.tool /\ call'[c].arg = r.arg /\ call'[c].out = o.out
          /\ \A d \in Calls \ {c} : call'[d] = call[d]
      BY <3>1, SettleFields
    <3>3. Passes(r, o) /\ call[c].stage = "undecided"
      BY <1>4, <3>1 DEF Decides
    <3>4. \A q \in replies' : q.call # c
      BY <3>1, <3>3 DEF Pairs, Unreplied
    <3>5. Fresh(c)
      BY <3>2, <3>3, <3>4 DEF Passes
    <3> HIDE DEF Fresh, Kept
    <3> QED
      BY <1>3, <3>1, <3>2, <3>5
  <2> QED
    BY <1>4, <2>1, <2>2, <2>3 DEF Conclude
<1>5. ASSUME NEW c \in Calls, NEW r, NEW o, AwaitApproval(c, r, o)
      PROVE  ProtectedDataStaysProtected'
  <2>1. Settle(c, r, "approval", "undecided", "raw") /\ replies' = replies
    BY <1>5 DEF AwaitApproval
  <2>2. call'[c].stage = "undecided" /\ \A d \in Calls \ {c} : call'[d] = call[d]
    BY <2>1, SettleFields
  <2> HIDE DEF Fresh, Kept
  <2> QED
    BY <1>3, <2>1, <2>2
<1>6. ASSUME NEW c \in Calls, NEW m \in Methods, NEW i \in Ids \cup {NoId}, Passthrough(c, m, i)
      PROVE  ProtectedDataStaysProtected'
  <2>1. (\E r : Settle(c, r, "done", "passthrough", "raw")) /\ replies' = replies
    BY <1>6 DEF Passthrough
  <2>2. call'[c].stage = "passthrough" /\ \A d \in Calls \ {c} : call'[d] = call[d]
    BY <2>1, SettleFields
  <2> HIDE DEF Fresh, Kept
  <2> QED
    BY <1>3, <2>1, <2>2
<1>7. ASSUME NEW c \in Calls, NEW m \in {ServerRequest, Opaque}, UpstreamSpeaks(c, m)
      PROVE  ProtectedDataStaysProtected'
  <2>1. /\ \E r : Settle(c, r, "done", "passthrough", "raw")
        /\ replies' = replies \cup {[call |-> c, form |-> "raw", error |-> FALSE]}
    BY <1>7 DEF UpstreamSpeaks, Deliver
  <2>2. call'[c].stage = "passthrough" /\ \A d \in Calls \ {c} : call'[d] = call[d]
    BY <2>1, SettleFields
  <2>3. \A q \in replies' \ replies : q.call = c
    BY <2>1
  <2> HIDE DEF Fresh, Kept
  <2> QED
    BY <1>3, <2>2, <2>3
<1>8. ASSUME NEW c \in Calls, NEW v \in Verdicts, AnomalyReturns(c, v)
      PROVE  ProtectedDataStaysProtected'
  <2>1. \A d \in Calls :
          /\ call'[d].tool = call[d].tool /\ call'[d].arg = call[d].arg
          /\ call'[d].stage = call[d].stage /\ call'[d].out = call[d].out
    BY <1>8, AnomalyFields
  <2>2. replies' = replies
    BY <1>8 DEF AnomalyReturns
  <2>3. \A d \in Calls : call'[d].stage = "forwarded" => Kept(d)
    BY <2>1, <2>2
  <2> HIDE DEF Fresh, Kept
  <2> QED
    BY <1>2, <2>3
\* A response: what is delivered raw is an error or a result that owes nothing.
<1>9. ASSUME NEW c \in Calls, NEW e \in BOOLEAN, UpstreamResponse(c, e)
      PROVE  ProtectedDataStaysProtected'
  <2> DEFINE p == pending[call[c].id]
  <2>1. /\ call' = call /\ c \in Range(sent) \ answered /\ call[c].id # NoId
    BY <1>9 DEF UpstreamResponse
  <2>2. p # NoPending => p.call = c
    BY <1>9, ResponsePairs
  <2>3. call[c].id \in Ids
    BY <2>1 DEF TypeOK, CallStates
  <2>4. call[c].stage = "forwarded" => p # NoPending /\ p.disp = Owed(call[c].tool)
    <3>1. SUFFICES ASSUME call[c].stage = "forwarded"
                   PROVE  p # NoPending /\ p.disp = Owed(call[c].tool)
      OBVIOUS
    <3>2. p.call = c
      BY <2>1, <3>1 DEF Pairs, Expected
    <3>3. p # NoPending
      BY <3>2, ConstantsAssumption DEF NoPending
    <3> QED
      BY <2>3, <3>1, <3>2, <3>3 DEF Pairs, Tracked
  <2>5. ASSUME NEW q \in replies' \ replies, q.form = "raw"
        PROVE  q.call = c /\ (q.error \/ p.disp = "none" \/ p = NoPending)
    <3>1. CASE p # NoPending
      <4>1. DeliverToolResult(c, p, e)
        BY <1>9, <3>1 DEF UpstreamResponse
      <4>2. \/ /\ e \/ p.disp = "none"
               /\ replies' = replies \cup {[call |-> c, form |-> "raw", error |-> e]}
            \/ replies' = replies \cup {[call |-> c, form |-> "notice", error |-> e]}
            \/ replies' = replies
        BY <4>1 DEF DeliverToolResult, Deliver
      <4> HIDE DEF p
      <4> QED
        BY <2>5, <4>2
    <3>2. CASE p = NoPending
      <4>1. \E form : replies' = replies \cup {[call |-> c, form |-> form, error |-> e]}
        BY <1>9, <3>2 DEF UpstreamResponse, Deliver
      <4> QED
        BY <2>5, <3>2, <4>1
    <3> QED
      BY <3>1, <3>2
  <2> HIDE DEF p
  <2>6. \A d \in Calls : call'[d].stage = "forwarded" => Kept(d)
    BY <2>1, <2>4, <2>5
  <2> HIDE DEF Fresh, Kept
  <2> QED
    BY <1>2, <2>6
\* A scan that returns: raw only under the posture, and then on the record.
<1>10. ASSUME NEW res \in {"light", "heavy", "failed"}, RedactionReturns(res)
       PROVE  ProtectedDataStaysProtected'
  <2> DEFINE c == scanning.call
  <2>1. c \in Calls /\ scanning.pending = c
    BY <1>10 DEF RedactionReturns, TypeOK, Pairs, ScanPairs
  <2>2. call' = call
    BY <1>10 DEF RedactionReturns
  <2>3. ASSUME NEW q \in replies' \ replies, q.form = "raw"
        PROVE  /\ q.call = c /\ "redaction" \in OpenPosture
               /\ audit' = Append(audit, Event("redaction_error_fail_open", c))
    <3>1. \/ replies' = replies \cup {[call |-> c, form |-> "scrubbed", error |-> FALSE]}
          \/ /\ audit' = Append(audit, Event(ScanFailure, c))
             /\ replies' = replies \cup
                  {[call |-> c, form |-> IF "redaction" \in OpenPosture THEN "raw" ELSE "withheld",
                    error |-> FALSE]}
      BY <1>10, <2>1 DEF RedactionReturns, Deliver
    <3> HIDE DEF c
    <3>2. q.call = c /\ "redaction" \in OpenPosture /\ audit' = Append(audit, Event(ScanFailure, c))
      BY <2>3, <3>1
    <3> QED
      BY <3>2 DEF ScanFailure
  <2> HIDE DEF c
  <2>4. ASSUME audit' = Append(audit, Event("redaction_error_fail_open", c))
        PROVE  \E k \in DOMAIN audit' :
                 audit'[k].event = "redaction_error_fail_open" /\ audit'[k].call = c
    <3> DEFINE e == Event("redaction_error_fail_open", c)
    <3>1. e.event = "redaction_error_fail_open" /\ e.call = c
      BY DEF Event
    <3> HIDE DEF e
    <3>2. audit \in Seq(AuditRecords) /\ audit' = Append(audit, e)
      BY <2>4 DEF TypeOK, e
    <3>3. Len(audit) + 1 \in DOMAIN audit' /\ audit'[Len(audit) + 1] = e
      BY <3>2
    <3> QED
      BY <3>1, <3>3
  <2>5. \A d \in Calls : call'[d].stage = "forwarded" => Kept(d)
    BY <2>2, <2>3, <2>4
  <2> HIDE DEF Fresh, Kept
  <2> QED
    BY <1>2, <2>5
<1>11. CASE UNCHANGED vars
  <2>1. call' = call /\ replies' = replies
    BY <1>11 DEF vars
  <2>2. \A d \in Calls : call'[d].stage = "forwarded" => Kept(d)
    BY <2>1
  <2> HIDE DEF Fresh, Kept
  <2> QED
    BY <1>2, <2>2
<1> QED
  BY <1>4, <1>5, <1>6, <1>7, <1>8, <1>9, <1>10, <1>11, Steps

\* While clients do not reuse the id of a request in flight, for every policy,
\* posture and interleaving: no result that a redact or quarantine rule protects
\* is delivered raw, errors and recorded fail-open releases excepted, and PII in
\* arguments leaves scrubbed.
THEOREM ProtectionHolds == ~IdReuse => (Spec => []ProtectedDataStaysProtected)
<1> SUFFICES ASSUME ~IdReuse PROVE Spec => []ProtectedDataStaysProtected
  OBVIOUS
<1> DEFINE Guarded == DecidedOnce /\ WaitingPassed /\ Pairs /\ ProtectedDataStaysProtected
<1>1. Init => Guarded
  <2> SUFFICES ASSUME Init PROVE Guarded
    OBVIOUS
  <2>1. /\ \A c \in Calls : call[c] = NewCall
        /\ sent = <<>> /\ answered = {} /\ replies = {} /\ scanning = NotScanning
        /\ \A i \in Ids : pending[i] = NoPending
    BY DEF Init
  <2>2. DecidedOnce /\ WaitingPassed
    BY <2>1 DEF DecidedOnce, WaitingPassed, NewCall
  <2>3. Range(sent) = {}
    BY <2>1 DEF Range
  <2>4. OneInFlight
    BY <2>1 DEF OneInFlight, InFlight, NewCall
  <2>5. Unreplied /\ AnsweredWereSent /\ ScanPairs /\ Tracked /\ Expected
    BY <2>1, <2>3 DEF Unreplied, AnsweredWereSent, ScanPairs, Tracked, Expected
  <2>6. ProtectedDataStaysProtected
    BY <2>1 DEF ProtectedDataStaysProtected, NewCall
  <2> QED
    BY <2>2, <2>4, <2>5, <2>6 DEF Pairs
<1>2. TypeOK /\ Guarded /\ [Next]_vars => Guarded'
  BY DecidedOnceStep, WaitingStep, PairsStep, ProtectedStep
<1> QED
  BY <1>1, <1>2, TypeCorrect, PTL DEF Spec

\* How far a fail-open posture reaches, for every policy and posture while ids in
\* flight are unique: past stages that raised and scans that failed, on the
\* record, and never past a policy denial or a finished scan.
THEOREM FailOpenReach == ~IdReuse => (Spec => []FailOpenIsBounded)
<1> SUFFICES ASSUME ~IdReuse PROVE Spec => []FailOpenIsBounded
  OBVIOUS
<1>1. PolicyDenialsHold /\ ProtectedDataStaysProtected => FailOpenIsBounded
  BY DEF FailOpenIsBounded
<1>2. Spec => []ProtectedDataStaysProtected
  BY ProtectionHolds
<1> QED
  BY <1>1, <1>2, PolicyDenialsAreFinal, PTL
=============================================================================
