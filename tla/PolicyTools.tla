---------------------------- MODULE PolicyTools ----------------------------
(* What the policy tooling computes from engines: the blast radius of a       *)
(* change (policy/diff.py), the replay of recorded calls (policy/backtest.py),*)
(* golden cases (policy/testing.py) and the CI gate (policy/ci.py), with the  *)
(* exit codes of their commands (cli).  Reports are kept as the sets of facts *)
(* they state; their rendering is left out.                                   *)
EXTENDS Policy

CONSTANTS Broken        \* a file that is there and does not load

\* The handlers a gateway with a redaction service and no broker runs.
effective_deny_set == {"block", "require_approval"}

-----------------------------------------------------------------------------
(* The diff of one pack.  A target is Unset when that side has no such pack;  *)
(* otherwise it has its layers and its inventory (a set, or Broken).  A load  *)
(* that raises anything but a GatewayError ends the command instead.          *)

STRENGTH == [allow |-> 0, rewrite |-> 1, redact |-> 1, quarantine |-> 2,
             require_approval |-> 3, block |-> 4]

\* A null action has no rank.
classify(base, head) ==
  LET ranked == {base, head} \subseteq DOMAIN STRENGTH IN
  CASE ranked /\ STRENGTH[head] < STRENGTH[base] -> "loosened"
    [] ranked /\ STRENGTH[head] > STRENGTH[base] -> "tightened"
    [] OTHER                                     -> "changed"

Compiled(target) == IF target = Unset THEN Unset ELSE PolicyEngine(target.layers)

Exists(engine) == engine \notin {Unset, PolicyError}

\* _tool_surface: the inventory and the literal patterns of one side.
_tool_surface(target, engine) ==
  (IF target = Unset \/ target.inventory = Broken THEN {} ELSE target.inventory)
    \cup (IF Exists(engine) THEN ToSet(engine.order) \cap Tools ELSE {})

\* The rules of one side in their order; Show picks the globs among them.
_glob_only_patterns(engine) == IF Exists(engine) THEN engine.order ELSE <<>>

RolesOf(engine) == IF Exists(engine) THEN declared_roles(engine) ELSE {}

\* Mutant of RoleViews: only the roles the new policy declares are viewed.
RoleViewsOfHead(base, head) == {NoRole} \cup RolesOf(head)

RoleViews(base, head) == {NoRole} \cup RolesOf(base) \cup RolesOf(head)

Concrete(base, head, b, h) == _tool_surface(base, b) \cup _tool_surface(head, h)

\* Mutant of Show: a glob no name matches is left out.
ShowNamesOnly(tools, p) == tools

\* A glob that matches nothing shown so far, names or globs, is shown itself.
Show(tools, p) ==
  IF p \in Globs /\ \A t \in tools : t \notin Covers[p] THEN tools \cup {p} ELSE tools

\* The patterns one after the other, from the names of both sides.
ShowAll(names, patterns) ==
  LET shown[n \in 0..Len(patterns)] ==
        IF n = 0 THEN names ELSE Show(shown[n - 1], patterns[n]) IN
  shown[Len(patterns)]

Surface(base, head, b, h) ==
  ShowAll(Concrete(base, head, b, h), _glob_only_patterns(b) \o _glob_only_patterns(h))

Row(name, role, was, now) ==
  [tool |-> name, role |-> role, base |-> was, head |-> now,
   kind |-> classify(was, now),
   crosses |-> was \in effective_deny_set /\ now \notin effective_deny_set]

diff_pack(base, head) ==
  LET b     == Compiled(base)
      h     == Compiled(head)
      names == Surface(base, head, b, h)
      roles == RoleViews(b, h)
      pairs == names \X roles
      act(e, pr) == evaluate(e, pr[1], pr[2]).action
      moved == {pr \in pairs : act(b, pr) # act(h, pr)}
  IN CASE Exists(b) /\ Exists(h) ->
            [state |-> IF moved = {} THEN "unchanged" ELSE "changed", examined |-> pairs,
             changed |-> {Row(pr[1], pr[2], act(b, pr), act(h, pr)) : pr \in moved}]
       [] Exists(h) /\ ~Exists(b) -> [state |-> "added", examined |-> pairs, changed |-> {}]
       [] Exists(b) /\ h = Unset  -> [state |-> "removed", examined |-> pairs, changed |-> {}]
       [] OTHER                   -> [state |-> "broken", examined |-> {}, changed |-> {}]

\* RepoDiff.clean for one pack, and the exit code of `policy diff`.
Clean(diff) == diff.state = "unchanged"

_run_policy_diff(diff, fail_on_crossing) ==
  IF fail_on_crossing /\ \E c \in diff.changed : c.crosses THEN 1 ELSE 0

-----------------------------------------------------------------------------
(* The backtest.  An event records a decided call; identical calls share a    *)
(* bucket.                                                                    *)

_outcome(action, deny) == IF action \in deny THEN "blocked" ELSE "allowed"

\* Mutant of BucketKey: the role is dropped from the key.
BucketKeyWithoutRole(ev) == [ev EXCEPT !.role = NoRole]

BucketKey(ev) == ev

ChangeKind(key, engine, deny) ==
  LET now == evaluate(engine, key.tool, key.role).action IN
  IF _outcome(now, deny) # key.outcome
  THEN IF key.outcome = "allowed" THEN "newly_blocked" ELSE "newly_allowed"
  ELSE IF key.outcome = "allowed" /\ key.action \notin {Unset, now}
       THEN "action_changed" ELSE "unchanged"

\* events gives the recorded call at each place of a spool; the report counts
\* the calls and lists what flips.
backtest_policy(events, engine, deny) ==
  LET buckets == {BucketKey(events[i]) : i \in DOMAIN events} IN
  [examined |-> Cardinality(DOMAIN events),
   changed  |-> {k \in buckets : ChangeKind(k, engine, deny) # "unchanged"}]

\* What a gateway running the engine records for a call that the policy alone
\* decides.  A refused call, one with a null action too, is recorded without
\* its role.
Recorded(engine, tool, role, deny) ==
  LET action == evaluate(engine, tool, role).action IN
  IF action \in deny \cup {Unset}
    THEN [tool |-> tool, role |-> NoRole, outcome |-> "blocked", action |-> Unset]
    ELSE [tool |-> tool, role |-> role, outcome |-> "allowed", action |-> action]

\* What `policy ci` writes for it instead: the role is always there.
Synthetic(engine, tool, role, deny) ==
  LET action == evaluate(engine, tool, role).action IN
  [tool |-> tool, role |-> role, outcome |-> _outcome(action, deny),
   action |-> IF action \in deny THEN Unset ELSE action]

_write_synthetic_spool(engine, tools, roles, deny) ==
  [c \in tools \X roles |-> Synthetic(engine, c[1], c[2], deny)]

-----------------------------------------------------------------------------
(* Golden cases: policy, constraints and action stages, no session state.     *)

\* The stage that refuses the call, or "" when it goes through; a null action
\* has no handler.
Denier(engine, case) ==
  LET d == evaluate(engine, case.tool, case.role) IN
  IF \E c \in d.constraints : ~Check(c, case.argument) THEN "constraints"
  ELSE IF d.action \in effective_deny_set \cup {Unset} THEN "action" ELSE ""

\* expect names an outcome and, optionally, an action and a stage.
_run_case(engine, case) ==
  LET stage == Denier(engine, case) IN
  /\ case.expect.outcome = (IF stage = "" THEN "allow" ELSE "deny")
  /\ Has(case.expect, "action") =>
        case.expect.action = evaluate(engine, case.tool, case.role).action
  /\ Has(case.expect, "stage") => case.expect.stage = stage

-----------------------------------------------------------------------------
(* Policy CI.  A target is a connector pack or a policy file; its checks are  *)
(* the ones that ran, "crash" marking an error no check catches.              *)

Outcome(name, ok) == [check |-> name, ok |-> ok]

_check_goldens(target, engine, min) ==
  CASE target.tests = Unset -> {Outcome("goldens", target.kind = "policy")}
    [] target.tests = Broken -> {Outcome("goldens", FALSE)}
    [] OTHER -> {Outcome("goldens",
                   /\ Cardinality(target.tests) >= min
                   /\ \A case \in target.tests : _run_case(engine, case))}

\* Mutant of _check_coverage: a tool the default decides counts as covered.
CheckCoverageByDecision(target, engine) ==
  IF target.kind = "policy" THEN {}
  ELSE IF target.inventory = Broken THEN {Outcome("coverage", FALSE)}
  ELSE {Outcome("coverage", \A t \in target.inventory :
                               evaluate(engine, t, NoRole).action \in ACTION_VOCABULARY)}

_check_coverage(target, engine) ==
  IF target.kind = "policy" THEN {}
  ELSE IF target.inventory = Broken THEN {Outcome("coverage", FALSE)}
  ELSE {Outcome("coverage", \A t \in target.inventory :
                               evaluate(engine, t, NoRole).rule # NoPattern)}

\* The inventory, and in its place the goldens' tools, are read again here
\* with nothing to catch a file that does not load.
_check_backtest(target, engine) ==
  LET fromTests == IF target.tests = Unset THEN {} ELSE {c.tool : c \in target.tests}
      listed    == IF target.kind = "connector" THEN target.inventory ELSE {}
      tools     == IF listed = {} THEN fromTests ELSE listed
      roles     == {NoRole} \cup declared_roles(engine)
      result    == backtest_policy(
                     _write_synthetic_spool(engine, tools, roles, effective_deny_set),
                     engine, effective_deny_set)
  IN IF listed = Broken \/ (listed = {} /\ target.tests = Broken)
       THEN {Outcome("crash", FALSE)}
       ELSE {Outcome("backtest",
               tools # {} => /\ result.examined = Cardinality(tools) * Cardinality(roles)
                             /\ result.changed = {})}

check_target(target, min, backtest) ==
  LET engine == PolicyEngine(target.layers) IN
  IF target.error \/ engine = PolicyError THEN {Outcome("validate", FALSE)}
  ELSE UNION { {Outcome("validate", TRUE)},
               _check_goldens(target, engine, min),
               _check_coverage(target, engine),
               IF backtest THEN _check_backtest(target, engine) ELSE {} }

\* Targets by name, restricted to `only` when it is not empty; a wanted name
\* with no target is a failed check.
run_policy_ci(targets, only, min, backtest) ==
  LET chosen  == IF only = {} THEN DOMAIN targets ELSE DOMAIN targets \cap only
      missing == only \ DOMAIN targets
  IN (UNION {check_target(targets[n], min, backtest) : n \in chosen})
       \cup {Outcome("validate", FALSE) : n \in missing}

\* The exit code of `policy ci`.
_run_policy_ci(targets, only, min, backtest) ==
  IF \A c \in run_policy_ci(targets, only, min, backtest) : c.ok THEN 0 ELSE 1
=============================================================================
