------------------------------- MODULE Policy -------------------------------
(* The policy engine: documents are validated (policy/loader.py), layers are  *)
(* merged (policy/merge.py), rules are compiled per role and a tool name is   *)
(* matched to the rule that decides it (policy/engine.py, policy/matcher.py). *)
(*                                                                            *)
(* A document is a record; the rule of a pattern is a function on the fields  *)
(* it names, so a field that is left out is a point outside its domain and a  *)
(* field that is there and null has the value Unset.                          *)
(* Globs are abstracted to the names they match and to their specificity.     *)
EXTENDS Naturals, FiniteSets, SequencesExt

CONSTANTS Tools,        \* tool names; each is also a literal pattern
          Globs,        \* glob patterns; as strings they could name a tool too
          Covers,       \* glob -> the names it matches (fnmatch)
          Specificity,  \* glob -> its count of literal characters
          Roles,        \* roles an overlay may name
          NoRole,       \* the caller has no role
          Unset,        \* null, or a document field that is absent
          NoPattern,    \* no rule matches
          PolicyError   \* no engine: a PolicyError, or another exception of the load

Names == Tools \cup Globs

ACTION_VOCABULARY == {"allow", "block", "redact", "rewrite", "quarantine",
                      "require_approval"}

ASSUME NamesAssumption ==
  /\ NoPattern \notin Names /\ \A g \in Globs : Specificity[g] \in Nat
  /\ NoRole \notin Roles /\ IsFiniteSet(Roles)
  /\ Unset \notin ACTION_VOCABULARY

RULE_FIELDS == {"action", "reason", "constraints", "rewrites", "redaction",
                "roles", "then", "replace"}
OVERLAY_FIELDS == RULE_FIELDS \ {"roles", "replace"}
FAILURE_FIELDS == {"default", "pipeline", "redaction", "approval"}
RISK_FIELDS == {"weights", "elevated_at", "suspend_at"}
CATEGORIES == FAILURE_FIELDS \ {"default"}
Profiles == {"secrets-only", "standard", "strict", "reversible"}

Has(rule, f) == f \in DOMAIN rule
Get(rule, f, default) == IF Has(rule, f) THEN rule[f] ELSE default
Null(rule, f) == Has(rule, f) /\ rule[f] = Unset
Without(rule, fields) == [f \in DOMAIN rule \ fields |-> rule[f]]

\* The entries of new, and those of old it does not name.
Over(new, old) == [f \in DOMAIN new \cup DOMAIN old |-> IF Has(new, f) THEN new[f] ELSE old[f]]

Only(f, value) == [x \in {f} |-> value]

-----------------------------------------------------------------------------
(* Validation.  A constraint names the argument values its patterns match.    *)

ValidConstraint(c) == /\ DOMAIN c \subseteq {"must_match", "must_not_match"}
                      /\ DOMAIN c # {}

\* A null action, then, constraints or roles is not looked at.
ValidFields(rule, allowed) ==
  /\ DOMAIN rule \subseteq allowed
  /\ Get(rule, "action", Unset) \in ACTION_VOCABULARY \cup {Unset}
  /\ Get(rule, "then", Unset) \in ACTION_VOCABULARY \cup {Unset}
  /\ Get(rule, "redaction", "standard") \in Profiles
  /\ Get(rule, "constraints", Unset) # Unset => \A c \in rule.constraints : ValidConstraint(c)

\* The overlays of a rule, none when its roles are absent or null.
RolesIn(rule) == IF Get(rule, "roles", Unset) = Unset THEN <<>> ELSE rule.roles

\* Mutant of _validate_rule: the role overlays are not validated.
ValidateRuleBaseOnly(rule) == ValidFields(rule, RULE_FIELDS)

_validate_rule(rule) ==
  /\ ValidFields(rule, RULE_FIELDS)
  /\ \A role \in DOMAIN RolesIn(rule) : ValidFields(rule.roles[role], OVERLAY_FIELDS)

\* The bare mode string is the function on "mode" alone.
_validate_on_failure(value) ==
  value # Unset => /\ DOMAIN value = {"mode"} \/ DOMAIN value \subseteq FAILURE_FIELDS
                   /\ \A f \in DOMAIN value : value[f] \in {"open", "closed"}

\* Null weights pass the loader; the merge raises on them.
_validate_risk(value) ==
  value = Unset \/ (DOMAIN value \subseteq RISK_FIELDS /\ ~Null(value, "weights"))

\* An absent list is an empty one.
_validate_str_list(names) == IF names = Unset THEN {} ELSE names

_validate_sequence_rules(rules) ==
  rules # Unset => \A i \in DOMAIN rules :
                     /\ DOMAIN rules[i] \subseteq {"after", "forbid", "reason"}
                     /\ {"after", "forbid"} \subseteq DOMAIN rules[i]

\* A document is refused as a whole for any defect.  The layer is the document.
parse_document(doc) ==
  IF /\ doc.schema_version = 1
     /\ doc.default_action \in {Unset, "allow", "block"}
     /\ \A i \in DOMAIN doc.tools : _validate_rule(doc.tools[i].rule)
     /\ _validate_sequence_rules(doc.sequence_rules)
     /\ _validate_on_failure(doc.on_failure)
     /\ _validate_risk(doc.risk)
    THEN doc
    ELSE PolicyError

-----------------------------------------------------------------------------
(* Merging.  Patterns keep the place of their first declaration.              *)

NoRules == [order |-> <<>>, rules |-> <<>>, default_action |-> "block",
            taint_sources |-> {}, taint_sinks |-> {}, sequence_rules |-> <<>>,
            risk |-> <<>>, on_failure |-> Unset]

\* A later layer replaces only the fields it names; roles are replaced one by
\* one, and null roles of the later layer are dropped.
FieldMerge(old, new) ==
  LET fields == Over(Without(new, {"roles"}), old) IN
  IF Get(new, "roles", Unset) = Unset THEN fields
  ELSE Over(Only("roles", Over(new.roles, RolesIn(old))), fields)

\* Mutant of MergeRule: a restated rule replaces the earlier one entirely.
MergeRuleReplacing(m, entry) ==
  [m EXCEPT !.rules = Over(Only(entry.pattern, Without(entry.rule, {"replace"})), @),
            !.order = IF entry.pattern \in DOMAIN m.rules THEN @ ELSE Append(@, entry.pattern)]

MergeRule(m, entry) ==
  LET p        == entry.pattern
      incoming == Without(entry.rule, {"replace"})
  IN IF p \notin DOMAIN m.rules
       THEN [m EXCEPT !.rules = Over(Only(p, incoming), @), !.order = Append(@, p)]
       ELSE [m EXCEPT !.rules[p] = IF Get(entry.rule, "replace", FALSE)
                                     THEN incoming ELSE FieldMerge(@, incoming)]

\* risk: last layer wins per key, except that the weights merge per event.
MergeRisk(old, new) ==
  IF new = Unset THEN old
  ELSE LET weights == Over(Get(new, "weights", <<>>), Get(old, "weights", <<>>))
           flat    == Over(new, old)
       IN IF DOMAIN weights = {} THEN flat ELSE Over(Only("weights", weights), flat)

\* Taint lists and sequence rules only ever add up.
MergeFlow(m, layer) ==
  [m EXCEPT !.taint_sources = @ \cup _validate_str_list(layer.taint_sources),
            !.taint_sinks = @ \cup _validate_str_list(layer.taint_sinks),
            !.sequence_rules = IF layer.sequence_rules = Unset THEN @ ELSE @ \o layer.sequence_rules]

\* The rules of a layer, one after the other.
MergeRules(m, tools) ==
  LET merged[n \in 0..Len(tools)] ==
        IF n = 0 THEN m ELSE MergeRule(merged[n - 1], tools[n]) IN
  merged[Len(tools)]

\* Mutant of MergeLayer: on_failure is merged field by field.
MergeLayerMixing(m, layer) ==
  MergeRules(
    [MergeFlow(m, layer) EXCEPT
              !.default_action = IF layer.default_action = Unset THEN @ ELSE layer.default_action,
              !.risk = MergeRisk(@, layer.risk),
              !.on_failure = IF layer.on_failure = Unset THEN @
                             ELSE IF @ = Unset THEN layer.on_failure
                                  ELSE Over(layer.on_failure, @)],
    layer.tools)

MergeLayer(m, layer) ==
  MergeRules(
    [MergeFlow(m, layer) EXCEPT
              !.default_action = IF layer.default_action = Unset THEN @ ELSE layer.default_action,
              !.risk = MergeRisk(@, layer.risk),
              !.on_failure = IF layer.on_failure = Unset THEN @ ELSE layer.on_failure],
    layer.tools)

merge_layers(layers) ==
  LET merged[n \in 0..Len(layers)] ==
        IF n = 0 THEN NoRules ELSE MergeLayer(merged[n - 1], layers[n]) IN
  merged[Len(layers)]

-----------------------------------------------------------------------------
(* Compilation and evaluation.                                                *)

\* A role's overlay is laid over the base fields when the rule is compiled.
_compile(raw) ==
  LET base == Without(raw, {"roles"}) IN
  [base |-> base,
   overlays |-> [role \in DOMAIN RolesIn(raw) |-> Over(raw.roles[role], base)]]

\* merge_layers raises when a layer gives roles to a rule whose roles are null.
MergeRaises(documents) ==
  \E i \in DOMAIN documents : \E e \in ToSet(documents[i].tools) :
    /\ Get(e.rule, "roles", Unset) # Unset /\ ~Get(e.rule, "replace", FALSE)
    /\ LET before == merge_layers(SubSeq(documents, 1, i - 1)).rules IN
       e.pattern \in DOMAIN before /\ Null(before[e.pattern], "roles")

\* _compile refuses a rule with no action and raises on null roles, constraints
\* or rewrites; a null action is there as any other.
CompileFails(raw) ==
  LET rule    == _compile(raw)
      reached == {rule.base} \cup {rule.overlays[r] : r \in DOMAIN rule.overlays}
  IN \/ ~Has(raw, "action") \/ Null(raw, "roles")
     \/ \E eff \in reached : Null(eff, "constraints") \/ Null(eff, "rewrites")

\* PolicyEngine.load: every layer parses, and every merged rule compiles.
PolicyEngine(documents) ==
  LET m == merge_layers(documents) IN
  IF \/ documents = <<>>
     \/ \E i \in DOMAIN documents : parse_document(documents[i]) = PolicyError
     \/ MergeRaises(documents)
     \/ \E p \in DOMAIN m.rules : CompileFails(m.rules[p])
    THEN PolicyError
    ELSE m

declared_roles(engine) ==
  UNION {DOMAIN RolesIn(engine.rules[p]) : p \in DOMAIN engine.rules}

for_role(rule, role) == IF role \in DOMAIN rule.overlays THEN rule.overlays[role] ELSE rule.base

\* Mutant of Better: equal specificity goes to the earlier pattern.
BetterEarlier(best, g) == best = NoPattern \/ Specificity[g] > Specificity[best]

\* Scanning in merged order: (specificity, index) of g exceeds the best so far.
Better(best, g) == best = NoPattern \/ Specificity[g] >= Specificity[best]

Matches(p, name) == p \in Globs /\ name \in Covers[p]

Scan(name, best, p) == IF Matches(p, name) /\ Better(best, p) THEN p ELSE best

match(order, name) ==
  IF name \in Tools /\ name \in ToSet(order) THEN name
  ELSE LET best[n \in 0..Len(order)] ==
             IF n = 0 THEN NoPattern ELSE Scan(name, best[n - 1], order[n]) IN
       best[Len(order)]

evaluate(engine, name, role) ==
  LET p == match(engine.order, name) IN
  IF p = NoPattern
    THEN [action |-> engine.default_action, rule |-> NoPattern, constraints |-> {},
          then |-> "allow"]
    ELSE LET eff == for_role(_compile(engine.rules[p]), role) IN
         [action |-> eff.action, rule |-> p, constraints |-> Get(eff, "constraints", {}),
          then |-> Get(eff, "then", "allow")]

\* RegexConstraint.check: an absent argument is checked as the empty string.
Check(c, value) ==
  /\ Has(c, "must_match") => value \in c.must_match
  /\ Has(c, "must_not_match") => value \notin c.must_not_match

\* FailurePosture.from_config: a mode for all, or a default with exceptions.
FailurePosture(on_failure) ==
  [c \in CATEGORIES |->
     IF on_failure = Unset THEN "closed"
     ELSE IF Has(on_failure, "mode") THEN on_failure.mode
     ELSE Get(on_failure, c, Get(on_failure, "default", "closed"))]
=============================================================================
