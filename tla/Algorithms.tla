----------------------------- MODULE Algorithms -----------------------------
(* The pure algorithms against reference definitions.  The state is one input *)
(* of one of them, grown a rule, a layer or a span at a time; the invariants  *)
(* compute the algorithm on the input and compare.                            *)
EXTENDS Central, Redaction

CONSTANTS
  PolicyRules, PolicyPatterns, MaxRules, MaxLayers,     \* layered policies
  Settings,                                             \* on_failure and risk
  DiffRules, DiffPatterns, MaxSideRules, Inventories,   \* two revisions of a pack
  CiTargets, Onlys, MinGoldens,                         \* CI runs
  Spans, MaxSpans, TextLength, Nears, RedactProfiles,   \* claims on a text
  Upstreams, MaxUpstreams, Backends, Identities, Credentials  \* central mode

\* Layers as the files are read: sequences of documents whose tools are
\* sequences of entries, before anything is validated.
NamesRoles(rule) == DOMAIN RolesIn(rule) \subseteq Roles

WellFormed(layers) ==
  /\ layers \in Seq(ToSet(layers))
  /\ \A i \in DOMAIN layers :
       LET tools == layers[i].tools IN
       /\ tools \in Seq(ToSet(tools))
       /\ \A j \in DOMAIN tools : tools[j].pattern \in Names /\ NamesRoles(tools[j].rule)

ASSUME InputsAssumption ==
  /\ PolicyPatterns \cup DiffPatterns \subseteq Names
  /\ \A rule \in PolicyRules \cup DiffRules : NamesRoles(rule)
  /\ \A s \in Settings :
       LET rules == Get(s, "sequence_rules", Unset) IN
       ~Has(s, "tools") /\ (rules # Unset => rules \in Seq(ToSet(rules)))

ASSUME TargetsAssumption ==
  /\ Broken # Unset /\ Broken # {}
  /\ \A t \in CiTargets :
       /\ t.kind \in {"connector", "policy"} /\ t.error \in BOOLEAN /\ WellFormed(t.layers)
       /\ t.inventory # Broken => IsFiniteSet(t.inventory)
       /\ t.tests \notin {Unset, Broken} => IsFiniteSet(t.tests)

\* Spans are not empty and lie in the text.
ASSUME SpansAssumption ==
  /\ TextLength \in Nat /\ KeepLast \in Nat /\ ContextBoost \in Nat
  /\ \A s \in Spans :
       /\ DOMAIN s = {"entity", "start", "end", "confidence"}
       /\ s.start \in Nat /\ s.end \in Nat /\ s.confidence \in Nat
       /\ s.start < s.end /\ s.end <= TextLength

\* JSON values of bounded depth; "[]" stands for a place in a list.
ASSUME JsonAssumption ==
  /\ MaxDepth \in Nat /\ "[]" \notin SensitiveKeys \cup ExcludedKeys
  /\ \A v \in JsonValues :
       /\ Depth[v] \in 0..MaxDepth
       /\ v.t = "str" => v = [t |-> "str", c |-> v.c]
       /\ v.t = "list" =>
            /\ v = [t |-> "list", items |-> v.items]
            /\ \A i \in DOMAIN v.items : v.items[i] \in JsonValues /\ Depth[v.items[i]] < Depth[v]
       /\ v.t = "dict" =>
            /\ v = [t |-> "dict", fields |-> v.fields]
            /\ \A k \in DOMAIN v.fields : v.fields[k] \in JsonValues /\ Depth[v.fields[k]] < Depth[v]

\* A digest is not a token, nor need it be a key's; Unset is no document.
ASSUME IdentityAssumption ==
  /\ Identities \subseteq {Unset, Broken} \cup DOMAIN IdentityFiles
  /\ DOMAIN Bearers \subseteq Credentials /\ Unset \notin DOMAIN Bearers
  /\ \A f \in DOMAIN IdentityFiles :
       LET keys == IdentityFiles[f].api_keys IN
       /\ keys \in Seq(ToSet(keys)) /\ keys # Unset
       /\ \A i \in DOMAIN keys : keys[i].digest \notin DOMAIN Bearers
       /\ \A oidc \in {Unset, IdentityFiles[f].oidc}, k \in {Unset, keys} :
            [oidc |-> oidc, api_keys |-> k] # Unset

VARIABLE input

vars == input

Doc == [schema_version |-> 1, default_action |-> Unset, tools |-> <<>>,
        taint_sources |-> Unset, taint_sinks |-> Unset, sequence_rules |-> Unset,
        on_failure |-> Unset, risk |-> Unset]

Side(default, inventory) ==
  [layers |-> <<[Doc EXCEPT !.default_action = default]>>, inventory |-> inventory]

Init ==
  \/ \E k \in {"policy", "settings"} : input = [kind |-> k, layers |-> <<Doc>>]
  \/ \E b, h \in {Side(d, i) : d \in {"allow", "block"}, i \in Inventories} \cup {Unset} :
       /\ b # Unset \/ h # Unset
       /\ input = [kind |-> "diff", base |-> b, head |-> h]
  \/ \E t \in CiTargets, only \in Onlys, bt \in BOOLEAN :
       input = [kind |-> "ci", target |-> t, only |-> only, backtest |-> bt]
  \/ \E near \in Nears, p \in RedactProfiles :
       input = [kind |-> "text", found |-> <<>>, denied |-> <<>>, near |-> near, profile |-> p]
  \/ \E v \in JsonValues : input = [kind |-> "json", value |-> v]
  \/ \E b \in Backends, i \in Identities :
       input = [kind |-> "central", doc |-> [upstreams |-> <<>>, backend |-> b.backend,
                                             url |-> b.url, identity |-> i]]

Patterns(doc) == {doc.tools[i].pattern : i \in DOMAIN doc.tools}

RuleCount(layers) ==
  LET add(n, doc) == n + Len(doc.tools) IN FoldLeft(add, 0, layers)

WithRule(layers, p, rule) ==
  [layers EXCEPT ![Len(layers)].tools = Append(@, [pattern |-> p, rule |-> rule])]

\* The author writes another rule of the last layer, or starts another layer.
AddRule(p, rule) ==
  /\ input.kind = "policy"
  /\ RuleCount(input.layers) < MaxRules
  /\ p \notin Patterns(Last(input.layers))
  /\ input' = [input EXCEPT !.layers = WithRule(@, p, rule)]

AddLayer ==
  /\ input.kind = "policy"
  /\ Len(input.layers) < MaxLayers
  /\ input' = [input EXCEPT !.layers = Append(@, Doc)]

AddSettings(s) ==
  /\ input.kind = "settings"
  /\ Len(input.layers) <= MaxLayers
  /\ input' = [input EXCEPT !.layers =
                 Append(@, [f \in DOMAIN Doc |-> Get(s, f, Doc[f])])]

\* One side of a change gets another rule.
AddSideRule(side, p, rule) ==
  /\ input.kind = "diff"
  /\ input[side] # Unset
  /\ Len(input[side].layers[1].tools) < MaxSideRules
  /\ p \notin Patterns(input[side].layers[1])
  /\ input' = [input EXCEPT ![side].layers = WithRule(@, p, rule)]

\* A detector claims a span, or a denylisted literal is found.
AddSpan(s) ==
  /\ input.kind = "text"
  /\ Len(input.found) + Len(input.denied) < MaxSpans
  /\ IF s.entity = "CUSTOM_TERM"
       THEN input' = [input EXCEPT !.denied = Append(@, s)]
       ELSE input' = [input EXCEPT !.found = Append(@, s)]

\* The operator lists another upstream.
AddUpstream(up) ==
  /\ input.kind = "central"
  /\ Len(input.doc.upstreams) < MaxUpstreams
  /\ input' = [input EXCEPT !.doc.upstreams = Append(@, up)]

Next == \/ \E p \in PolicyPatterns, rule \in PolicyRules : AddRule(p, rule)
        \/ AddLayer
        \/ \E s \in Settings : AddSettings(s)
        \/ \E side \in {"base", "head"}, p \in DiffPatterns, rule \in DiffRules :
              AddSideRule(side, p, rule)
        \/ \E s \in Spans : AddSpan(s)
        \/ \E up \in Upstreams : AddUpstream(up)

Spec == Init /\ [][Next]_vars

-----------------------------------------------------------------------------
(* Policy.                                                                    *)

Layered == input.kind \in {"policy", "settings"}
Engine == PolicyEngine(input.layers)
Views == {NoRole} \cup Roles

\* The layers, of those that have pattern p, since the last that replaces it.
Shapers(p) ==
  LET at   == {i \in DOMAIN input.layers : p \in Patterns(input.layers[i])}
      rule == [i \in at |-> LET d == input.layers[i] IN
                 (CHOOSE e \in ToSet(d.tools) : e.pattern = p).rule]
      cut  == Max({Min(at)} \cup {i \in at : Get(rule[i], "replace", FALSE)})
  IN [i \in {j \in at : j >= cut} |-> rule[i]]

LastToSay(said) == said[Max(DOMAIN said)]

(* The merged value of every field of every rule, and of every role's         *)
(* overlay, is the one the last layer to name it gives, among the layers      *)
(* since the last that replaces the rule; a field no such layer names is      *)
(* absent.  So an override that only says block keeps the pack's constraints  *)
(* (merge.py merge_layers).                                                   *)
LastWriterWins ==
  Layered /\ Engine # PolicyError =>
    \A p \in DOMAIN Engine.rules :
      LET shapers == Shapers(p)
          merged  == Engine.rules[p]
          naming(f) == [i \in {j \in DOMAIN shapers : Has(shapers[j], f)} |-> shapers[i][f]]
          overlays(r) == [i \in {j \in DOMAIN shapers : r \in DOMAIN RolesIn(shapers[j])}
                            |-> shapers[i].roles[r]]
      IN /\ \A f \in OVERLAY_FIELDS :
              IF DOMAIN naming(f) = {} THEN ~Has(merged, f)
                                       ELSE Has(merged, f) /\ merged[f] = LastToSay(naming(f))
         /\ \A r \in Roles :
              IF DOMAIN overlays(r) = {} THEN r \notin DOMAIN RolesIn(merged)
                                         ELSE merged.roles[r] = LastToSay(overlays(r))

\* A layer gives pattern p a null action, for every caller or for the role.
WritesNull(p, role) ==
  \E i \in DOMAIN input.layers : \E e \in ToSet(input.layers[i].tools) :
    /\ e.pattern = p
    /\ \/ Null(e.rule, "action")
       \/ role \in DOMAIN RolesIn(e.rule) /\ Null(e.rule.roles[role], "action")

(* Whatever the documents say, an engine that loads decides every name for    *)
(* every role with a known action: a misspelt action or field, in a rule or   *)
(* in a role's overlay, refuses the policy instead.  The one exception is a   *)
(* name whose own rule some layer gave a null action, and no call of it goes  *)
(* through (loader.py _validate_rule, engine.py _compile, pipeline.py         *)
(* ActionStage).                                                              *)
OnlyKnownActions ==
  Layered /\ Engine # PolicyError =>
    \A n \in Names, r \in Views :
      LET d == evaluate(Engine, n, r) IN
      \/ d.action \in ACTION_VOCABULARY
      \/ /\ d.action = Unset /\ WritesNull(d.rule, r)
         /\ Denier(Engine, [tool |-> n, role |-> r, argument |-> "good"]) # ""

(* The rule that decides a name is the literal one if there is one, else a    *)
(* matching glob that no matching glob beats on specificity and then on the   *)
(* order of first declaration; the default applies only when nothing matches  *)
(* (matcher.py RuleMatcher.match, engine.py evaluate).                        *)
MostSpecificRuleDecides ==
  Layered /\ Engine # PolicyError =>
    \A n \in Names :
      LET d        == evaluate(Engine, n, NoRole)
          globs    == {i \in DOMAIN Engine.order :
                         Engine.order[i] \in Globs /\ n \in Covers[Engine.order[i]]}
          spec(i)  == Specificity[Engine.order[i]]
      IN CASE n \in Tools /\ n \in DOMAIN Engine.rules -> d.rule = n
           [] globs # {} /\ ~(n \in Tools /\ n \in DOMAIN Engine.rules) ->
                \E i \in globs : /\ d.rule = Engine.order[i]
                                 /\ \A j \in globs : \/ spec(i) > spec(j)
                                                     \/ spec(i) = spec(j) /\ i >= j
           [] OTHER -> d.rule = NoPattern /\ d.action = Engine.default_action

(* The failure posture is the one the last layer to set on_failure asks for,  *)
(* closed for every category it leaves open to its default, and untouched by  *)
(* earlier layers; the risk weights of all layers apply, the last one per     *)
(* event; and no layer takes away a taint source, a sink or a sequence rule   *)
(* of an earlier one (merge.py, failure.py from_config).                      *)
SettingsOfTheLastLayer ==
  input.kind = "settings" /\ Engine # PolicyError =>
    LET setters == {i \in DOMAIN input.layers : input.layers[i].on_failure # Unset}
        asked   == input.layers[Max(setters)].on_failure
        open(c) == /\ setters # {}
                   /\ "open" = IF Has(asked, "mode") THEN asked.mode
                               ELSE IF Has(asked, c) THEN asked[c] ELSE Get(asked, "default", "closed")
        risky   == {i \in DOMAIN input.layers : input.layers[i].risk # Unset}
        weigh(e) == {i \in risky : e \in DOMAIN Get(input.layers[i].risk, "weights", <<>>)}
        events  == UNION {DOMAIN Get(input.layers[i].risk, "weights", <<>>) : i \in risky}
        weights == Get(Engine.risk, "weights", <<>>)
        all(f)  == UNION {_validate_str_list(input.layers[i][f]) : i \in DOMAIN input.layers}
        ruled   == {i \in DOMAIN input.layers : input.layers[i].sequence_rules # Unset}
    IN /\ Engine.taint_sources = all("taint_sources") /\ Engine.taint_sinks = all("taint_sinks")
       /\ ToSet(Engine.sequence_rules) = UNION {ToSet(input.layers[i].sequence_rules) : i \in ruled}
       /\ \A c \in CATEGORIES : (FailurePosture(Engine.on_failure)[c] = "open") = open(c)
       /\ DOMAIN weights = events
       /\ \A e \in events : weights[e] = input.layers[Max(weigh(e))].risk.weights[e]

-----------------------------------------------------------------------------
(* Tooling.                                                                   *)

BaseEngine == Compiled(input.base)
HeadEngine == Compiled(input.head)
BothCompile == input.kind = "diff" /\ Exists(BaseEngine) /\ Exists(HeadEngine)
Diff == diff_pack(input.base, input.head)

\* diff is what a reviewer should be told of the change from base to head.
TellsTheChange(base, head, diff) ==
  LET before(n, r) == evaluate(base, n, r).action
      after(n, r)  == evaluate(head, n, r).action
      declared == declared_roles(base) \cup declared_roles(head)
      surface  == Surface(input.base, input.head, base, head)
      moved    == {pr \in surface \X Views : before(pr[1], pr[2]) # after(pr[1], pr[2])}
      opened   == {pr \in moved : /\ before(pr[1], pr[2]) \in effective_deny_set
                                  /\ after(pr[1], pr[2]) \notin effective_deny_set}
      rows(n, r) == {c \in diff.changed : /\ c.tool = n
                                          /\ c.role = IF r \in declared THEN r ELSE NoRole}
  IN /\ \A n \in surface, r \in Views :
          /\ (rows(n, r) # {}) = (<<n, r>> \in moved)
          /\ \A c \in rows(n, r) : /\ c.base = before(n, r) /\ c.head = after(n, r)
                                   /\ c.crosses => c.kind = "loosened" \/ c.head = Unset
     /\ Concrete(input.base, input.head, base, head) \subseteq surface
     /\ \A g \in Globs \cap (ToSet(base.order) \cup ToSet(head.order)) :
          g \in surface \/ \E t \in surface : t \in Covers[g]
     /\ Clean(diff) = (moved = {})
     /\ _run_policy_diff(diff, TRUE) = (IF opened = {} THEN 0 ELSE 1)

(* For every name on the surface and every role a caller may have, declared   *)
(* or not, the diff has a row under the caller's view exactly when the        *)
(* caller's decision changes, and a decision that leaves the denied actions   *)
(* is always ranked as loosened, unless it becomes a null action, which has   *)
(* no rank.  So the pack is unchanged, and --fail-on-crossing passes, exactly *)
(* when no such caller sees a change, or a refused tool leave the denied      *)
(* actions (diff.py diff_pack, classify, clean).  A role that neither side    *)
(* declares is decided as no role is.  The surface has every inventoried or   *)
(* literally ruled tool, and every glob unless it matches something there.    *)
DiffIsExact ==
  BothCompile =>
    \A base \in {BaseEngine}, head \in {HeadEngine}, diff \in {Diff} :
      TellsTheChange(base, head, diff)

\* The calls of the diff as a gateway with the old policy records them, and
\* those the replay through the new one flips.
Replay(base, diff) == [pr \in diff.examined |-> Recorded(base, pr[1], pr[2], effective_deny_set)]
Flipped(base, head, diff) == backtest_policy(Replay(base, diff), head, effective_deny_set).changed

RowsOf(diff, pr) == {c \in diff.changed : c.tool = pr[1] /\ c.role = pr[2]}

(* Replaying what a gateway recorded under the old policy through the new one *)
(* flips a call that went through exactly when the diff has a row for it, and *)
(* a denied call exactly when its row crosses the deny boundary, provided the *)
(* new policy does not tell the caller's role from none: a denied call is     *)
(* recorded without its role (backtest.py backtest_policy, diff.py diff_pack, *)
(* gateway.py _handle_tool_call).                                             *)
BacktestAgreesWithDiff ==
  BothCompile =>
    \A base \in {BaseEngine}, head \in {HeadEngine}, diff \in {Diff} :
      \A flipped \in {Flipped(base, head, diff)}, pr \in diff.examined :
        LET was == evaluate(base, pr[1], pr[2]).action
            now == evaluate(head, pr[1], pr[2]).action
            flips == Replay(base, diff)[pr] \in flipped
        IN /\ was \notin effective_deny_set \cup {Unset} =>
                (flips <=> RowsOf(diff, pr) # {})
           /\ was \in effective_deny_set /\ now = evaluate(head, pr[1], NoRole).action =>
                (flips <=> \E c \in RowsOf(diff, pr) : c.crosses)

(* `policy ci` exits 0 exactly when every name asked for exists and every     *)
(* target loads, compiles and, for a pack, ships enough goldens that all hold *)
(* and an explicit rule for every inventoried tool.  In particular the replay *)
(* check never fails a policy that is otherwise sound, and an error no check  *)
(* catches never passes one (ci.py, cli _run_policy_ci).                      *)
CiGateIsExact ==
  input.kind = "ci" =>
    LET t       == input.target
        engine  == PolicyEngine(t.layers)
        wanted  == input.only = {} \/ "pack" \in input.only
        loads   == /\ t.tests # Broken
                   /\ t.kind = "connector" => t.inventory # Broken
        sound   == /\ ~t.error /\ engine # PolicyError /\ loads
                   /\ t.kind = "connector" =>
                        /\ t.tests # Unset
                        /\ \A n \in t.inventory : evaluate(engine, n, NoRole).rule # NoPattern
                   /\ t.tests # Unset =>
                        /\ Cardinality(t.tests) >= MinGoldens
                        /\ \A c \in t.tests : _run_case(engine, c)
    IN (_run_policy_ci([n \in {"pack"} |-> t], input.only, MinGoldens, input.backtest) = 0)
         = (input.only \subseteq {"pack"} /\ (wanted => sound))

-----------------------------------------------------------------------------
(* Redaction.                                                                 *)

Claims == Qualified(input.found, input.denied, input.near, input.profile)
Chosen == resolve_overlaps(Claims)
Output == redact_text(TextLength, Chosen, input.profile)

IsCharacter(x) == x[1] = "char"
Offsets == {Output[i][2] : i \in {j \in DOMAIN Output : IsCharacter(Output[j])}}
Inside(s) == s.start..(s.end - 1)

\* A claim that lost to a card and begins in the characters the card may keep.
InKeptTail(s) ==
  \E i \in DOMAIN Chosen : /\ Chosen[i].entity = "CREDIT_CARD" /\ input.profile = "strict"
                           /\ s # Chosen[i] /\ s.confidence <= Chosen[i].confidence
                           /\ s.start \in (Chosen[i].end - KeepLast)..(Chosen[i].end - 1)

(* No claim above the floor, and no denylisted literal, reaches the output    *)
(* whole, unless it begins in the last characters of a stronger claim, which  *)
(* a partial mask keeps; of a claim that was acted on fewer than half of the    *)
(* characters are left (engine.py detect_spans, spans.py resolve_overlaps,    *)
(* operators/mask.py).                                                        *)
NoValueSurvivesWhole ==
  input.kind = "text" =>
    /\ \A i \in DOMAIN Claims : Inside(Claims[i]) \subseteq Offsets => InKeptTail(Claims[i])
    /\ \A i \in DOMAIN Chosen :
         2 * Cardinality(Inside(Chosen[i]) \cap Offsets) < Length(Chosen[i])

(* Outside the spans that were acted on the text is untouched: every other    *)
(* character is in the output once and in order, and each span left one mark  *)
(* (engine.py redact_text).                                                   *)
RestIsUntouched ==
  input.kind = "text" =>
    LET covered == UNION {Inside(Chosen[i]) : i \in DOMAIN Chosen}
        chars   == {i \in DOMAIN Output : IsCharacter(Output[i])}
    IN /\ (0..(TextLength - 1)) \ covered \subseteq Offsets
       /\ \A i, j \in chars : i < j => Output[i][2] < Output[j][2]
       /\ Cardinality(DOMAIN Output \ chars) = Len(Chosen)

\* The strings of a value: their dictionary keys and list places, and content.
Below(key, strings) == {<<<<key>> \o s[1], s[2]>> : s \in strings}

StringsOf(strings, v) ==
  CASE v.t = "str"  -> {<<<<>>, v.c>>}
    [] v.t = "list" -> UNION {Below("[]", strings[v.items[i]]) : i \in DOMAIN v.items}
    [] v.t = "dict" -> UNION {Below(k, strings[v.fields[k]]) : k \in DOMAIN v.fields}
    [] OTHER        -> {}

Outputs == {Redacted} \cup {_walk[v] : v \in JsonValues}

Strings[v \in JsonValues \cup Outputs] == StringsOf(Strings, v)

(* A string of the payload is redacted exactly when no key on its path is     *)
(* excluded and either its content is claimed or it is the non-empty value of *)
(* a sensitive key; nothing else of the payload changes (engine.py _walk,     *)
(* _walk_field, structured.py).                                               *)
WalkReachesEveryString ==
  input.kind = "json" =>
    LET expected(s) ==
          LET path == s[1] IN
          IF \E i \in DOMAIN path : path[i] \in ExcludedKeys THEN s
          ELSE IF \/ s[2] = "secret"
                  \/ path # <<>> /\ Last(path) \in SensitiveKeys /\ s[2] # "empty"
               THEN <<path, "redacted">> ELSE s
    IN Strings[_walk[input.value]] = {expected(s) : s \in Strings[input.value]}

-----------------------------------------------------------------------------
(* Central mode.                                                              *)

App == _run_serve(input.doc)
Started == input.kind = "central" /\ App # ConfigError

(* A service that starts has one endpoint for every upstream of the file and  *)
(* no other, and behind each endpoint are the command and the policy of its   *)
(* own entry, whatever else the file lists; it does not start when two        *)
(* entries share a name or any policy is refused (central/config.py           *)
(* load_gateway_config, build_central_app, _bind_upstream).                   *)
EndpointsServeTheirOwn ==
  Started =>
    LET ups == input.doc.upstreams IN
    /\ Cardinality(DOMAIN App) = Len(ups)
    /\ \A i \in DOMAIN ups :
         LET hub == _hub(App, ups[i].name) IN
         /\ ups[i].name \in DOMAIN App
         /\ hub.command = ups[i].command
         /\ hub.engine # PolicyError /\ hub.engine = PolicyEngine(Policies(ups[i]))
         /\ hub.store = "shared" => input.doc.url # Unset

Taken(hub) == {c \in Credentials \cup {Unset} : Admits(hub, c)}

(* With an identity file every endpoint refuses a request without a           *)
(* credential and takes exactly the credentials the file provides for: the    *)
(* keys whose digests it lists, and the issuer's tokens for an audience and   *)
(* with an algorithm it lists.  A defect in the file never opens the service, *)
(* and a file that names no method at all never starts one; a file whose      *)
(* lists are empty, or whose digests are of no key, starts one that is closed *)
(* to everybody (identity/config.py, resolver.py resolve, oidc.py validate).  *)
IdentityGuardsEveryEndpoint ==
  Started /\ input.doc.identity # Unset =>
    LET doc     == IdentityFiles[input.doc.identity]
        listed  == {doc.api_keys[i].digest : i \in DOMAIN doc.api_keys}
        tokens  == {t \in DOMAIN Bearers : doc.oidc # Unset /\ TakesToken(doc.oidc, Bearers[t])}
    IN /\ doc.oidc # Unset \/ listed # {}
       /\ \A n \in DOMAIN App : /\ Unset \notin Taken(_hub(App, n))
                               /\ Taken(_hub(App, n)) = (listed \cap Credentials) \cup tokens


(* Layers win over earlier ones field by field in rules and as a whole in      *)
(* settings (merge.py merge_layers).                                          *)
LaterLayersWin == LastWriterWins /\ SettingsOfTheLastLayer


(* Every name is decided, for every role, by the most specific rule and with a *)
(* known action (engine.py evaluate, matcher.py match, loader.py).            *)
EveryNameIsDecided == MostSpecificRuleDecides /\ OnlyKnownActions


(* What the tools tell a reviewer of a change is what callers will see, and    *)
(* they tell the same (diff.py diff_pack, backtest.py backtest_policy).       *)
ToolsTellTheTruth == DiffIsExact /\ BacktestAgreesWithDiff


(* Redaction takes what it should and nothing else, in texts and in payloads   *)
(* (engine.py redact_text, _walk, _walk_field).                               *)
RedactionIsExact == NoValueSurvivesWhole /\ RestIsUntouched /\ WalkReachesEveryString


(* A central service that starts is the one its files describe, endpoint by    *)
(* endpoint (central/config.py build_central_app, identity/config.py).        *)
CentralServesAsConfigured == EndpointsServeTheirOwn /\ IdentityGuardsEveryEndpoint
=============================================================================
