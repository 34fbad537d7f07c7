---------------------------- MODULE MCAlgorithms ----------------------------
EXTENDS Algorithms

MCTools == {"a.x", "a.y"}
MCGlobs == {"a.*", "*.x", "*"}
MCCovers == ("a.*" :> {"a.x", "a.y", "a.*"}) @@ ("*.x" :> {"a.x", "*.x"})
              @@ ("*" :> MCTools \cup MCGlobs)
MCSpecificity == ("a.*" :> 2) @@ ("*.x" :> 2) @@ ("*" :> 0)

Guard == [must_match |-> {"good"}]
Vague == [flags |-> "i"]

MCPolicyRules == {
  [action |-> Unset],
  [action |-> "allow", constraints |-> {Guard}],
  [constraints |-> {}],
  [action |-> "redact", replace |-> TRUE],
  [roles |-> [dev |-> [action |-> "allow"]]],
  [action |-> "block", roles |-> [dev |-> [action |-> "alow"]]],
  [action |-> "block", roles |-> Unset] }

Modes == {Unset, [mode |-> "open"], [default |-> "open", redaction |-> "closed"],
          [approval |-> "open"], [mode |-> "ajar"]}
Risks == {Unset, [suspend_at |-> 3], [weights |-> [blocked |-> 1]],
          [weights |-> [blocked |-> 2, anomaly |-> 1], suspend_at |-> 4]}
MCSettings == [default_action: {Unset, "allow"}, on_failure: Modes, risk: Risks]
  \cup { [taint_sources |-> {"a.x"}, sequence_rules |-> <<[after |-> "a.x", forbid |-> "a.y"]>>],
         [taint_sources |-> {"a.y"}, taint_sinks |-> {"a.x"}],
         [sequence_rules |-> <<[after |-> "a.y", forbid |-> "a.x", reason |-> "no"]>>],
         [sequence_rules |-> <<[after |-> "a.x"]>>] }

MCDiffRules == {
  [action |-> "allow"],
  [action |-> "require_approval", roles |-> [dev |-> [action |-> Unset]]],
  [action |-> "block", roles |-> [dev |-> [action |-> "redact"]]] }

Layer(rules) == [Doc EXCEPT !.tools = rules]
OnX(rule) == [pattern |-> "a.x", rule |-> rule]
OnA(rule) == [pattern |-> "a.*", rule |-> rule]

Layers == { <<Layer(<<OnX([action |-> "block"])>>)>>,
            <<Layer(<<OnA([action |-> "redact", constraints |-> {Guard}])>>),
              Layer(<<OnX([action |-> "allow", roles |-> [dev |-> [action |-> "block"]]])>>)>>,
            <<Layer(<<OnA([constraints |-> {Guard}])>>)>>,
            <<Layer(<<OnA([action |-> "allow", constraints |-> {Vague}])>>)>> }

Case(role, argument, expect) ==
  [tool |-> "a.x", role |-> role, argument |-> argument, expect |-> expect]
Goldens == { Case(NoRole, "good", [outcome |-> "deny", stage |-> "action"]),
             Case("dev", "good", [outcome |-> "deny", action |-> "block"]),
             Case(NoRole, "", [outcome |-> "allow"]) }

MCCiTargets == [kind: {"connector", "policy"}, error: BOOLEAN, layers: Layers,
                tests: {Unset, Broken} \cup SUBSET Goldens,
                inventory: {Broken, {}, {"a.x"}, {"a.x", "a.y"}}]

MCSpans == {s \in [entity: {"EMAIL", "CREDIT_CARD", "CUSTOM_TERM"}, start: 0..3, end: 1..4,
                   confidence: {4, 7, 10}] :
              /\ s.start < s.end
              /\ s.entity = "CUSTOM_TERM" <=> s.confidence = 10
              /\ s.entity = "CREDIT_CARD" => s.confidence = 7 /\ s.end - s.start = 3}

MCLeaves == {[t |-> "num"]} \cup [t: {"str"}, c: {"secret", "plain", "empty"}]
Keys == {"name", "password", "file_path", "secret_path"}
Dicts(values) == [t: {"dict"}, fields: UNION {[ks -> values] : ks \in {{k} : k \in Keys}}]
Lists(values) == [t: {"list"}, items: {<<v>> : v \in values}]
Pairs == [t: {"dict"}, fields: UNION {[ks -> MCLeaves] : ks \in {{j, k} : j, k \in Keys}}]
Shallow == Dicts(MCLeaves) \cup Lists(MCLeaves) \cup Pairs
MCJsonValues == MCLeaves \cup Shallow \cup Dicts(Shallow) \cup Lists(Shallow)

MCDepth == [v \in MCJsonValues |-> IF v \in MCLeaves THEN 0 ELSE IF v \in Shallow THEN 1 ELSE 2]

MCPolicyFiles == [good |-> Layer(<<OnX([action |-> "block"])>>),
                  more |-> Layer(<<OnA([action |-> "allow"])>>),
                  typo |-> Layer(<<OnX([action |-> "blok"])>>)]
Up(name, command, policy) == [name |-> name, command |-> command, policy |-> policy]
MCUpstreams == { Up("crm", "run crm", <<"good">>), Up("git", "run git", <<"good", "more">>),
                 Up("git", "run other", <<"more">>), Up("bad", "run bad", <<"typo">>),
                 Up("tmp", Unset, <<"good">>), Up("nop", "run nop", <<>>) }
MCBackends == [backend: {Unset, Broken, "memory", "redis", "sqlite"}, url: {Unset, "url"}]

MCBearers == [web |-> [aud |-> "web", alg |-> "ES256"], api |-> [aud |-> "api", alg |-> "RS256"]]
Issuer == [issuer |-> "https", audience |-> {"api"}, algorithms |-> Unset, unknown |-> FALSE]
Key(id, digest) == [id |-> id, digest |-> digest, unknown |-> FALSE]
Who(oidc, mapping, keys) == [schema_version |-> 1, unknown |-> FALSE, oidc |-> oidc,
                             mapping |-> mapping, api_keys |-> keys]
MCIdentityFiles ==
  [ oidc   |-> Who(Issuer, Unset, <<>>),
    keys   |-> Who(Unset, Broken, <<Key("bot", "d1"), Key("ci", "d2"), Key("old", "d1")>>),
    both   |-> Who(Issuer, "map", <<Key("bot", "d1")>>),
    nobody |-> Who(Unset, Unset, <<>>),
    deaf   |-> Who([Issuer EXCEPT !.audience = Unset], Unset, <<>>),
    extra  |-> Who([Issuer EXCEPT !.unknown = TRUE], Unset, <<Key("bot", "d1")>>),
    mapped |-> Who(Issuer, Broken, <<>>),
    short  |-> Who(Issuer, Unset, <<Key("bot", Broken)>>),
    closed |-> Who([Issuer EXCEPT !.audience = {}], Unset, <<>>),
    nohex  |-> Who(Unset, Unset, <<Key("bot", "nohex")>>),
    listed |-> Who([Issuer EXCEPT !.audience = {"api", "web"}, !.algorithms = {"ES256"}], Unset,
                   <<Key("bot", "nohex"), Key("ci", "d2")>>),
    newer  |-> [Who(Issuer, Unset, <<>>) EXCEPT !.schema_version = 2] ]
MCIdentities == {Unset, Broken} \cup DOMAIN MCIdentityFiles
=============================================================================
