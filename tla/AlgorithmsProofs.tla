------------------------- MODULE AlgorithmsProofs -------------------------
(* Theorems about the pure algorithms, for every input: what merging, role    *)
(* overlays and matching make of any layers, what the tooling reports of any  *)
(* two revisions, what central mode makes of any files, and what redaction    *)
(* leaves of any text and payload.  A loop of the code is a recursive         *)
(* function; what it computes is proved by induction over its turns.          *)
EXTENDS Algorithms, FiniteSetTheorems, WellFoundedInduction, TLAPS

LEMMA LoopInduction ==
  ASSUME NEW N \in Nat, NEW S, 0 \in S, \A n \in 1..N : n - 1 \in S => n \in S
  PROVE  \A n \in 0..N : n \in S
<1> SUFFICES ASSUME NEW m \in 0..N, m \notin S PROVE FALSE
  OBVIOUS
<1> DEFINE T == {n \in 0..N : n \notin S}
<1>1. T \subseteq Nat /\ T # {}
  OBVIOUS
<1>2. IsWellFoundedOn(OpToRel(<, Nat), Nat)
  BY NatLessThanWellFounded
<1>3. PICK x \in T : \A y \in T : ~(<<y, x>> \in OpToRel(<, Nat))
  BY <1>1, <1>2, WFMin
<1>4. \A y \in T : ~(y < x)
  BY <1>1, <1>3 DEF OpToRel
<1>5. x # 0 /\ x \in 1..N /\ x - 1 \in 0..N /\ x - 1 < x
  OBVIOUS
<1>6. x - 1 \in S
  BY <1>4, <1>5
<1> QED
  BY <1>5, <1>6

-----------------------------------------------------------------------------
(* The loops: each has a run, turn by turn, and returns where it ends.        *)

MergeRulesRun(f, m, tools) ==
  /\ f[0] = m
  /\ \A n \in 1..Len(tools) : f[n] = MergeRule(f[n - 1], tools[n])
  /\ MergeRules(m, tools) = f[Len(tools)]

LEMMA MergeRulesRuns ==
  ASSUME NEW m, NEW tools, Len(tools) \in Nat
  PROVE  \E f : MergeRulesRun(f, m, tools)
<1> DEFINE N == Len(tools)
           Step(x, n) == MergeRule(x, tools[n])
           Loop(f, k) == f = [n \in 0..k |-> IF n = 0 THEN m ELSE Step(f[n - 1], n)]
           S == {k \in 0..N : \E f : Loop(f, k)}
           f == CHOOSE g : Loop(g, N)
<1>1. MergeRules(m, tools) = f[N]
  BY DEF MergeRules
<1> HIDE DEF Step
<1>2. 0 \in S
  <2> DEFINE g == [n \in 0..0 |-> m]
  <2>1. g = [n \in 0..0 |-> IF n = 0 THEN m ELSE Step(g[n - 1], n)]
    OBVIOUS
  <2> HIDE DEF g
  <2> QED
    BY <2>1
<1>3. ASSUME NEW k \in 1..N, k - 1 \in S PROVE k \in S
  <2>1. PICK g : Loop(g, k - 1)
    BY <1>3
  <2> DEFINE h == [n \in 0..k |-> IF n = k THEN Step(g[k - 1], k) ELSE g[n]]
  <2>2. \A n \in 0..k - 1 : g[n] = IF n = 0 THEN m ELSE Step(g[n - 1], n)
    BY <2>1
  <2>3. h = [n \in 0..k |-> h[n]] /\ h[k] = Step(g[k - 1], k) /\ \A n \in 0..k - 1 : h[n] = g[n]
    OBVIOUS
  <2> HIDE DEF h
  <2>4. \A n \in 0..k : h[n] = IF n = 0 THEN m ELSE Step(h[n - 1], n)
    <3> SUFFICES ASSUME NEW n \in 0..k PROVE h[n] = IF n = 0 THEN m ELSE Step(h[n - 1], n)
      OBVIOUS
    <3>1. CASE n = 0
      <4>1. 0 \in 0..k - 1
        OBVIOUS
      <4> QED
        BY <2>2, <2>3, <3>1, <4>1
    <3>2. CASE n # 0
      <4>1. n - 1 \in 0..k - 1 /\ (n = k \/ n \in 0..k - 1)
        BY <3>2
      <4>2. h[n - 1] = g[n - 1]
        BY <2>3, <4>1
      <4> QED
        BY <2>2, <2>3, <3>2, <4>1, <4>2
    <3> QED
      BY <3>1, <3>2
  <2>5. Loop(h, k)
    BY <2>3, <2>4
  <2> QED
    BY <2>5
<1>4. \A k \in 1..N : k - 1 \in S => k \in S
  BY <1>3
<1>5. N \in Nat
  OBVIOUS
<1> HIDE DEF S, N
<1>6. \A k \in 0..N : k \in S
  BY <1>2, <1>4, <1>5, LoopInduction
<1>7. N \in S
  BY <1>5, <1>6
<1>8. Loop(f, N)
  BY <1>7 DEF S
<1> HIDE DEF f
<1>9. f[0] = m /\ \A n \in 1..N : f[n] = Step(f[n - 1], n)
  BY <1>5, <1>8
<1>10. MergeRulesRun(f, m, tools)
  BY <1>1, <1>9 DEF Step, N, MergeRulesRun
<1> QED
  BY <1>10

LEMMA MergeLayersRuns ==
  ASSUME NEW layers, Len(layers) \in Nat
  PROVE  \E f : /\ f[0] = NoRules
                /\ \A n \in 1..Len(layers) : f[n] = MergeLayer(f[n - 1], layers[n])
                /\ merge_layers(layers) = f[Len(layers)]
<1> DEFINE N == Len(layers)
           Step(x, n) == MergeLayer(x, layers[n])
           Loop(f, k) == f = [n \in 0..k |-> IF n = 0 THEN NoRules ELSE Step(f[n - 1], n)]
           S == {k \in 0..N : \E f : Loop(f, k)}
           f == CHOOSE g : Loop(g, N)
<1>1. merge_layers(layers) = f[N]
  BY DEF merge_layers
<1> HIDE DEF Step
<1>2. 0 \in S
  <2> DEFINE g == [n \in 0..0 |-> NoRules]
  <2>1. g = [n \in 0..0 |-> IF n = 0 THEN NoRules ELSE Step(g[n - 1], n)]
    OBVIOUS
  <2> HIDE DEF g
  <2> QED
    BY <2>1
<1>3. ASSUME NEW k \in 1..N, k - 1 \in S PROVE k \in S
  <2>1. PICK g : Loop(g, k - 1)
    BY <1>3
  <2> DEFINE h == [n \in 0..k |-> IF n = k THEN Step(g[k - 1], k) ELSE g[n]]
  <2>2. \A n \in 0..k - 1 : g[n] = IF n = 0 THEN NoRules ELSE Step(g[n - 1], n)
    BY <2>1
  <2>3. h = [n \in 0..k |-> h[n]] /\ h[k] = Step(g[k - 1], k) /\ \A n \in 0..k - 1 : h[n] = g[n]
    OBVIOUS
  <2> HIDE DEF h
  <2>4. \A n \in 0..k : h[n] = IF n = 0 THEN NoRules ELSE Step(h[n - 1], n)
    <3> SUFFICES ASSUME NEW n \in 0..k PROVE h[n] = IF n = 0 THEN NoRules ELSE Step(h[n - 1], n)
      OBVIOUS
    <3>1. CASE n = 0
      <4>1. 0 \in 0..k - 1
        OBVIOUS
      <4> QED
        BY <2>2, <2>3, <3>1, <4>1
    <3>2. CASE n # 0
      <4>1. n - 1 \in 0..k - 1 /\ (n = k \/ n \in 0..k - 1)
        BY <3>2
      <4>2. h[n - 1] = g[n - 1]
        BY <2>3, <4>1
      <4> QED
        BY <2>2, <2>3, <3>2, <4>1, <4>2
    <3> QED
      BY <3>1, <3>2
  <2>5. Loop(h, k)
    BY <2>3, <2>4
  <2> QED
    BY <2>5
<1>4. \A k \in 1..N : k - 1 \in S => k \in S
  BY <1>3
<1>5. N \in Nat
  OBVIOUS
<1> HIDE DEF S, N
<1>6. \A k \in 0..N : k \in S
  BY <1>2, <1>4, <1>5, LoopInduction
<1>7. N \in S
  BY <1>5, <1>6
<1>8. Loop(f, N)
  BY <1>7 DEF S
<1> HIDE DEF f
<1>9. f[0] = NoRules /\ \A n \in 1..N : f[n] = Step(f[n - 1], n)
  BY <1>5, <1>8
<1> QED
  BY <1>1, <1>9 DEF Step, N

LEMMA MatchRuns ==
  ASSUME NEW order, NEW name, Len(order) \in Nat
  PROVE  \E f : /\ f[0] = NoPattern
                /\ \A n \in 1..Len(order) : f[n] = Scan(name, f[n - 1], order[n])
                /\ match(order, name) = IF name \in Tools /\ name \in ToSet(order) THEN name
                                        ELSE f[Len(order)]
<1> DEFINE N == Len(order)
           Step(x, n) == Scan(name, x, order[n])
           Loop(f, k) == f = [n \in 0..k |-> IF n = 0 THEN NoPattern ELSE Step(f[n - 1], n)]
           S == {k \in 0..N : \E f : Loop(f, k)}
           f == CHOOSE g : Loop(g, N)
<1>1. match(order, name) = IF name \in Tools /\ name \in ToSet(order) THEN name ELSE f[N]
  BY DEF match
<1> HIDE DEF Step
<1>2. 0 \in S
  <2> DEFINE g == [n \in 0..0 |-> NoPattern]
  <2>1. g = [n \in 0..0 |-> IF n = 0 THEN NoPattern ELSE Step(g[n - 1], n)]
    OBVIOUS
  <2> HIDE DEF g
  <2> QED
    BY <2>1
<1>3. ASSUME NEW k \in 1..N, k - 1 \in S PROVE k \in S
  <2>1. PICK g : Loop(g, k - 1)
    BY <1>3
  <2> DEFINE h == [n \in 0..k |-> IF n = k THEN Step(g[k - 1], k) ELSE g[n]]
  <2>2. \A n \in 0..k - 1 : g[n] = IF n = 0 THEN NoPattern ELSE Step(g[n - 1], n)
    BY <2>1
  <2>3. h = [n \in 0..k |-> h[n]] /\ h[k] = Step(g[k - 1], k) /\ \A n \in 0..k - 1 : h[n] = g[n]
    OBVIOUS
  <2> HIDE DEF h
  <2>4. \A n \in 0..k : h[n] = IF n = 0 THEN NoPattern ELSE Step(h[n - 1], n)
    <3> SUFFICES ASSUME NEW n \in 0..k PROVE h[n] = IF n = 0 THEN NoPattern ELSE Step(h[n - 1], n)
      OBVIOUS
    <3>1. CASE n = 0
      <4>1. 0 \in 0..k - 1
        OBVIOUS
      <4> QED
        BY <2>2, <2>3, <3>1, <4>1
    <3>2. CASE n # 0
      <4>1. n - 1 \in 0..k - 1 /\ (n = k \/ n \in 0..k - 1)
        BY <3>2
      <4>2. h[n - 1] = g[n - 1]
        BY <2>3, <4>1
      <4> QED
        BY <2>2, <2>3, <3>2, <4>1, <4>2
    <3> QED
      BY <3>1, <3>2
  <2>5. Loop(h, k)
    BY <2>3, <2>4
  <2> QED
    BY <2>5
<1>4. \A k \in 1..N : k - 1 \in S => k \in S
  BY <1>3
<1>5. N \in Nat
  OBVIOUS
<1> HIDE DEF S, N
<1>6. \A k \in 0..N : k \in S
  BY <1>2, <1>4, <1>5, LoopInduction
<1>7. N \in S
  BY <1>5, <1>6
<1>8. Loop(f, N)
  BY <1>7 DEF S
<1> HIDE DEF f
<1>9. f[0] = NoPattern /\ \A n \in 1..N : f[n] = Step(f[n - 1], n)
  BY <1>5, <1>8
<1> QED
  BY <1>1, <1>9 DEF Step, N

ShowAllRun(f, names, patterns) ==
  /\ f[0] = names
  /\ \A n \in 1..Len(patterns) : f[n] = Show(f[n - 1], patterns[n])
  /\ ShowAll(names, patterns) = f[Len(patterns)]

LEMMA ShowAllRuns ==
  ASSUME NEW names, NEW patterns, Len(patterns) \in Nat
  PROVE  \E f : ShowAllRun(f, names, patterns)
<1> DEFINE N == Len(patterns)
           Step(x, n) == Show(x, patterns[n])
           Loop(f, k) == f = [n \in 0..k |-> IF n = 0 THEN names ELSE Step(f[n - 1], n)]
           S == {k \in 0..N : \E f : Loop(f, k)}
           f == CHOOSE g : Loop(g, N)
<1>1. ShowAll(names, patterns) = f[N]
  BY DEF ShowAll
<1> HIDE DEF Step
<1>2. 0 \in S
  <2> DEFINE g == [n \in 0..0 |-> names]
  <2>1. g = [n \in 0..0 |-> IF n = 0 THEN names ELSE Step(g[n - 1], n)]
    OBVIOUS
  <2> HIDE DEF g
  <2> QED
    BY <2>1
<1>3. ASSUME NEW k \in 1..N, k - 1 \in S PROVE k \in S
  <2>1. PICK g : Loop(g, k - 1)
    BY <1>3
  <2> DEFINE h == [n \in 0..k |-> IF n = k THEN Step(g[k - 1], k) ELSE g[n]]
  <2>2. \A n \in 0..k - 1 : g[n] = IF n = 0 THEN names ELSE Step(g[n - 1], n)
    BY <2>1
  <2>3. h = [n \in 0..k |-> h[n]] /\ h[k] = Step(g[k - 1], k) /\ \A n \in 0..k - 1 : h[n] = g[n]
    OBVIOUS
  <2> HIDE DEF h
  <2>4. \A n \in 0..k : h[n] = IF n = 0 THEN names ELSE Step(h[n - 1], n)
    <3> SUFFICES ASSUME NEW n \in 0..k PROVE h[n] = IF n = 0 THEN names ELSE Step(h[n - 1], n)
      OBVIOUS
    <3>1. CASE n = 0
      <4>1. 0 \in 0..k - 1
        OBVIOUS
      <4> QED
        BY <2>2, <2>3, <3>1, <4>1
    <3>2. CASE n # 0
      <4>1. n - 1 \in 0..k - 1 /\ (n = k \/ n \in 0..k - 1)
        BY <3>2
      <4>2. h[n - 1] = g[n - 1]
        BY <2>3, <4>1
      <4> QED
        BY <2>2, <2>3, <3>2, <4>1, <4>2
    <3> QED
      BY <3>1, <3>2
  <2>5. Loop(h, k)
    BY <2>3, <2>4
  <2> QED
    BY <2>5
<1>4. \A k \in 1..N : k - 1 \in S => k \in S
  BY <1>3
<1>5. N \in Nat
  OBVIOUS
<1> HIDE DEF S, N
<1>6. \A k \in 0..N : k \in S
  BY <1>2, <1>4, <1>5, LoopInduction
<1>7. N \in S
  BY <1>5, <1>6
<1>8. Loop(f, N)
  BY <1>7 DEF S
<1> HIDE DEF f
<1>9. f[0] = names /\ \A n \in 1..N : f[n] = Step(f[n - 1], n)
  BY <1>5, <1>8
<1>10. ShowAllRun(f, names, patterns)
  BY <1>1, <1>9 DEF Step, N, ShowAllRun
<1> QED
  BY <1>10

-----------------------------------------------------------------------------
(* Merging: what validation establishes of every document is kept by every    *)
(* merge, for any layers.                                                     *)

WellFormedEntry(e) == e.pattern \in Names /\ NamesRoles(e.rule)

\* Known, or null.
KnownAction(rule) == Has(rule, "action") => rule.action \in ACTION_VOCABULARY \cup {Unset}

SoundRule(rule) ==
  /\ KnownAction(rule)
  /\ DOMAIN RolesIn(rule) \subseteq Roles
  /\ \A r \in DOMAIN RolesIn(rule) : KnownAction(rule.roles[r])

Merged(m) ==
  /\ DOMAIN NoRules \subseteq DOMAIN m
  /\ m.order \in Seq(Names)
  /\ DOMAIN m.rules = ToSet(m.order)
  /\ \A p \in DOMAIN m.rules : SoundRule(m.rules[p])
  /\ m.default_action \in {"allow", "block"}

LEMMA WithoutFields ==
  ASSUME NEW rule, NEW fields
  PROVE  /\ \A f : Has(Without(rule, fields), f) <=> Has(rule, f) /\ f \notin fields
         /\ \A f : Has(Without(rule, fields), f) => Without(rule, fields)[f] = rule[f]
BY DEF Without, Has

LEMMA OverFields ==
  ASSUME NEW new, NEW old
  PROVE  /\ \A f : Has(Over(new, old), f) <=> Has(new, f) \/ Has(old, f)
         /\ \A f : Has(new, f) => Over(new, old)[f] = new[f]
         /\ \A f : ~Has(new, f) /\ Has(old, f) => Over(new, old)[f] = old[f]
BY DEF Over, Has

LEMMA OnlyField ==
  ASSUME NEW f, NEW value
  PROVE  /\ \A g : Has(Only(f, value), g) <=> g = f
         /\ Only(f, value)[f] = value
BY DEF Only, Has

\* A role of a rule is one of its roles field.
LEMMA InRoles ==
  ASSUME NEW rule, NEW r \in DOMAIN RolesIn(rule)
  PROVE  Has(rule, "roles") /\ rule["roles"] # Unset /\ RolesIn(rule) = rule["roles"]
<1>1. DOMAIN <<>> = {}
  OBVIOUS
<1> QED
  BY <1>1 DEF RolesIn, Get

LEMMA ValidRuleIsSound ==
  ASSUME NEW e, WellFormedEntry(e), _validate_rule(e.rule)
  PROVE  SoundRule(Without(e.rule, {"replace"}))
<1> DEFINE rule == e.rule
           new == Without(rule, {"replace"})
<1>1. Has(rule, "action") => rule["action"] \in ACTION_VOCABULARY \cup {Unset}
  BY DEF _validate_rule, ValidFields, Get
<1>2. \A r \in DOMAIN RolesIn(rule) : KnownAction(rule["roles"][r])
  BY DEF _validate_rule, ValidFields, Get, KnownAction
<1>3. DOMAIN RolesIn(rule) \subseteq Roles
  BY DEF WellFormedEntry, NamesRoles
<1>4. /\ \A f : Has(new, f) => Has(rule, f) /\ new[f] = rule[f]
      /\ Has(new, "roles") <=> Has(rule, "roles")
  <2> HIDE DEF new
  <2>1. /\ \A f : Has(new, f) <=> Has(rule, f) /\ f \notin {"replace"}
        /\ \A f : Has(new, f) => new[f] = rule[f]
    BY WithoutFields DEF new
  <2> QED
    BY <2>1
<1> HIDE DEF new
<1>5. KnownAction(new)
  BY <1>1, <1>4 DEF KnownAction
<1>6. RolesIn(new) = RolesIn(rule)
  BY <1>4 DEF RolesIn, Get
<1>7. \A r \in DOMAIN RolesIn(rule) : Has(new, "roles") /\ new["roles"] = rule["roles"]
  BY <1>4, InRoles
<1> QED
  BY <1>2, <1>3, <1>5, <1>6, <1>7 DEF SoundRule, new

LEMMA FieldMergeIsSound ==
  ASSUME NEW old, NEW new, SoundRule(old), SoundRule(new)
  PROVE  SoundRule(FieldMerge(old, new))
<1> DEFINE bare == Without(new, {"roles"})
           fields == Over(bare, old)
           roles == Over(new.roles, RolesIn(old))
           all == Over(Only("roles", roles), fields)
           given == Get(new, "roles", Unset) # Unset
<1>1. FieldMerge(old, new) = IF given THEN all ELSE fields
  BY DEF FieldMerge
<1>2. /\ \A f : Has(bare, f) <=> Has(new, f) /\ f # "roles"
      /\ \A f : Has(bare, f) => bare[f] = new[f]
  <2> HIDE DEF bare
  <2>1. /\ \A f : Has(bare, f) <=> Has(new, f) /\ f \notin {"roles"}
        /\ \A f : Has(bare, f) => bare[f] = new[f]
    BY WithoutFields DEF bare
  <2> QED
    BY <2>1
<1> HIDE DEF bare
<1>3. /\ \A f : Has(fields, f) <=> Has(bare, f) \/ Has(old, f)
      /\ \A f : Has(bare, f) => fields[f] = bare[f]
      /\ \A f : ~Has(bare, f) /\ Has(old, f) => fields[f] = old[f]
  BY OverFields
<1> HIDE DEF fields
<1>4. KnownAction(fields)
  BY <1>2, <1>3 DEF KnownAction, SoundRule
<1>5. /\ Has(fields, "roles") <=> Has(old, "roles")
      /\ Has(old, "roles") => fields["roles"] = old["roles"]
  BY <1>2, <1>3
<1>6. SoundRule(fields)
  <2>1. RolesIn(fields) = RolesIn(old)
    BY <1>5 DEF RolesIn, Get
  <2>2. \A r \in DOMAIN RolesIn(old) : fields["roles"] = old["roles"]
    BY <1>5, InRoles
  <2> QED
    BY <1>4, <2>1, <2>2 DEF SoundRule
<1>7. ASSUME given PROVE SoundRule(all)
  <2> DEFINE was == RolesIn(old)
  <2>1. /\ DOMAIN was \subseteq Roles
        /\ \A r \in DOMAIN was : KnownAction(was[r])
    <3>1. \A r \in DOMAIN was : was = old["roles"]
      BY InRoles
    <3> QED
      BY <3>1 DEF SoundRule
  <2>2. /\ DOMAIN new["roles"] \subseteq Roles
        /\ \A r \in DOMAIN new["roles"] : KnownAction(new["roles"][r])
    <3>1. RolesIn(new) = new["roles"]
      BY <1>7 DEF RolesIn
    <3> QED
      BY <3>1 DEF SoundRule
  <2>3. /\ \A r : Has(roles, r) <=> Has(new["roles"], r) \/ Has(was, r)
        /\ \A r : Has(new["roles"], r) => roles[r] = new["roles"][r]
        /\ \A r : ~Has(new["roles"], r) /\ Has(was, r) => roles[r] = was[r]
    <3> HIDE DEF was
    <3> QED
      BY OverFields DEF was
  <2> HIDE DEF was, roles
  <2>4. DOMAIN roles \subseteq Roles /\ \A r \in DOMAIN roles : KnownAction(roles[r])
    BY <2>1, <2>2, <2>3 DEF Has
  <2>5. /\ \A f : Has(Only("roles", roles), f) <=> f = "roles"
        /\ Only("roles", roles)["roles"] = roles
    BY OnlyField
  <2> DEFINE top == Only("roles", roles)
  <2> HIDE DEF top
  <2>6. /\ \A f : Has(all, f) <=> Has(top, f) \/ Has(fields, f)
        /\ \A f : Has(top, f) => all[f] = top[f]
        /\ \A f : ~Has(top, f) /\ Has(fields, f) => all[f] = fields[f]
    BY OverFields DEF top
  <2> HIDE DEF all
  <2>7. /\ Has(all, "roles") /\ all["roles"] = roles
        /\ Has(all, "action") => all["action"] = fields["action"] /\ Has(fields, "action")
    BY <2>5, <2>6 DEF top
  <2>8. DOMAIN RolesIn(all) \subseteq Roles /\ \A r \in DOMAIN RolesIn(all) : KnownAction(all["roles"][r])
    <3>1. \A r \in DOMAIN RolesIn(all) : RolesIn(all) = all["roles"]
      BY InRoles
    <3> QED
      BY <2>4, <2>7, <3>1
  <2> QED
    BY <1>4, <2>7, <2>8 DEF SoundRule, KnownAction
<1> QED
  BY <1>1, <1>6, <1>7

LEMMA MergeRuleKeeps ==
  ASSUME NEW m, Merged(m), NEW e, WellFormedEntry(e), _validate_rule(e.rule)
  PROVE  Merged(MergeRule(m, e))
<1> DEFINE p == e.pattern
           new == Without(e.rule, {"replace"})
           out == MergeRule(m, e)
<1>1. SoundRule(new) /\ p \in Names
  BY ValidRuleIsSound DEF WellFormedEntry
<1>2. {"order", "rules", "default_action"} \subseteq DOMAIN m /\ DOMAIN NoRules \subseteq DOMAIN m
  BY DEF Merged, NoRules
<1> HIDE DEF new
<1>3. CASE p \notin DOMAIN m.rules
  <2> DEFINE rules == Over(Only(p, new), m.rules)
  <2>1. out = [m EXCEPT !.rules = rules, !.order = Append(@, p)]
    BY <1>3 DEF MergeRule, new
  <2>2. /\ DOMAIN rules = DOMAIN m.rules \cup {p} /\ rules[p] = new
        /\ \A q \in DOMAIN m.rules : rules[q] = m.rules[q]
    BY <1>3 DEF Over, Only, Has
  <2> HIDE DEF rules
  <2>3. /\ out.rules = rules /\ out.order = Append(m.order, p)
        /\ out.default_action = m.default_action /\ DOMAIN out = DOMAIN m
    BY <1>2, <2>1
  <2>4. /\ Append(m.order, p) \in Seq(Names)
        /\ ToSet(Append(m.order, p)) = ToSet(m.order) \cup {p}
    <3>1. m.order \in Seq(Names)
      BY DEF Merged
    <3> DEFINE o == m.order
    <3> HIDE DEF o
    <3>2. o \in Seq(Names)
      BY <3>1 DEF o
    <3>3. Append(o, p) \in Seq(Names) /\ Len(o) \in Nat /\ Len(Append(o, p)) = Len(o) + 1
      BY <1>1, <3>2
    <3>4. /\ DOMAIN o = 1..Len(o) /\ DOMAIN Append(o, p) = 1..Len(o) + 1
          /\ \A i \in 1..Len(o) : Append(o, p)[i] = o[i]
          /\ Append(o, p)[Len(o) + 1] = p
      BY <1>1, <3>2
    <3>5. ToSet(Append(o, p)) \subseteq ToSet(o) \cup {p}
      BY <3>3, <3>4 DEF ToSet
    <3>6. ToSet(o) \subseteq ToSet(Append(o, p))
      BY <3>3, <3>4 DEF ToSet
    <3>7. p \in ToSet(Append(o, p))
      <4>1. Len(o) + 1 \in DOMAIN Append(o, p)
        BY <3>3, <3>4
      <4> QED
        BY <3>4, <4>1 DEF ToSet
    <3> QED
      BY <3>3, <3>5, <3>6, <3>7 DEF o
  <2>5. \A q \in DOMAIN rules : SoundRule(rules[q])
    BY <1>1, <2>2 DEF Merged
  <2> HIDE DEF out
  <2>6. Merged(out)
    BY <1>2, <2>2, <2>3, <2>4, <2>5 DEF Merged
  <2> QED
    BY <2>6 DEF out
<1>4. CASE p \in DOMAIN m.rules
  <2> DEFINE rule == IF Get(e.rule, "replace", FALSE) THEN new ELSE FieldMerge(m.rules[p], new)
  <2>1. out = [m EXCEPT !.rules[p] = rule]
    BY <1>4 DEF MergeRule, new
  <2>2. SoundRule(rule)
    <3>1. SoundRule(FieldMerge(m.rules[p], new))
      BY <1>1, <1>4, FieldMergeIsSound DEF Merged
    <3> QED
      BY <1>1, <3>1
  <2> HIDE DEF rule
  <2>3. /\ out.rules = [m.rules EXCEPT ![p] = rule] /\ out.order = m.order
        /\ out.default_action = m.default_action /\ DOMAIN out = DOMAIN m
    BY <1>2, <2>1
  <2> HIDE DEF out
  <2>4. DOMAIN out.rules = DOMAIN m.rules /\ \A q \in DOMAIN out.rules : SoundRule(out.rules[q])
    BY <2>2, <2>3 DEF Merged
  <2>5. Merged(out)
    BY <1>2, <2>3, <2>4 DEF Merged
  <2> QED
    BY <2>5 DEF out
<1> QED
  BY <1>3, <1>4

LEMMA MergeRulesKeeps ==
  ASSUME NEW m, Merged(m), NEW tools, tools \in Seq(ToSet(tools)),
         \A j \in DOMAIN tools : WellFormedEntry(tools[j]) /\ _validate_rule(tools[j].rule)
  PROVE  Merged(MergeRules(m, tools))
<1> DEFINE N == Len(tools)
<1>1. N \in Nat /\ DOMAIN tools = 1..N
  <2> DEFINE T == ToSet(tools)
  <2>1. tools \in Seq(T)
    OBVIOUS
  <2> HIDE DEF T
  <2> QED
    BY <2>1
<1>2. PICK f : /\ f[0] = m
               /\ \A n \in 1..N : f[n] = MergeRule(f[n - 1], tools[n])
               /\ MergeRules(m, tools) = f[N]
  <2>1. Len(tools) \in Nat
    BY <1>1
  <2>2. PICK f : MergeRulesRun(f, m, tools)
    BY <2>1, MergeRulesRuns
  <2> QED
    BY <2>2 DEF MergeRulesRun
<1> DEFINE S == {n \in 0..N : Merged(f[n])}
<1>3. 0 \in S
  BY <1>1, <1>2
<1>4. ASSUME NEW n \in 1..N, n - 1 \in S PROVE n \in S
  <2>1. Merged(f[n - 1]) /\ n \in DOMAIN tools
    BY <1>1, <1>4
  <2>2. WellFormedEntry(tools[n]) /\ _validate_rule(tools[n].rule)
    BY <2>1
  <2>3. Merged(MergeRule(f[n - 1], tools[n]))
    BY <2>1, <2>2, MergeRuleKeeps
  <2> QED
    BY <1>1, <1>2, <2>3
<1> HIDE DEF S, N
<1>5. \A n \in 0..N : n \in S
  BY <1>1, <1>3, <1>4, LoopInduction
<1>6. N \in S
  BY <1>1, <1>5
<1> QED
  BY <1>2, <1>6 DEF S

LEMMA MergeLayerKeeps ==
  ASSUME NEW m, Merged(m), NEW layer, layer.tools \in Seq(ToSet(layer.tools)),
         \A j \in DOMAIN layer.tools : WellFormedEntry(layer.tools[j]) /\ _validate_rule(layer.tools[j].rule),
         layer.default_action \in {Unset, "allow", "block"}
  PROVE  Merged(MergeLayer(m, layer))
<1> DEFINE flow == MergeFlow(m, layer)
           set == [flow EXCEPT
                     !.default_action = IF layer.default_action = Unset THEN @ ELSE layer.default_action,
                     !.risk = MergeRisk(@, layer.risk),
                     !.on_failure = IF layer.on_failure = Unset THEN @ ELSE layer.on_failure]
<1>1. MergeLayer(m, layer) = MergeRules(set, layer.tools)
  BY DEF MergeLayer
<1>2. {"order", "rules", "default_action"} \subseteq DOMAIN m /\ DOMAIN NoRules \subseteq DOMAIN m
  BY DEF Merged, NoRules
<1>3. /\ flow.order = m.order /\ flow.rules = m.rules /\ flow.default_action = m.default_action
      /\ DOMAIN flow = DOMAIN m
  BY <1>2 DEF MergeFlow
<1> HIDE DEF flow
<1>4. /\ set.order = flow.order /\ set.rules = flow.rules /\ DOMAIN set = DOMAIN flow
      /\ \/ set.default_action = flow.default_action
         \/ layer.default_action # Unset /\ set.default_action = layer.default_action
  BY <1>2, <1>3
<1> HIDE DEF set
<1>5. Merged(set)
  BY <1>2, <1>3, <1>4 DEF Merged
<1> QED
  BY <1>1, <1>5, MergeRulesKeeps

LEMMA NothingMerged == Merged(NoRules)
<1>1. /\ NoRules.order = <<>> /\ NoRules.rules = <<>> /\ NoRules.default_action = "block"
  BY DEF NoRules
<1>2. <<>> \in Seq(Names) /\ DOMAIN <<>> = {} /\ ToSet(<<>>) = {}
  BY DEF ToSet
<1> HIDE DEF NoRules
<1> QED
  BY <1>1, <1>2 DEF Merged

LEMMA ParsedDocument ==
  ASSUME NEW doc, parse_document(doc) # PolicyError
  PROVE  /\ doc.default_action \in {Unset, "allow", "block"}
         /\ \A j \in DOMAIN doc.tools : _validate_rule(doc.tools[j].rule)
BY DEF parse_document

(* An engine that loads, whatever its layers: every pattern has one place in *)
(* the order and one rule, which has an action and no null roles; every      *)
(* action, of rules and of overlays, is known or null (PolicyEngine.load,    *)
(* loader.py, merge.py).                                                     *)
SoundEngine(e) ==
  Merged(e) /\ \A p \in DOMAIN e.rules : Has(e.rules[p], "action") /\ ~Null(e.rules[p], "roles")

LEMMA EngineIsSound ==
  ASSUME NEW layers, WellFormed(layers), PolicyEngine(layers) # PolicyError
  PROVE  SoundEngine(PolicyEngine(layers))
<1> DEFINE N == Len(layers)
           m == merge_layers(layers)
<1>1. N \in Nat /\ DOMAIN layers = 1..N
  <2> DEFINE T == ToSet(layers)
  <2>1. layers \in Seq(T)
    BY DEF WellFormed
  <2> HIDE DEF T
  <2> QED
    BY <2>1
<1> HIDE DEF m
<1>2. /\ PolicyEngine(layers) = m
      /\ \A i \in DOMAIN layers : parse_document(layers[i]) # PolicyError
      /\ \A p \in DOMAIN m.rules : Has(m.rules[p], "action") /\ ~Null(m.rules[p], "roles")
  BY DEF PolicyEngine, CompileFails, m
<1>3. PICK f : /\ f[0] = NoRules
               /\ \A n \in 1..N : f[n] = MergeLayer(f[n - 1], layers[n])
               /\ m = f[N]
  <2>1. Len(layers) \in Nat
    BY <1>1
  <2> QED
    BY <2>1, MergeLayersRuns, Zenon DEF m
<1> DEFINE S == {n \in 0..N : Merged(f[n])}
<1>4. 0 \in S
  BY <1>1, <1>3, NothingMerged
<1>5. ASSUME NEW n \in 1..N, n - 1 \in S PROVE n \in S
  <2>1. Merged(f[n - 1]) /\ n \in DOMAIN layers
    BY <1>1, <1>5
  <2> DEFINE layer == layers[n]
  <2>2. /\ layer.tools \in Seq(ToSet(layer.tools))
        /\ \A j \in DOMAIN layer.tools : WellFormedEntry(layer.tools[j])
    BY <2>1 DEF WellFormed, WellFormedEntry
  <2>3. /\ layer.default_action \in {Unset, "allow", "block"}
        /\ \A j \in DOMAIN layer.tools : _validate_rule(layer.tools[j].rule)
    <3>1. parse_document(layer) # PolicyError
      BY <1>2, <2>1
    <3> HIDE DEF layer
    <3> QED
      BY <3>1, ParsedDocument
  <2> HIDE DEF layer
  <2>4. Merged(MergeLayer(f[n - 1], layer))
    BY <2>1, <2>2, <2>3, MergeLayerKeeps
  <2> QED
    BY <1>1, <1>3, <2>4 DEF layer
<1> HIDE DEF S, N
<1>6. \A n \in 0..N : n \in S
  BY <1>1, <1>4, <1>5, LoopInduction
<1>7. N \in S
  BY <1>1, <1>6
<1>8. Merged(m)
  BY <1>3, <1>7 DEF S
<1> QED
  BY <1>2, <1>8 DEF SoundEngine

-----------------------------------------------------------------------------
(* Matching and evaluation.                                                   *)

Hits(order, name, n) == {i \in 1..n : Matches(order[i], name)}

Beats(order, i, j) == \/ Specificity[order[i]] > Specificity[order[j]]
                      \/ Specificity[order[i]] = Specificity[order[j]] /\ i >= j

\* The best pattern after n of them have been scanned.
BestOf(order, name, n, best) ==
  IF Hits(order, name, n) = {} THEN best = NoPattern
  ELSE \E i \in Hits(order, name, n) :
         best = order[i] /\ \A j \in Hits(order, name, n) : Beats(order, i, j)

LEMMA ScanKeepsBest ==
  ASSUME NEW order, order \in Seq(Names), NEW name, NEW n \in 1..Len(order), NEW best,
         BestOf(order, name, n - 1, best)
  PROVE  BestOf(order, name, n, Scan(name, best, order[n]))
<1> DEFINE p == order[n]
           H(k) == Hits(order, name, k)
           next == Scan(name, best, p)
<1>1. /\ Len(order) \in Nat /\ n \in Nat /\ n - 1 \in Nat /\ \A i \in 1..n : order[i] \in Names
      /\ \A i \in 1..n - 1 : i \in 1..n /\ i < n
  OBVIOUS
<1>2. \A i : i \in 1..n <=> i = n \/ i \in 1..n - 1
  BY <1>1
<1>3. H(n) = IF Matches(p, name) THEN H(n - 1) \cup {n} ELSE H(n - 1)
  BY <1>2 DEF Hits
<1>4. /\ \A i \in H(n - 1) : i \in 1..n - 1 /\ Matches(order[i], name)
      /\ H(n) \subseteq 1..n /\ \A i \in H(n) : Matches(order[i], name)
  BY DEF Hits
<1>5. \A i \in H(n) : order[i] \in Globs /\ Specificity[order[i]] \in Nat /\ order[i] # NoPattern
  BY <1>1, <1>4, NamesAssumption DEF Matches
<1>6. CASE ~Matches(p, name)
  <2>1. next = best /\ H(n) = H(n - 1)
    BY <1>3, <1>6 DEF Scan
  <2> QED
    BY <2>1 DEF BestOf
<1>7. CASE Matches(p, name) /\ best = NoPattern
  <2>1. next = p
    BY <1>7 DEF Scan, Better
  <2>2. H(n - 1) = {}
    <3>1. ASSUME NEW i \in H(n - 1) PROVE order[i] # NoPattern
      BY <1>3, <1>5
    <3> QED
      BY <1>7, <3>1 DEF BestOf
  <2>3. H(n) = {n}
    BY <1>3, <1>7, <2>2
  <2>4. Beats(order, n, n)
    BY <1>1 DEF Beats
  <2> HIDE DEF next, p
  <2>5. \E i \in H(n) : next = order[i] /\ \A j \in H(n) : Beats(order, i, j)
    BY <2>1, <2>3, <2>4 DEF p
  <2>6. H(n) # {}
    BY <2>3
  <2> QED
    BY <2>5, <2>6 DEF BestOf, next, p
<1>8. CASE Matches(p, name) /\ best # NoPattern
  <2>1. H(n - 1) # {}
    BY <1>8 DEF BestOf
  <2>2. PICK i \in H(n - 1) : best = order[i] /\ \A j \in H(n - 1) : Beats(order, i, j)
    BY <2>1 DEF BestOf
  <2>3. H(n) = H(n - 1) \cup {n}
    BY <1>3, <1>8
  <2>4. H(n) # {}
    BY <2>3
  <2>5. Specificity[p] \in Nat /\ Specificity[order[i]] \in Nat /\ i \in 1..n - 1
    BY <1>4, <1>5, <2>3
  <2>6. \A j \in H(n - 1) : Specificity[order[j]] \in Nat /\ j \in 1..n - 1
    BY <1>4, <1>5, <2>3
  <2>7. Better(best, p) = (Specificity[p] >= Specificity[order[i]])
    BY <1>8, <2>2 DEF Better
  <2>8. CASE Specificity[p] >= Specificity[order[i]]
    <3>1. next = p
      BY <1>8, <2>7, <2>8 DEF Scan
    <3>2. ASSUME NEW j \in H(n) PROVE Beats(order, n, j)
      <4>1. CASE j = n
        BY <1>1, <4>1 DEF Beats
      <4>2. CASE j # n
        <5>1. Beats(order, i, j) /\ j \in H(n - 1)
          BY <2>2, <2>3, <4>2
        <5>2. Specificity[order[j]] \in Nat /\ j \in 1..n - 1
          BY <2>6, <5>1
        <5>3. n >= j
          BY <1>1, <5>2
        <5>4. Specificity[order[i]] >= Specificity[order[j]]
          BY <2>5, <5>1, <5>2 DEF Beats
        <5> QED
          BY <2>5, <2>8, <5>2, <5>3, <5>4 DEF Beats
      <4> QED
        BY <4>1, <4>2
    <3>3. n \in H(n)
      BY <2>3
    <3> HIDE DEF next, H
    <3>4. \E k \in H(n) : next = order[k] /\ \A j \in H(n) : Beats(order, k, j)
      BY <3>1, <3>2, <3>3
    <3> QED
      BY <2>4, <3>4 DEF BestOf, next, H
  <2>9. CASE ~(Specificity[p] >= Specificity[order[i]])
    <3>1. next = best
      BY <1>8, <2>7, <2>9 DEF Scan
    <3>2. ASSUME NEW j \in H(n) PROVE Beats(order, i, j)
      <4>1. CASE j = n
        BY <2>5, <2>9, <4>1 DEF Beats
      <4>2. CASE j # n
        BY <2>2, <2>3, <4>2
      <4> QED
        BY <4>1, <4>2
    <3>3. i \in H(n)
      BY <2>3
    <3> HIDE DEF next, H
    <3>4. \E k \in H(n) : next = order[k] /\ \A j \in H(n) : Beats(order, k, j)
      BY <2>2, <3>1, <3>2, <3>3
    <3> QED
      BY <2>4, <3>4 DEF BestOf, next, H
  <2> QED
    BY <2>8, <2>9
<1> QED
  BY <1>6, <1>7, <1>8

LEMMA MatchFindsBest ==
  ASSUME NEW order, order \in Seq(Names), NEW name
  PROVE  IF name \in Tools /\ name \in ToSet(order) THEN match(order, name) = name
         ELSE BestOf(order, name, Len(order), match(order, name))
<1> DEFINE N == Len(order)
<1>1. N \in Nat
  OBVIOUS
<1>2. PICK f : /\ f[0] = NoPattern
               /\ \A n \in 1..N : f[n] = Scan(name, f[n - 1], order[n])
               /\ match(order, name) = IF name \in Tools /\ name \in ToSet(order) THEN name ELSE f[N]
  BY <1>1, MatchRuns
<1> DEFINE S == {n \in 0..N : BestOf(order, name, n, f[n])}
<1>3. 0 \in S
  <2>1. Hits(order, name, 0) = {}
    BY DEF Hits
  <2> QED
    BY <1>1, <1>2, <2>1 DEF BestOf
<1>4. ASSUME NEW n \in 1..N, n - 1 \in S PROVE n \in S
  <2>1. BestOf(order, name, n - 1, f[n - 1])
    BY <1>4
  <2>2. BestOf(order, name, n, Scan(name, f[n - 1], order[n]))
    BY <2>1, ScanKeepsBest
  <2> QED
    BY <1>1, <1>2, <2>2
<1> HIDE DEF S, N
<1>5. \A n \in 0..N : n \in S
  BY <1>1, <1>3, <1>4, LoopInduction
<1>6. N \in S
  BY <1>1, <1>5
<1>7. BestOf(order, name, N, f[N])
  BY <1>6 DEF S
<1> QED
  BY <1>2, <1>7 DEF N

\* A name has no rule, or one of the engine's.
LEMMA MatchIsARule ==
  ASSUME NEW e, SoundEngine(e), NEW name
  PROVE  match(e.order, name) = NoPattern \/ match(e.order, name) \in DOMAIN e.rules
<1> DEFINE o == e.order
<1>1. o \in Seq(Names) /\ DOMAIN e.rules = ToSet(o)
  BY DEF SoundEngine, Merged
<1> HIDE DEF o
<1>2. IF name \in Tools /\ name \in ToSet(o) THEN match(o, name) = name
      ELSE BestOf(o, name, Len(o), match(o, name))
  BY <1>1, MatchFindsBest
<1>3. \A i \in 1..Len(o) : o[i] \in ToSet(o)
  BY <1>1 DEF ToSet
<1>4. match(o, name) = NoPattern \/ match(o, name) \in ToSet(o)
  BY <1>2, <1>3 DEF BestOf, Hits
<1> QED
  BY <1>1, <1>4 DEF o

LEMMA KnownDecision ==
  ASSUME NEW e, SoundEngine(e), NEW name, NEW role
  PROVE  evaluate(e, name, role).action \in ACTION_VOCABULARY \cup {Unset}
<1> DEFINE p == match(e.order, name)
           raw == e.rules[p]
           base == Without(raw, {"roles"})
           eff == for_role(_compile(raw), role)
<1>1. p = NoPattern \/ p \in DOMAIN e.rules
  BY MatchIsARule
<1>2. CASE p = NoPattern
  <2>1. evaluate(e, name, role).action = e.default_action
    BY <1>2 DEF evaluate
  <2>2. e.default_action \in {"allow", "block"}
    BY DEF SoundEngine, Merged
  <2> QED
    BY <2>1, <2>2 DEF ACTION_VOCABULARY
<1>3. CASE p # NoPattern
  <2>1. evaluate(e, name, role).action = eff["action"]
    <3> HIDE DEF p
    <3>1. p = match(e.order, name)
      BY DEF p
    <3> QED
      BY <1>3, <3>1 DEF evaluate
  <2>2. Has(raw, "action") /\ SoundRule(raw)
    BY <1>1, <1>3 DEF SoundEngine, Merged
  <2> HIDE DEF raw, p
  <2>3. /\ Has(base, "action") /\ base["action"] = raw["action"]
        /\ raw["action"] \in ACTION_VOCABULARY \cup {Unset}
    BY <2>2 DEF Without, Has, SoundRule, KnownAction
  <2> HIDE DEF base
  <2> DEFINE roles == DOMAIN RolesIn(raw)
  <2>4. eff = IF role \in roles THEN Over(raw["roles"][role], base) ELSE base
    BY DEF for_role, _compile, base
  <2>5. CASE role \notin roles
    BY <2>1, <2>3, <2>4, <2>5
  <2>6. CASE role \in roles
    <3> DEFINE over == raw["roles"][role]
    <3>3. KnownAction(over)
      BY <2>2, <2>6 DEF SoundRule
    <3> HIDE DEF over
    <3>4. eff = Over(over, base)
      BY <2>4, <2>6 DEF over
    <3>5. eff["action"] = IF Has(over, "action") THEN over["action"] ELSE base["action"]
      BY <2>3, <3>4 DEF Over, Has
    <3> QED
      BY <2>1, <2>3, <3>3, <3>5 DEF KnownAction
  <2> QED
    BY <2>5, <2>6
<1> QED
  BY <1>2, <1>3

-----------------------------------------------------------------------------
(* The inputs.                                                                *)

LayersOK(layers) == WellFormed(layers) /\ \A i \in DOMAIN layers : "tools" \in DOMAIN layers[i]

SideOK(side) == side = Unset \/ ("layers" \in DOMAIN side /\ LayersOK(side.layers))

Kinds == {"policy", "settings", "diff", "ci", "text", "json", "central"}

InputOK ==
  /\ "kind" \in DOMAIN input /\ input.kind \in Kinds
  /\ Layered => "layers" \in DOMAIN input /\ LayersOK(input.layers)
  /\ input.kind = "diff" => /\ {"base", "head"} \subseteq DOMAIN input
                            /\ SideOK(input.base) /\ SideOK(input.head)
  /\ input.kind = "ci" => input.target \in CiTargets /\ input.backtest \in BOOLEAN
  /\ input.kind = "central" => /\ "doc" \in DOMAIN input /\ "upstreams" \in DOMAIN input.doc
                               /\ input.doc.upstreams \in Seq(Upstreams)
                               /\ input.doc.identity \in Identities

LEMMA IsSequence ==
  ASSUME NEW s, NEW n \in Nat, s = [i \in 1..n |-> s[i]]
  PROVE  s \in Seq(ToSet(s)) /\ DOMAIN s = 1..n /\ Len(s) = n
<1> DEFINE T == ToSet(s)
<1>1. DOMAIN s = 1..n
  OBVIOUS
<1>2. s \in [1..n -> T]
  BY <1>1 DEF ToSet
<1> HIDE DEF T
<1>3. s \in Seq(T)
  BY <1>2
<1>4. Len(s) = n
  BY <1>1, <1>3
<1> QED
  BY <1>1, <1>3, <1>4 DEF T

LEMMA SequenceIs ==
  ASSUME NEW s, s \in Seq(ToSet(s))
  PROVE  Len(s) \in Nat /\ DOMAIN s = 1..Len(s) /\ s = [i \in 1..Len(s) |-> s[i]]
<1> DEFINE T == ToSet(s)
<1>1. s \in Seq(T)
  OBVIOUS
<1> HIDE DEF T
<1> QED
  BY <1>1

LEMMA AppendIs ==
  ASSUME NEW s, s \in Seq(ToSet(s)), NEW x
  PROVE  /\ Append(s, x) \in Seq(ToSet(Append(s, x)))
         /\ DOMAIN Append(s, x) = DOMAIN s \cup {Len(s) + 1}
         /\ \A i \in DOMAIN s : Append(s, x)[i] = s[i]
         /\ Append(s, x)[Len(s) + 1] = x
         /\ Len(s) + 1 \notin DOMAIN s
<1> DEFINE T == ToSet(s) \cup {x}
           n == Len(s)
           t == Append(s, x)
<1>1. n \in Nat /\ DOMAIN s = 1..n /\ s = [i \in 1..n |-> s[i]]
  BY SequenceIs
<1>2. s \in Seq(T) /\ x \in T
  <2>1. s \in [1..n -> T]
    BY <1>1 DEF ToSet
  <2> HIDE DEF T, n
  <2> QED
    BY <1>1, <2>1 DEF T
<1> HIDE DEF T
<1>3. t \in Seq(T) /\ Len(t) = n + 1
  BY <1>2
<1>4. t = [i \in 1..n + 1 |-> t[i]] /\ t[n + 1] = x /\ \A i \in 1..n : t[i] = s[i]
  <2>1. t[n + 1] = x
    BY <1>2
  <2>2. \A i \in 1..n : t[i] = s[i]
    BY <1>2
  <2> HIDE DEF t, n
  <2>3. t = [i \in 1..n + 1 |-> t[i]]
    BY <1>3
  <2> QED
    BY <2>1, <2>2, <2>3
<1> HIDE DEF t, n
<1>5. t \in Seq(ToSet(t)) /\ DOMAIN t = 1..n + 1
  BY <1>1, <1>4, IsSequence
<1>6. 1..n + 1 = 1..n \cup {n + 1} /\ n + 1 \notin 1..n
  BY <1>1
<1> QED
  BY <1>1, <1>4, <1>5, <1>6 DEF t, n

LEMMA ConcatIs ==
  ASSUME NEW s, s \in Seq(ToSet(s)), NEW t, t \in Seq(ToSet(t))
  PROVE  s \o t \in Seq(ToSet(s \o t)) /\ ToSet(s \o t) = ToSet(s) \cup ToSet(t)
<1> DEFINE T == ToSet(s) \cup ToSet(t)
           m == Len(s)
           n == Len(t)
           u == s \o t
<1>1. m \in Nat /\ DOMAIN s = 1..m /\ s = [i \in 1..m |-> s[i]]
  BY SequenceIs
<1>2. n \in Nat /\ DOMAIN t = 1..n /\ t = [i \in 1..n |-> t[i]]
  BY SequenceIs
<1>3. s \in Seq(T) /\ t \in Seq(T)
  <2>1. s \in [1..m -> T] /\ t \in [1..n -> T]
    BY <1>1, <1>2 DEF ToSet
  <2> HIDE DEF T, m, n
  <2> QED
    BY <1>1, <1>2, <2>1
<1> HIDE DEF T
<1>4. u \in Seq(T) /\ Len(u) = m + n
  BY <1>3
<1>5. /\ \A i \in 1..m : u[i] = s[i]
      /\ \A i \in 1..n : u[m + i] = t[i]
      /\ \A i \in 1..m + n : i \in 1..m \/ i - m \in 1..n
  BY <1>1, <1>2, <1>3
<1> HIDE DEF u, m, n
<1>6. u = [i \in 1..m + n |-> u[i]]
  BY <1>4
<1>7. u \in Seq(ToSet(u)) /\ DOMAIN u = 1..m + n
  <2> DEFINE k == m + n
  <2>1. k \in Nat /\ u = [i \in 1..k |-> u[i]]
    BY <1>1, <1>2, <1>6
  <2> HIDE DEF k
  <2>2. u \in Seq(ToSet(u)) /\ DOMAIN u = 1..k
    BY <2>1, IsSequence
  <2> QED
    BY <2>2 DEF k
<1>8. ToSet(u) \subseteq ToSet(s) \cup ToSet(t)
  <2> SUFFICES ASSUME NEW i \in 1..m + n PROVE u[i] \in ToSet(s) \cup ToSet(t)
    BY <1>7 DEF ToSet
  <2>1. CASE i \in 1..m
    BY <1>1, <1>5, <2>1 DEF ToSet
  <2>2. CASE i - m \in 1..n
    <3>1. m + (i - m) = i
      BY <1>1, <1>2
    <3>2. u[i] = t[i - m]
      BY <1>5, <2>2, <3>1
    <3> QED
      BY <1>2, <2>2, <3>2 DEF ToSet
  <2> QED
    BY <1>5, <2>1, <2>2
<1>9. ToSet(s) \subseteq ToSet(u)
  <2> SUFFICES ASSUME NEW i \in 1..m PROVE s[i] \in ToSet(u)
    BY <1>1 DEF ToSet
  <2>1. i \in 1..m + n
    BY <1>1, <1>2
  <2> QED
    BY <1>5, <1>7, <2>1 DEF ToSet
<1>10. ToSet(t) \subseteq ToSet(u)
  <2> SUFFICES ASSUME NEW i \in 1..n PROVE t[i] \in ToSet(u)
    BY <1>2 DEF ToSet
  <2>1. m + i \in 1..m + n
    BY <1>1, <1>2
  <2> QED
    BY <1>5, <1>7, <2>1 DEF ToSet
<1> QED
  BY <1>7, <1>8, <1>9, <1>10 DEF u

LEMMA InItself ==
  ASSUME NEW T, NEW s \in Seq(T)
  PROVE  s \in Seq(ToSet(s))
<1> DEFINE n == Len(s)
<1>1. n \in Nat /\ s = [i \in 1..n |-> s[i]]
  OBVIOUS
<1> HIDE DEF n
<1> QED
  BY <1>1, IsSequence

LEMMA NoTools ==
  ASSUME NEW d, d.tools = <<>>, "tools" \in DOMAIN d
  PROVE  LayersOK(<<d>>)
<1> DEFINE l == <<d>>
           e == <<>>
<1>1. l = [i \in 1..1 |-> l[i]] /\ l[1] = d /\ DOMAIN l = {1}
  OBVIOUS
<1>2. e = [i \in 1..0 |-> e[i]] /\ DOMAIN e = {}
  OBVIOUS
<1> HIDE DEF l, e
<1>3. l \in Seq(ToSet(l)) /\ e \in Seq(ToSet(e))
  BY <1>1, <1>2, IsSequence
<1>4. d.tools = e
  BY DEF e
<1>5. LayersOK(l)
  BY <1>1, <1>2, <1>3, <1>4 DEF LayersOK, WellFormed
<1> QED
  BY <1>5 DEF l

LEMMA AddedLayer ==
  ASSUME NEW layers, LayersOK(layers), NEW d, d.tools = <<>>, "tools" \in DOMAIN d
  PROVE  LayersOK(Append(layers, d))
<1> DEFINE l == Append(layers, d)
           e == <<>>
<1>1. layers \in Seq(ToSet(layers))
  BY DEF LayersOK, WellFormed
<1>2. /\ l \in Seq(ToSet(l))
      /\ DOMAIN l = DOMAIN layers \cup {Len(layers) + 1}
      /\ \A i \in DOMAIN layers : l[i] = layers[i]
      /\ l[Len(layers) + 1] = d
  BY <1>1, AppendIs
<1>3. e = [i \in 1..0 |-> e[i]] /\ DOMAIN e = {}
  OBVIOUS
<1> HIDE DEF l, e
<1>4. e \in Seq(ToSet(e))
  BY <1>3, IsSequence
<1>5. d.tools = e
  BY DEF e
<1>6. LayersOK(l)
  BY <1>2, <1>3, <1>4, <1>5 DEF LayersOK, WellFormed
<1> QED
  BY <1>6 DEF l

LEMMA AddedRule ==
  ASSUME NEW layers, LayersOK(layers), NEW p \in Names, NEW rule, NamesRoles(rule)
  PROVE  LayersOK(WithRule(layers, p, rule))
<1> DEFINE n == Len(layers)
           e == [pattern |-> p, rule |-> rule]
           l == WithRule(layers, p, rule)
<1>1. n \in Nat /\ DOMAIN layers = 1..n /\ layers = [i \in 1..n |-> layers[i]]
  BY SequenceIs DEF LayersOK, WellFormed
<1>2. l = [i \in 1..n |-> IF i = n THEN [layers[n] EXCEPT !.tools = Append(@, e)] ELSE layers[i]]
  BY <1>1 DEF WithRule
<1>3. e.pattern \in Names /\ NamesRoles(e.rule)
  OBVIOUS
<1> HIDE DEF l, n, e
<1>4. l = [i \in 1..n |-> l[i]]
  BY <1>2
<1>5. l \in Seq(ToSet(l)) /\ DOMAIN l = 1..n
  BY <1>1, <1>4, IsSequence
<1>6. ASSUME NEW i \in DOMAIN l
      PROVE  /\ "tools" \in DOMAIN l[i] /\ l[i].tools \in Seq(ToSet(l[i].tools))
             /\ \A j \in DOMAIN l[i].tools : l[i].tools[j].pattern \in Names
                                             /\ NamesRoles(l[i].tools[j].rule)
  <2> DEFINE old == layers[i].tools
  <2>1. /\ "tools" \in DOMAIN layers[i] /\ old \in Seq(ToSet(old))
        /\ \A j \in DOMAIN old : old[j].pattern \in Names /\ NamesRoles(old[j].rule)
    BY <1>1, <1>5, <1>6 DEF LayersOK, WellFormed
  <2>2. CASE i # n
    BY <1>2, <1>5, <2>1, <2>2
  <2>3. CASE i = n
    <3>1. "tools" \in DOMAIN l[i] /\ l[i].tools = Append(old, e)
      BY <1>2, <1>5, <2>1, <2>3
    <3> DEFINE new == Append(old, e)
    <3> HIDE DEF old
    <3>2. /\ new \in Seq(ToSet(new))
          /\ DOMAIN new = DOMAIN old \cup {Len(old) + 1}
          /\ \A j \in DOMAIN old : new[j] = old[j]
          /\ new[Len(old) + 1] = e
      BY <2>1, AppendIs
    <3> HIDE DEF new
    <3>3. \A j \in DOMAIN new : new[j].pattern \in Names /\ NamesRoles(new[j].rule)
      BY <1>3, <2>1, <3>2
    <3> QED
      BY <3>1, <3>2, <3>3 DEF new
  <2> QED
    BY <2>2, <2>3
<1>7. LayersOK(l)
  BY <1>5, <1>6 DEF LayersOK, WellFormed
<1> QED
  BY <1>7 DEF l

LEMMA DocHasNoTools == Doc.tools = <<>> /\ "tools" \in DOMAIN Doc
BY DEF Doc

LEMMA InputsStart == Init => InputOK
<1> SUFFICES ASSUME Init PROVE InputOK
  OBVIOUS
<1>1. LayersOK(<<Doc>>)
  <2> HIDE DEF Doc
  <2> QED
    BY NoTools, DocHasNoTools
<1>2. ASSUME NEW k \in {"policy", "settings"}, input = [kind |-> k, layers |-> <<Doc>>]
      PROVE  InputOK
  BY <1>1, <1>2 DEF InputOK, Kinds, Layered
<1>3. ASSUME NEW d, NEW i
      PROVE  SideOK(Side(d, i))
  <2> DEFINE doc == [Doc EXCEPT !.default_action = d]
  <2>1. doc.tools = <<>> /\ "tools" \in DOMAIN doc
    BY DEF Doc
  <2> HIDE DEF doc
  <2>2. LayersOK(<<doc>>)
    BY <2>1, NoTools
  <2>3. "layers" \in DOMAIN Side(d, i) /\ Side(d, i).layers = <<doc>>
    BY DEF Side, doc
  <2> QED
    BY <2>2, <2>3 DEF SideOK
<1> DEFINE Sides == {Side(d, i) : d \in {"allow", "block"}, i \in Inventories} \cup {Unset}
<1>4. \A b \in Sides : SideOK(b)
  <2>1. SideOK(Unset)
    BY DEF SideOK
  <2> QED
    BY <1>3, <2>1
<1> HIDE DEF Sides
<1>5. ASSUME NEW b \in Sides, NEW h \in Sides, input = [kind |-> "diff", base |-> b, head |-> h]
      PROVE  InputOK
  BY <1>4, <1>5 DEF InputOK, Kinds, Layered
<1>6. ASSUME NEW t \in CiTargets, NEW only \in Onlys, NEW bt \in BOOLEAN,
             input = [kind |-> "ci", target |-> t, only |-> only, backtest |-> bt]
      PROVE  InputOK
  BY <1>6 DEF InputOK, Kinds, Layered
<1>7. ASSUME NEW near \in Nears, NEW p \in RedactProfiles,
             input = [kind |-> "text", found |-> <<>>, denied |-> <<>>, near |-> near, profile |-> p]
      PROVE  InputOK
  BY <1>7 DEF InputOK, Kinds, Layered
<1>8. ASSUME NEW v \in JsonValues, input = [kind |-> "json", value |-> v]
      PROVE  InputOK
  BY <1>8 DEF InputOK, Kinds, Layered
<1>9. ASSUME NEW b \in Backends, NEW i \in Identities,
             input = [kind |-> "central", doc |-> [upstreams |-> <<>>, backend |-> b.backend,
                                                   url |-> b.url, identity |-> i]]
      PROVE  InputOK
  <2> DEFINE d == [upstreams |-> <<>>, backend |-> b.backend, url |-> b.url, identity |-> i]
  <2>1. d.upstreams \in Seq(Upstreams) /\ d.identity \in Identities /\ "upstreams" \in DOMAIN d
    OBVIOUS
  <2> HIDE DEF d
  <2>2. input = [kind |-> "central", doc |-> d]
    BY <1>9 DEF d
  <2> QED
    BY <2>1, <2>2 DEF InputOK, Kinds, Layered
<1> QED
  BY <1>2, <1>5, <1>6, <1>7, <1>8, <1>9 DEF Init, Sides

LEMMA InputsStep == InputOK /\ [Next]_vars => InputOK'
<1> SUFFICES ASSUME InputOK, [Next]_vars PROVE InputOK'
  OBVIOUS
<1>1. ASSUME NEW p \in PolicyPatterns, NEW rule \in PolicyRules, AddRule(p, rule)
      PROVE  InputOK'
  <2> DEFINE l == WithRule(input.layers, p, rule)
  <2>1. "kind" \in DOMAIN input /\ input.kind = "policy" /\ "layers" \in DOMAIN input
        /\ LayersOK(input.layers)
    BY <1>1 DEF AddRule, InputOK, Layered
  <2>2. LayersOK(l)
    BY <2>1, AddedRule, InputsAssumption
  <2>3. input' = [input EXCEPT !.layers = l]
    BY <1>1 DEF AddRule
  <2> HIDE DEF l
  <2>4. DOMAIN input' = DOMAIN input /\ input'.kind = "policy" /\ input'.layers = l
    BY <2>1, <2>3
  <2> QED
    BY <2>1, <2>2, <2>4 DEF InputOK, Layered, Kinds
<1>2. ASSUME AddLayer PROVE InputOK'
  <2> DEFINE l == Append(input.layers, Doc)
  <2>1. "kind" \in DOMAIN input /\ input.kind = "policy" /\ "layers" \in DOMAIN input
        /\ LayersOK(input.layers)
    BY <1>2 DEF AddLayer, InputOK, Layered
  <2>2. LayersOK(l)
    <3> HIDE DEF Doc
    <3> QED
      BY <2>1, AddedLayer, DocHasNoTools
  <2>3. input' = [input EXCEPT !.layers = l]
    BY <1>2 DEF AddLayer
  <2> HIDE DEF l
  <2>4. DOMAIN input' = DOMAIN input /\ input'.kind = "policy" /\ input'.layers = l
    BY <2>1, <2>3
  <2> QED
    BY <2>1, <2>2, <2>4 DEF InputOK, Layered, Kinds
<1>3. ASSUME NEW s \in Settings, AddSettings(s) PROVE InputOK'
  <2> DEFINE d == [f \in DOMAIN Doc |-> Get(s, f, Doc[f])]
             l == Append(input.layers, d)
  <2>1. "kind" \in DOMAIN input /\ input.kind = "settings" /\ "layers" \in DOMAIN input
        /\ LayersOK(input.layers)
    BY <1>3 DEF AddSettings, InputOK, Layered
  <2>2. d.tools = <<>> /\ "tools" \in DOMAIN d
    <3>1. ~Has(s, "tools")
      BY InputsAssumption
    <3> HIDE DEF Doc
    <3> QED
      BY <3>1, DocHasNoTools DEF Get
  <2>3. input' = [input EXCEPT !.layers = l]
    BY <1>3 DEF AddSettings
  <2> HIDE DEF d
  <2>4. LayersOK(l)
    BY <2>1, <2>2, AddedLayer
  <2> HIDE DEF l
  <2>5. DOMAIN input' = DOMAIN input /\ input'.kind = "settings" /\ input'.layers = l
    BY <2>1, <2>3
  <2> QED
    BY <2>1, <2>4, <2>5 DEF InputOK, Layered, Kinds
<1>4. ASSUME NEW side \in {"base", "head"}, NEW p \in DiffPatterns, NEW rule \in DiffRules,
             AddSideRule(side, p, rule)
      PROVE  InputOK'
  <2> DEFINE l == WithRule(input[side].layers, p, rule)
  <2>1. /\ "kind" \in DOMAIN input /\ input.kind = "diff" /\ {"base", "head"} \subseteq DOMAIN input
        /\ SideOK(input.base) /\ SideOK(input.head)
    BY <1>4 DEF AddSideRule, InputOK
  <2>2. "layers" \in DOMAIN input[side] /\ LayersOK(input[side].layers)
    BY <1>4, <2>1 DEF AddSideRule, SideOK
  <2>3. LayersOK(l)
    BY <2>2, AddedRule, InputsAssumption
  <2>4. input' = [input EXCEPT ![side].layers = l]
    BY <1>4 DEF AddSideRule
  <2> HIDE DEF l
  <2>5. /\ DOMAIN input' = DOMAIN input /\ input'.kind = "diff"
        /\ input'[side] = [input[side] EXCEPT !.layers = l]
        /\ \A x \in {"base", "head"} \ {side} : input'[x] = input[x]
    BY <2>1, <2>4
  <2>6. SideOK(input'[side])
    BY <2>2, <2>3, <2>5 DEF SideOK
  <2>7. \A x \in {"base", "head"} : SideOK(input'[x])
    BY <2>1, <2>5, <2>6
  <2> QED
    BY <2>1, <2>5, <2>7 DEF InputOK, Layered, Kinds
<1>5. ASSUME NEW s \in Spans, AddSpan(s) PROVE InputOK'
  <2>1. "kind" \in DOMAIN input /\ input.kind = "text"
    BY <1>5 DEF AddSpan, InputOK
  <2>2. DOMAIN input' = DOMAIN input /\ input'.kind = "text"
    BY <1>5, <2>1 DEF AddSpan
  <2> QED
    BY <2>1, <2>2 DEF InputOK, Layered, Kinds
<1>6. ASSUME NEW up \in Upstreams, AddUpstream(up) PROVE InputOK'
  <2>1. /\ "kind" \in DOMAIN input /\ input.kind = "central" /\ "doc" \in DOMAIN input
        /\ "upstreams" \in DOMAIN input.doc /\ input.doc.upstreams \in Seq(Upstreams)
        /\ input.doc.identity \in Identities
    BY <1>6 DEF AddUpstream, InputOK
  <2>2. /\ DOMAIN input' = DOMAIN input /\ input'.kind = "central"
        /\ input'.doc = [input.doc EXCEPT !.upstreams = Append(@, up)]
    BY <1>6, <2>1 DEF AddUpstream
  <2>3. input'.doc.upstreams = Append(input.doc.upstreams, up) /\ DOMAIN input'.doc = DOMAIN input.doc
    BY <2>1, <2>2
  <2>4. input'.doc.identity = input.doc.identity
    BY <2>2
  <2>5. Append(input.doc.upstreams, up) \in Seq(Upstreams)
    BY <2>1
  <2> QED
    BY <2>1, <2>2, <2>3, <2>4, <2>5 DEF InputOK, Layered, Kinds
<1>7. CASE UNCHANGED vars
  BY <1>7 DEF vars, InputOK, Layered
<1> QED
  BY <1>1, <1>2, <1>3, <1>4, <1>5, <1>6, <1>7 DEF Next

LEMMA InputsAreTyped == Spec => []InputOK
<1>1. Init => InputOK
  BY InputsStart
<1>2. InputOK /\ [Next]_vars => InputOK'
  BY InputsStep
<1> QED
  BY <1>1, <1>2, PTL DEF Spec

LEMMA MostSpecificDecides == InputOK => MostSpecificRuleDecides
<1> SUFFICES ASSUME InputOK, Layered, Engine # PolicyError PROVE MostSpecificRuleDecides
  BY DEF MostSpecificRuleDecides
<1> DEFINE e == Engine
<1>1. SoundEngine(e)
  BY EngineIsSound DEF InputOK, LayersOK, Engine
<1> HIDE DEF e
<1>2. MostSpecificRuleDecides
  <2> SUFFICES ASSUME NEW n \in Names
               PROVE  LET d        == evaluate(e, n, NoRole)
                          globs    == {i \in DOMAIN e.order : e.order[i] \in Globs /\ n \in Covers[e.order[i]]}
                          spec(i)  == Specificity[e.order[i]]
                      IN CASE n \in Tools /\ n \in DOMAIN e.rules -> d.rule = n
                           [] globs # {} /\ ~(n \in Tools /\ n \in DOMAIN e.rules) ->
                                \E i \in globs : /\ d.rule = e.order[i]
                                                 /\ \A j \in globs : \/ spec(i) > spec(j)
                                                                     \/ spec(i) = spec(j) /\ i >= j
                           [] OTHER -> d.rule = NoPattern /\ d.action = e.default_action
    BY DEF MostSpecificRuleDecides, e
  <2> DEFINE o == e.order
             p == match(o, n)
             d == evaluate(e, n, NoRole)
             globs == {i \in DOMAIN o : o[i] \in Globs /\ n \in Covers[o[i]]}
             literal == n \in Tools /\ n \in DOMAIN e.rules
  <2>1. o \in Seq(Names) /\ DOMAIN e.rules = ToSet(o) /\ DOMAIN o = 1..Len(o)
    BY <1>1 DEF SoundEngine, Merged
  <2>2. d.rule = p /\ (p = NoPattern => d.action = e.default_action)
    BY DEF evaluate
  <2>3. IF literal THEN p = n ELSE BestOf(o, n, Len(o), p)
    <3> HIDE DEF o
    <3> QED
      BY <2>1, MatchFindsBest
  <2>4. globs = Hits(o, n, Len(o))
    BY <2>1 DEF Hits, Matches
  <2> HIDE DEF o, p, d, globs
  <2>5. IF literal THEN p = n
        ELSE IF globs = {} THEN p = NoPattern
        ELSE \E i \in globs : p = o[i] /\ \A j \in globs : Beats(o, i, j)
    BY <2>3, <2>4 DEF BestOf
  <2>6. CASE literal
    BY <2>2, <2>5, <2>6 DEF d
  <2>7. CASE ~literal /\ globs # {}
    <3>1. PICK i \in globs : p = o[i] /\ \A j \in globs : Beats(o, i, j)
      BY <2>5, <2>7
    <3>2. d.rule = o[i] /\ \A j \in globs : \/ Specificity[o[i]] > Specificity[o[j]]
                                            \/ Specificity[o[i]] = Specificity[o[j]] /\ i >= j
      BY <2>2, <3>1 DEF Beats
    <3> QED
      BY <2>7, <3>1, <3>2 DEF d, o, globs
  <2>8. CASE ~literal /\ globs = {}
    BY <2>2, <2>5, <2>8 DEF d, o, globs
  <2> QED
    BY <2>6, <2>7, <2>8
<1> QED
  BY <1>2

-----------------------------------------------------------------------------
(* Central mode.                                                              *)

LEMMA GatewayLoads ==
  ASSUME NEW doc, load_gateway_config(doc) # ConfigError
  PROVE  /\ load_gateway_config(doc) = doc
         /\ \A i \in DOMAIN doc.upstreams : \A j \in 1..(i - 1) :
              doc.upstreams[i].name # doc.upstreams[j].name
         /\ doc.backend = "redis" => doc.url # Unset
         /\ doc.identity # Broken
BY DEF load_gateway_config

\* What a service that starts is made of.
LEMMA ServiceStarts ==
  ASSUME NEW doc, _run_serve(doc) # ConfigError, NEW U, doc.upstreams \in Seq(U)
  PROVE  LET app == _run_serve(doc)
             ups == doc.upstreams
             resolver == IF doc.identity = Unset THEN Unset
                         ELSE load_identity_config(IdentityFiles[doc.identity])
         IN /\ DOMAIN app = {ups[i].name : i \in DOMAIN ups}
            /\ resolver # ConfigError /\ doc.identity # Broken
            /\ \A i, j \in DOMAIN ups : ups[i].name = ups[j].name => i = j
            /\ \A i \in DOMAIN ups : PolicyEngine(Policies(ups[i])) # PolicyError
            /\ \A i \in DOMAIN ups :
                 app[ups[i].name] = [engine |-> PolicyEngine(Policies(ups[i])),
                                     command |-> ups[i].command,
                                     store |-> _build_store(doc),
                                     resolver |-> resolver]
            /\ doc.backend = "redis" => doc.url # Unset
<1> DEFINE app == _run_serve(doc)
           ups == doc.upstreams
           resolver == IF doc.identity = Unset THEN Unset
                       ELSE load_identity_config(IdentityFiles[doc.identity])
           at(n) == CHOOSE i \in DOMAIN ups : ups[i].name = n
           E(i) == PolicyEngine(Policies(ups[i]))
           hub(n) == [engine |-> E(at(n)), command |-> ups[at(n)].command,
                      store |-> _build_store(doc), resolver |-> resolver]
           names == {ups[i].name : i \in DOMAIN ups}
<1>1. load_gateway_config(doc) # ConfigError
  BY DEF _run_serve
<1>2. /\ load_gateway_config(doc) = doc
      /\ \A i \in DOMAIN ups : \A j \in 1..(i - 1) : ups[i].name # ups[j].name
      /\ doc.backend = "redis" => doc.url # Unset
      /\ doc.identity # Broken
  BY <1>1, GatewayLoads
<1>3. app = build_central_app(doc) /\ app # ConfigError
  BY <1>1, <1>2 DEF _run_serve
<1>4. /\ resolver # ConfigError /\ \A i \in DOMAIN ups : E(i) # PolicyError
      /\ app = [n \in names |-> hub(n)]
  BY <1>3 DEF build_central_app, _bind_upstream
<1>5. \A i, j \in DOMAIN ups : ups[i].name = ups[j].name => i = j
  <2>1. DOMAIN ups = 1..Len(ups) /\ Len(ups) \in Nat
    OBVIOUS
  <2> SUFFICES ASSUME NEW i \in DOMAIN ups, NEW j \in DOMAIN ups, ups[i].name = ups[j].name, i # j
               PROVE  FALSE
    OBVIOUS
  <2>2. i \in Nat /\ j \in Nat /\ i >= 1 /\ j >= 1
    BY <2>1
  <2>3. j \in 1..(i - 1) \/ i \in 1..(j - 1)
    BY <2>2
  <2> QED
    BY <1>2, <2>3
<1> HIDE DEF app, ups, resolver, E
<1>6. \A i \in DOMAIN ups : at(ups[i].name) = i
  BY <1>5
<1> HIDE DEF at
<1>7. DOMAIN app = names
  BY <1>4
<1>8. \A i \in DOMAIN ups : app[ups[i].name] = hub(ups[i].name)
  BY <1>4
<1>9. \A i \in DOMAIN ups : app[ups[i].name] = [engine |-> E(i), command |-> ups[i].command,
                                                store |-> _build_store(doc), resolver |-> resolver]
  BY <1>6, <1>8
<1> QED
  BY <1>2, <1>4, <1>5, <1>7, <1>9 DEF app, ups, resolver, E

LEMMA NamedOnce ==
  ASSUME NEW U, NEW ups \in Seq(U), \A i, j \in DOMAIN ups : ups[i].name = ups[j].name => i = j
  PROVE  Cardinality({ups[i].name : i \in DOMAIN ups}) = Len(ups)
<1> DEFINE names == {ups[i].name : i \in DOMAIN ups}
           N == Len(ups)
           f == [i \in 1..N |-> ups[i].name]
<1>1. N \in Nat /\ DOMAIN ups = 1..N
  OBVIOUS
<1>2. f \in Bijection(1..N, names)
  <2>1. f \in [1..N -> names] /\ \A n \in names : \E i \in 1..N : f[i] = n
    BY <1>1
  <2>2. \A i, j \in 1..N : f[i] = f[j] => i = j
    BY <1>1
  <2> HIDE DEF f, names, N
  <2>3. f \in Surjection(1..N, names)
    BY <2>1 DEF Surjection
  <2>4. f \in Injection(1..N, names)
    BY <2>1, <2>2 DEF Injection, IsInjective
  <2> QED
    BY <2>3, <2>4 DEF Bijection
<1>3. ExistsBijection(1..N, names)
  <2> HIDE DEF f, names, N
  <2> QED
    BY <1>2 DEF ExistsBijection
<1> HIDE DEF names, N
<1>4. Cardinality(names) = N
  BY <1>1, <1>3, FS_CountingElements
<1> QED
  BY <1>4 DEF names, N

LEMMA EndpointsServed == InputOK => EndpointsServeTheirOwn
<1> SUFFICES ASSUME InputOK, Started PROVE EndpointsServeTheirOwn
  BY DEF EndpointsServeTheirOwn
<1> DEFINE doc == input.doc
           ups == doc.upstreams
           resolver == IF doc.identity = Unset THEN Unset
                       ELSE load_identity_config(IdentityFiles[doc.identity])
<1>1. ups \in Seq(Upstreams) /\ _run_serve(doc) # ConfigError
  BY DEF InputOK, Started, App
<1>2. App = _run_serve(doc)
  BY DEF App
<1> HIDE DEF doc
<1>3. /\ DOMAIN App = {ups[i].name : i \in DOMAIN ups}
      /\ \A i, j \in DOMAIN ups : ups[i].name = ups[j].name => i = j
      /\ \A i \in DOMAIN ups : PolicyEngine(Policies(ups[i])) # PolicyError
      /\ \A i \in DOMAIN ups :
           App[ups[i].name] = [engine |-> PolicyEngine(Policies(ups[i])), command |-> ups[i].command,
                               store |-> _build_store(doc), resolver |-> resolver]
      /\ doc.backend = "redis" => doc.url # Unset
  BY <1>1, <1>2, ServiceStarts
<1> HIDE DEF ups, resolver
<1>4. Cardinality(DOMAIN App) = Len(ups)
  BY <1>1, <1>3, NamedOnce
<1>5. ASSUME NEW i \in DOMAIN ups
      PROVE  LET hub == _hub(App, ups[i].name) IN
             /\ ups[i].name \in DOMAIN App
             /\ hub.command = ups[i].command
             /\ hub.engine # PolicyError /\ hub.engine = PolicyEngine(Policies(ups[i]))
             /\ hub.store = "shared" => doc.url # Unset
  <2> DEFINE hub == _hub(App, ups[i].name)
             h == App[ups[i].name]
  <2>1. ups[i].name \in DOMAIN App
    BY <1>3
  <2>2. hub = h
    BY <2>1 DEF _hub
  <2>3. /\ h.command = ups[i].command /\ h.engine = PolicyEngine(Policies(ups[i]))
        /\ h.store = _build_store(doc)
    <3>1. h = [engine |-> PolicyEngine(Policies(ups[i])), command |-> ups[i].command,
               store |-> _build_store(doc), resolver |-> resolver]
      BY <1>3
    <3> HIDE DEF h
    <3> QED
      BY <3>1
  <2>4. h.store = "shared" => doc.url # Unset
    BY <1>3, <2>3 DEF _build_store
  <2> HIDE DEF h, hub
  <2>5. h.engine # PolicyError
    BY <1>3, <2>3
  <2> QED
    BY <2>1, <2>2, <2>3, <2>4, <2>5 DEF hub
<1> QED
  BY <1>4, <1>5 DEF EndpointsServeTheirOwn, doc, ups

LEMMA LastIndex ==
  ASSUME NEW n \in Nat, NEW H \in SUBSET (1..n), H # {}
  PROVE  \E i \in H : \A j \in H : i >= j
<1> DEFINE T == {n - i : i \in H}
<1>0. \A i \in H : i \in 1..n /\ n - i \in Nat
  OBVIOUS
<1>1. T \subseteq Nat /\ T # {}
  BY <1>0
<1>2. IsWellFoundedOn(OpToRel(<, Nat), Nat)
  BY NatLessThanWellFounded
<1> HIDE DEF T
<1>3. PICK x \in T : \A y \in T : ~(<<y, x>> \in OpToRel(<, Nat))
  BY <1>1, <1>2, WFMin
<1>4. \A y \in T : ~(y < x)
  BY <1>1, <1>3 DEF OpToRel
<1>5. PICK i \in H : x = n - i
  BY <1>3 DEF T
<1>6. \A j \in H : ~(n - j < n - i)
  BY <1>4, <1>5 DEF T
<1>7. \A j \in H : i >= j
  BY <1>6
<1> QED
  BY <1>7

LEMMA KeysHeld ==
  ASSUME NEW keys, keys \in Seq(ToSet(keys)), \A i \in DOMAIN keys : keys[i].id # Unset, NEW c
  PROVE  KeyHolder(keys, c) # Unset <=> c \in {keys[i].digest : i \in DOMAIN keys}
<1> DEFINE hits == {i \in DOMAIN keys : keys[i].digest = c}
           last == CHOOSE i \in hits : \A j \in hits : i >= j
<1>1. Len(keys) \in Nat /\ DOMAIN keys = 1..Len(keys)
  BY SequenceIs
<1>2. KeyHolder(keys, c) = IF hits = {} THEN Unset ELSE keys[last].id
  BY DEF KeyHolder
<1>3. hits \subseteq 1..Len(keys)
  BY <1>1
<1>4. hits = {} <=> c \notin {keys[i].digest : i \in DOMAIN keys}
  OBVIOUS
<1>5. hits \subseteq DOMAIN keys
  OBVIOUS
<1> HIDE DEF hits
<1>6. hits # {} => last \in hits
  BY <1>1, <1>3, LastIndex
<1> QED
  BY <1>2, <1>4, <1>5, <1>6

LEMMA IdentityLoads ==
  ASSUME NEW doc, load_identity_config(doc) # ConfigError
  PROVE  /\ load_identity_config(doc) = [oidc |-> doc.oidc,
                                         api_keys |-> IF doc.api_keys = <<>> THEN Unset ELSE doc.api_keys]
         /\ ~(doc.oidc = Unset /\ doc.api_keys = <<>>)
         /\ doc.api_keys # <<>> =>
              \A i \in DOMAIN doc.api_keys : /\ doc.api_keys[i].id # Unset
                                             /\ doc.api_keys[i].digest \notin {Unset, Broken}
<1> DEFINE oidc == _build_oidc(doc)
           keys == _build_api_keys(doc.api_keys)
<1>1. /\ load_identity_config(doc) = [oidc |-> oidc, api_keys |-> keys]
      /\ ~(doc.oidc = Unset /\ doc.api_keys = <<>>)
      /\ oidc # ConfigError /\ keys # ConfigError
  BY DEF load_identity_config
<1>2. oidc = doc.oidc
  BY <1>1 DEF _build_oidc
<1>3. /\ keys = IF doc.api_keys = <<>> THEN Unset ELSE doc.api_keys
      /\ doc.api_keys # <<>> =>
           \A i \in DOMAIN doc.api_keys : /\ doc.api_keys[i].id # Unset
                                          /\ doc.api_keys[i].digest \notin {Unset, Broken}
  BY <1>1 DEF _build_api_keys
<1> HIDE DEF oidc, keys
<1> QED
  BY <1>1, <1>2, <1>3

LEMMA EndpointsGuarded == InputOK => IdentityGuardsEveryEndpoint
<1> SUFFICES ASSUME InputOK, Started, input.doc.identity # Unset PROVE IdentityGuardsEveryEndpoint
  BY DEF IdentityGuardsEveryEndpoint
<1> DEFINE gw == input.doc
           ups == gw.upstreams
           doc == IdentityFiles[gw.identity]
           resolver == IF gw.identity = Unset THEN Unset ELSE load_identity_config(doc)
           digests == {doc.api_keys[i].digest : i \in DOMAIN doc.api_keys}
           tokens == {t \in DOMAIN Bearers : doc.oidc # Unset /\ TakesToken(doc.oidc, Bearers[t])}
           good == (digests \cap Credentials) \cup tokens
           taken(n) == Taken(_hub(App, n))
<1>1. ups \in Seq(Upstreams) /\ _run_serve(gw) # ConfigError /\ gw.identity \in Identities
  BY DEF InputOK, Started, App
<1>2. App = _run_serve(gw)
  BY DEF App
<1>3. gw.identity # Unset
  OBVIOUS
<1> HIDE DEF gw
<1>4. /\ DOMAIN App = {ups[i].name : i \in DOMAIN ups}
      /\ resolver # ConfigError /\ gw.identity # Broken
      /\ \A i \in DOMAIN ups :
           App[ups[i].name] = [engine |-> PolicyEngine(Policies(ups[i])), command |-> ups[i].command,
                               store |-> _build_store(gw), resolver |-> resolver]
  BY <1>1, <1>2, ServiceStarts
<1>5. gw.identity \in DOMAIN IdentityFiles
  BY <1>1, <1>3, <1>4, IdentityAssumption
<1> DEFINE file == doc.api_keys
<1>6. /\ file \in Seq(ToSet(file)) /\ file # Unset
      /\ \A i \in DOMAIN file : file[i].digest \notin DOMAIN Bearers
      /\ \A oidc \in {Unset, doc.oidc}, k \in {Unset, file} : [oidc |-> oidc, api_keys |-> k] # Unset
  BY <1>5, IdentityAssumption
<1>7. resolver = load_identity_config(doc)
  BY <1>3
<1> HIDE DEF doc, resolver
<1>8. /\ resolver = [oidc |-> doc.oidc, api_keys |-> IF file = <<>> THEN Unset ELSE file]
      /\ ~(doc.oidc = Unset /\ file = <<>>)
      /\ file # <<>> => \A i \in DOMAIN file : file[i].id # Unset /\ file[i].digest \notin {Unset, Broken}
  BY <1>4, <1>7, IdentityLoads
<1> HIDE DEF file
<1>9. /\ resolver # Unset /\ resolver.oidc = doc.oidc
      /\ resolver.api_keys = IF file = <<>> THEN Unset ELSE file
  <2>1. \A oidc \in {Unset, doc.oidc} : \A k \in {Unset, file} : [oidc |-> oidc, api_keys |-> k] # Unset
    BY <1>6
  <2>2. [oidc |-> doc.oidc, api_keys |-> IF file = <<>> THEN Unset ELSE file] # Unset
    BY <2>1
  <2> QED
    BY <1>8, <2>2
<1>10. \A i \in DOMAIN file : /\ file # <<>> /\ file[i].id # Unset
                              /\ file[i].digest \notin {Unset} \cup DOMAIN Bearers
  <2>1. file = <<>> => DOMAIN file = {}
    OBVIOUS
  <2> QED
    BY <1>6, <1>8, <2>1
<1>11. digests = {file[i].digest : i \in DOMAIN file}
  BY DEF file
<1> HIDE DEF digests
<1>12. Unset \notin digests /\ (\A c \in digests : c \notin DOMAIN Bearers)
       /\ (file = <<>> => digests = {}) /\ (file # <<>> => digests # {})
  <2>1. file = <<>> => DOMAIN file = {}
    OBVIOUS
  <2>2. file # <<>> => DOMAIN file # {}
    <3>1. Len(file) \in Nat /\ DOMAIN file = 1..Len(file) /\ file = [i \in 1..Len(file) |-> file[i]]
      BY <1>6, SequenceIs
    <3>2. file # <<>> => Len(file) # 0
      <4>1. Len(file) = 0 => file = [i \in 1..0 |-> file[i]]
        BY <3>1
      <4>2. [i \in 1..0 |-> file[i]] = <<>>
        OBVIOUS
      <4> QED
        BY <4>1, <4>2
    <3>3. file # <<>> => 1 \in 1..Len(file)
      BY <3>1, <3>2
    <3> QED
      BY <3>1, <3>3
  <2> QED
    BY <1>10, <1>11, <2>1, <2>2
<1>13. ASSUME NEW n \in DOMAIN App PROVE Unset \notin taken(n) /\ taken(n) = good
  <2> DEFINE hub == _hub(App, n)
  <2>1. hub.resolver = resolver
    <3>1. PICK i \in DOMAIN ups : n = ups[i].name
      BY <1>4, <1>13
    <3>2. hub = App[n]
      BY <1>13 DEF _hub
    <3>3. App[n] = [engine |-> PolicyEngine(Policies(ups[i])), command |-> ups[i].command,
                    store |-> _build_store(gw), resolver |-> resolver]
      BY <1>4, <3>1
    <3> HIDE DEF hub
    <3>4. hub = [engine |-> PolicyEngine(Policies(ups[i])), command |-> ups[i].command,
                 store |-> _build_store(gw), resolver |-> resolver]
      BY <3>2, <3>3
    <3> QED
      BY <3>4
  <2> HIDE DEF hub
  <2>2. ASSUME NEW c
        PROVE  Admits(hub, c) <=> c \in tokens \/ c \in digests
    <3>1. file # <<>> => (KeyHolder(file, c) # Unset <=> c \in digests)
      <4>1. \A i \in DOMAIN file : file[i].id # Unset
        BY <1>10
      <4> QED
        BY <1>6, <1>11, <4>1, KeysHeld
    <3>2. Admits(hub, c) <=> \/ c \in tokens
                             \/ /\ c \notin {Unset} \cup DOMAIN Bearers /\ file # <<>>
                                /\ KeyHolder(file, c) # Unset
      <4>1. CASE file = <<>>
        BY <1>9, <2>1, <4>1 DEF Admits
      <4>2. CASE file # <<>>
        <5>1. resolver.api_keys = file /\ file # Unset
          BY <1>6, <1>9, <4>2
        <5> QED
          BY <1>9, <2>1, <4>2, <5>1 DEF Admits
      <4> QED
        BY <4>1, <4>2
    <3> QED
      BY <1>12, <3>1, <3>2
  <2>3. taken(n) = {c \in Credentials \cup {Unset} : c \in tokens \/ c \in digests}
    BY <2>2 DEF hub, Taken
  <2>4. tokens \subseteq Credentials /\ Unset \notin tokens
    BY IdentityAssumption
  <2> DEFINE t == taken(n)
  <2> HIDE DEF t
  <2> HIDE DEF tokens
  <2>5. \A c : c \in t <=> (c \in digests /\ c \in Credentials) \/ c \in tokens
    BY <1>12, <2>3, <2>4 DEF t
  <2>6. t = good
    BY <2>5
  <2>7. Unset \notin t
    BY <1>12, <2>4, <2>5
  <2> QED
    BY <2>6, <2>7 DEF t
<1>14. doc.oidc # Unset \/ digests # {}
  BY <1>8, <1>12
<1> QED
  BY <1>13, <1>14 DEF IdentityGuardsEveryEndpoint, digests, doc, gw

(* For any gateway and identity files and any number of upstreams: a service *)
(* that starts has exactly the endpoints of its file, each with the command  *)
(* and the policy of its own entry, and with an identity file, which names a *)
(* method, each endpoint takes exactly the credentials the file provides for *)
(* and never a request without one (central/config.py load_gateway_config,   *)
(* build_central_app, identity/config.py load_identity_config, resolver.py   *)
(* resolve).                                                                 *)
THEOREM CentralIsAsConfigured == Spec => []CentralServesAsConfigured
<1>1. Spec => []InputOK
  BY InputsAreTyped
<1>2. InputOK => CentralServesAsConfigured
  BY EndpointsServed, EndpointsGuarded DEF CentralServesAsConfigured
<1> QED
  BY <1>1, <1>2, PTL

-----------------------------------------------------------------------------
(* Tooling.                                                                   *)

LEMMA DeclaredRoles ==
  ASSUME NEW e, SoundEngine(e)
  PROVE  declared_roles(e) \subseteq Roles
<1> SUFFICES ASSUME NEW r \in declared_roles(e) PROVE r \in Roles
  OBVIOUS
<1>1. PICK p \in DOMAIN e.rules : r \in DOMAIN RolesIn(e.rules[p])
  BY DEF declared_roles
<1>2. SoundRule(e.rules[p])
  BY DEF SoundEngine, Merged
<1> QED
  BY <1>1, <1>2 DEF SoundRule

\* A role no rule has an overlay for is decided as any other such role.
LEMMA UndeclaredRoles ==
  ASSUME NEW e, SoundEngine(e), NEW name, NEW r, NEW s,
         r \notin declared_roles(e), s \notin declared_roles(e)
  PROVE  evaluate(e, name, r) = evaluate(e, name, s)
<1> DEFINE p == match(e.order, name)
           raw == e.rules[p]
<1>1. p = NoPattern \/ p \in DOMAIN e.rules
  BY MatchIsARule
<1>2. CASE p = NoPattern
  BY <1>2 DEF evaluate
<1>3. CASE p # NoPattern
  <2>1. DOMAIN RolesIn(raw) \subseteq declared_roles(e)
    BY <1>1, <1>3 DEF declared_roles
  <2>2. for_role(_compile(raw), r) = for_role(_compile(raw), s)
    <3> HIDE DEF raw
    <3>1. DOMAIN _compile(raw).overlays = DOMAIN RolesIn(raw)
      BY DEF _compile
    <3> QED
      BY <2>1, <3>1 DEF for_role
  <2> DEFINE eff(x) == for_role(_compile(e.rules[p]), x)
             d(x) == [action |-> eff(x).action, rule |-> p,
                      constraints |-> Get(eff(x), "constraints", {}),
                      then |-> Get(eff(x), "then", "allow")]
  <2>3. evaluate(e, name, r) = d(r) /\ evaluate(e, name, s) = d(s)
    BY <1>3 DEF evaluate
  <2>4. eff(r) = eff(s)
    BY <2>2
  <2> HIDE DEF eff, p
  <2>5. d(r) = d(s)
    BY <2>4
  <2> QED
    BY <2>3, <2>5 DEF p
<1> QED
  BY <1>2, <1>3

LEMMA SidesAreSound ==
  ASSUME InputOK, BothCompile
  PROVE  SoundEngine(BaseEngine) /\ SoundEngine(HeadEngine)
<1>1. SideOK(input.base) /\ SideOK(input.head)
  BY DEF InputOK, BothCompile
<1>2. ASSUME NEW side, SideOK(side), Exists(Compiled(side)) PROVE SoundEngine(Compiled(side))
  <2>1. side # Unset
    BY <1>2 DEF Exists, Compiled
  <2>2. Compiled(side) = PolicyEngine(side.layers) /\ Compiled(side) # PolicyError
    BY <1>2, <2>1 DEF Exists, Compiled
  <2>3. WellFormed(side.layers)
    BY <1>2, <2>1 DEF SideOK, LayersOK
  <2> QED
    BY <2>2, <2>3, EngineIsSound
<1> QED
  BY <1>1, <1>2 DEF BothCompile, BaseEngine, HeadEngine

\* What the diff of two engines that compile is.
LEMMA DiffIs ==
  ASSUME NEW base, NEW head, Exists(Compiled(base)), Exists(Compiled(head))
  PROVE  LET b == Compiled(base)
             h == Compiled(head)
             act(e, pr) == evaluate(e, pr[1], pr[2]).action
             pairs == Surface(base, head, b, h) \X ({NoRole} \cup declared_roles(b) \cup declared_roles(h))
             moved == {pr \in pairs : act(b, pr) # act(h, pr)}
             diff == diff_pack(base, head)
         IN /\ diff.state = IF moved = {} THEN "unchanged" ELSE "changed"
            /\ diff.examined = pairs
            /\ diff.changed = {Row(pr[1], pr[2], act(b, pr), act(h, pr)) : pr \in moved}
<1> DEFINE b == Compiled(base)
           h == Compiled(head)
           act(e, pr) == evaluate(e, pr[1], pr[2]).action
           roles == RoleViews(b, h)
           pairs == Surface(base, head, b, h) \X roles
           moved == {pr \in pairs : act(b, pr) # act(h, pr)}
           rows == {Row(pr[1], pr[2], act(b, pr), act(h, pr)) : pr \in moved}
<1>0. Exists(b) /\ Exists(h) /\ h # Unset
  BY DEF Exists
<1>1. diff_pack(base, head) = [state |-> IF moved = {} THEN "unchanged" ELSE "changed",
                               examined |-> pairs, changed |-> rows]
  BY <1>0 DEF diff_pack
<1>2. roles = {NoRole} \cup declared_roles(b) \cup declared_roles(h)
  BY DEF RoleViews, RolesOf
<1> DEFINE d == diff_pack(base, head)
<1> HIDE DEF d, rows, pairs
<1>3. d.state = (IF moved = {} THEN "unchanged" ELSE "changed") /\ d.examined = pairs /\ d.changed = rows
  BY <1>1 DEF d
<1> QED
  BY <1>2, <1>3 DEF d, rows, pairs

LEMMA Loosening ==
  ASSUME NEW was \in ACTION_VOCABULARY, NEW now \in ACTION_VOCABULARY,
         was \in effective_deny_set, now \notin effective_deny_set
  PROVE  classify(was, now) = "loosened"
<1>1. was \in {"block", "require_approval"}
  BY DEF effective_deny_set
<1>2. now \in {"allow", "redact", "rewrite", "quarantine"}
  BY DEF effective_deny_set, ACTION_VOCABULARY
<1>3. /\ STRENGTH["allow"] = 0 /\ STRENGTH["rewrite"] = 1 /\ STRENGTH["redact"] = 1
      /\ STRENGTH["quarantine"] = 2 /\ STRENGTH["require_approval"] = 3 /\ STRENGTH["block"] = 4
  BY DEF STRENGTH
<1>4. STRENGTH[now] < STRENGTH[was] /\ ~(STRENGTH[now] > STRENGTH[was])
  BY <1>1, <1>2, <1>3
<1>5. {was, now} \subseteq DOMAIN STRENGTH
  BY <1>1, <1>2 DEF STRENGTH
<1> QED
  BY <1>4, <1>5 DEF classify

LEMMA RowFields ==
  ASSUME NEW name, NEW role, NEW was, NEW now
  PROVE  LET c == Row(name, role, was, now) IN
         /\ c.tool = name /\ c.role = role /\ c.base = was /\ c.head = now
         /\ c.kind = classify(was, now)
         /\ c.crosses = (was \in effective_deny_set /\ now \notin effective_deny_set)
BY DEF Row

\* A glob is among the names shown, or matches one of them.
Shown(names, g) == g \in names \/ \E t \in names : t \in Covers[g]

LEMMA ShownNames ==
  ASSUME NEW names, NEW patterns, patterns \in Seq(ToSet(patterns))
  PROVE  /\ names \subseteq ShowAll(names, patterns)
         /\ \A g \in Globs \cap ToSet(patterns) : Shown(ShowAll(names, patterns), g)
<1> DEFINE N == Len(patterns)
<1>1. N \in Nat /\ DOMAIN patterns = 1..N
  BY SequenceIs
<1>2. PICK f : ShowAllRun(f, names, patterns)
  BY <1>1, ShowAllRuns
<1>3. /\ f[0] = names /\ ShowAll(names, patterns) = f[N]
      /\ \A n \in 1..N : f[n] = Show(f[n - 1], patterns[n])
  BY <1>2 DEF ShowAllRun
<1> DEFINE OK(n) == /\ names \subseteq f[n]
                    /\ \A i \in 1..n : patterns[i] \in Globs => Shown(f[n], patterns[i])
           S == {n \in 0..N : OK(n)}
<1>4. 0 \in S
  BY <1>1, <1>3
<1>5. ASSUME NEW n \in 1..N, n - 1 \in S PROVE n \in S
  <2> DEFINE x == f[n - 1]
             y == f[n]
             p == patterns[n]
  <2>1. y = IF p \in Globs /\ (\A t \in x : t \notin Covers[p]) THEN x \cup {p} ELSE x
    BY <1>3 DEF Show
  <2>2. names \subseteq x /\ \A i \in 1..n - 1 : patterns[i] \in Globs => Shown(x, patterns[i])
    BY <1>5
  <2> HIDE DEF x, y, p
  <2>3. x \subseteq y /\ (p \in Globs => Shown(y, p))
    BY <2>1 DEF Shown
  <2>4. \A g : Shown(x, g) => Shown(y, g)
    BY <2>3 DEF Shown
  <2>5. \A i \in 1..n : i \in 1..n - 1 \/ i = n
    BY <1>1
  <2>6. names \subseteq y /\ \A i \in 1..n : patterns[i] \in Globs => Shown(y, patterns[i])
    BY <2>2, <2>3, <2>4, <2>5 DEF p
  <2> QED
    BY <1>1, <2>6 DEF y
<1> HIDE DEF S, N
<1>6. \A n \in 0..N : n \in S
  BY <1>1, <1>4, <1>5, LoopInduction
<1>7. OK(N)
  BY <1>1, <1>6 DEF S
<1> QED
  BY <1>1, <1>3, <1>7 DEF ToSet

\* Every concrete name is on the surface, and every glob unless it matches there.
LEMMA SurfaceShows ==
  ASSUME NEW base, NEW head, NEW b, NEW h, SoundEngine(b), SoundEngine(h), Exists(b), Exists(h)
  PROVE  /\ Concrete(base, head, b, h) \subseteq Surface(base, head, b, h)
         /\ \A g \in Globs \cap (ToSet(b.order) \cup ToSet(h.order)) :
              Shown(Surface(base, head, b, h), g)
<1> DEFINE s == b.order
           t == h.order
           u == s \o t
           names == Concrete(base, head, b, h)
<1>1. s \in Seq(Names) /\ t \in Seq(Names)
  BY DEF SoundEngine, Merged
<1>2. Surface(base, head, b, h) = ShowAll(names, u)
  BY DEF Surface, _glob_only_patterns
<1> HIDE DEF s, t, names
<1>3. s \in Seq(ToSet(s)) /\ t \in Seq(ToSet(t))
  BY <1>1, InItself
<1>4. u \in Seq(ToSet(u)) /\ ToSet(u) = ToSet(s) \cup ToSet(t)
  BY <1>3, ConcatIs
<1> HIDE DEF u
<1>5. names \subseteq ShowAll(names, u) /\ \A g \in Globs \cap ToSet(u) : Shown(ShowAll(names, u), g)
  BY <1>4, ShownNames
<1> QED
  BY <1>2, <1>4, <1>5 DEF s, t, names

LEMMA DiffTellsTheTruth == InputOK => DiffIsExact
<1> SUFFICES ASSUME InputOK, BothCompile, NEW base, NEW head, NEW diff,
                    base = BaseEngine, head = HeadEngine, diff = Diff
             PROVE  TellsTheChange(base, head, diff)
  BY DEF DiffIsExact
<1> DEFINE before(n, r) == evaluate(base, n, r).action
           after(n, r) == evaluate(head, n, r).action
           declared == declared_roles(base) \cup declared_roles(head)
           surface == Surface(input.base, input.head, base, head)
           moved == {pr \in surface \X Views : before(pr[1], pr[2]) # after(pr[1], pr[2])}
           opened == {pr \in moved : /\ before(pr[1], pr[2]) \in effective_deny_set
                                     /\ after(pr[1], pr[2]) \notin effective_deny_set}
           view(r) == IF r \in declared THEN r ELSE NoRole
           roles == {NoRole} \cup declared_roles(base) \cup declared_roles(head)
           seen == {pr \in surface \X roles : before(pr[1], pr[2]) # after(pr[1], pr[2])}
           row(n, r) == Row(n, r, before(n, r), after(n, r))
           crosses(n, r) == before(n, r) \in effective_deny_set /\ after(n, r) \notin effective_deny_set
<1>1. SoundEngine(base) /\ SoundEngine(head)
  BY SidesAreSound
<1>2. /\ diff.state = IF seen = {} THEN "unchanged" ELSE "changed"
      /\ diff.changed = {Row(pr[1], pr[2], before(pr[1], pr[2]), after(pr[1], pr[2])) : pr \in seen}
  <2>1. Exists(Compiled(input.base)) /\ Exists(Compiled(input.head))
    BY DEF BothCompile, BaseEngine, HeadEngine
  <2> QED
    BY <2>1, DiffIs DEF Diff, BaseEngine, HeadEngine
<1>3. declared \subseteq Roles /\ NoRole \notin declared
  BY <1>1, DeclaredRoles, NamesAssumption
<1>4. \A n, r : /\ before(n, r) \in ACTION_VOCABULARY \cup {Unset}
                /\ after(n, r) \in ACTION_VOCABULARY \cup {Unset}
  BY <1>1, KnownDecision
<1>5. ASSUME NEW n, NEW r PROVE before(n, r) = before(n, view(r)) /\ after(n, r) = after(n, view(r))
  <2>1. CASE r \in declared
    BY <2>1
  <2>2. CASE r \notin declared
    <3>1. /\ r \notin declared_roles(base) /\ NoRole \notin declared_roles(base)
          /\ r \notin declared_roles(head) /\ NoRole \notin declared_roles(head)
      BY <1>3, <2>2
    <3>2. evaluate(base, n, r) = evaluate(base, n, NoRole) /\ evaluate(head, n, r) = evaluate(head, n, NoRole)
      BY <1>1, <3>1, UndeclaredRoles
    <3> QED
      BY <2>2, <3>2
  <2> QED
    BY <2>1, <2>2
<1>6. roles \subseteq Views /\ \A r : view(r) \in roles
  BY <1>3 DEF Views
<1>7. \A r \in roles : view(r) = r
  BY <1>3
<1> HIDE DEF declared, surface, before, after
<1>8. /\ \A n, r : <<n, r>> \in seen <=> n \in surface /\ r \in roles /\ before(n, r) # after(n, r)
      /\ \A n, r : <<n, r>> \in moved <=> n \in surface /\ r \in Views /\ before(n, r) # after(n, r)
      /\ \A pr \in seen : pr = <<pr[1], pr[2]>>
      /\ \A pr \in moved : pr = <<pr[1], pr[2]>>
  OBVIOUS
<1> HIDE DEF roles
<1>9. diff.changed = {row(pr[1], pr[2]) : pr \in seen}
  BY <1>2
<1>10. \A n, r : /\ row(n, r).tool = n /\ row(n, r).role = r
                 /\ row(n, r).base = before(n, r) /\ row(n, r).head = after(n, r)
                 /\ row(n, r).kind = classify(before(n, r), after(n, r))
                 /\ row(n, r).crosses = crosses(n, r)
  BY RowFields
<1>11. \A n, r : crosses(n, r) =>
                   /\ before(n, r) # after(n, r)
                   /\ classify(before(n, r), after(n, r)) = "loosened" \/ after(n, r) = Unset
  <2>1. effective_deny_set \subseteq ACTION_VOCABULARY
    BY DEF effective_deny_set, ACTION_VOCABULARY
  <2> QED
    BY <1>4, <2>1, Loosening
<1> HIDE DEF seen, moved, row
<1>12. /\ \A n, r : <<n, r>> \in seen => row(n, r) \in diff.changed
       /\ \A c \in diff.changed : <<c.tool, c.role>> \in seen /\ c = row(c.tool, c.role)
  <2>1. ASSUME NEW n, NEW r, <<n, r>> \in seen PROVE row(n, r) \in diff.changed
    <3>1. <<n, r>>[1] = n /\ <<n, r>>[2] = r
      OBVIOUS
    <3> QED
      BY <1>9, <2>1, <3>1
  <2>2. ASSUME NEW c \in diff.changed PROVE <<c.tool, c.role>> \in seen /\ c = row(c.tool, c.role)
    <3>1. PICK pr \in seen : c = row(pr[1], pr[2])
      BY <1>9
    <3>2. c.tool = pr[1] /\ c.role = pr[2] /\ pr = <<pr[1], pr[2]>>
      BY <1>8, <1>10, <3>1
    <3> QED
      BY <3>1, <3>2
  <2> QED
    BY <2>1, <2>2
<1> DEFINE rows(n, r) == {c \in diff.changed : c.tool = n /\ c.role = view(r)}
<1>13. ASSUME NEW n \in surface, NEW r \in Views
       PROVE  /\ (rows(n, r) # {}) = (<<n, r>> \in moved)
              /\ \A c \in rows(n, r) : /\ c.base = before(n, r) /\ c.head = after(n, r)
                                       /\ c.crosses => c.kind = "loosened" \/ c.head = Unset
  <2>1. ASSUME NEW c \in rows(n, r)
        PROVE  /\ <<n, r>> \in moved /\ c.base = before(n, r) /\ c.head = after(n, r)
               /\ c.crosses => c.kind = "loosened" \/ c.head = Unset
    <3>1. <<n, view(r)>> \in seen /\ c = row(n, view(r))
      BY <1>12
    <3> DEFINE v == view(r)
    <3>2. before(n, r) = before(n, v) /\ after(n, r) = after(n, v)
      BY <1>5
    <3> HIDE DEF v
    <3>3. <<n, v>> \in seen /\ c = row(n, v)
      BY <3>1 DEF v
    <3>4. <<n, r>> \in moved
      BY <1>8, <3>2, <3>3
    <3>5. /\ c.base = before(n, v) /\ c.head = after(n, v)
          /\ c.kind = classify(before(n, v), after(n, v)) /\ c.crosses = crosses(n, v)
      BY <1>10, <3>3
    <3>6. crosses(n, v) => classify(before(n, v), after(n, v)) = "loosened" \/ after(n, v) = Unset
      BY <1>11
    <3> HIDE DEF crosses
    <3> QED
      BY <3>2, <3>4, <3>5, <3>6
  <2>2. ASSUME <<n, r>> \in moved PROVE rows(n, r) # {}
    <3> DEFINE v == view(r)
    <3>1. before(n, r) = before(n, v) /\ after(n, r) = after(n, v) /\ v \in roles
      BY <1>5, <1>6
    <3>2. rows(n, r) = {c \in diff.changed : c.tool = n /\ c.role = v}
      OBVIOUS
    <3> HIDE DEF v
    <3>3. <<n, v>> \in seen
      BY <1>8, <2>2, <3>1
    <3>4. row(n, v) \in diff.changed /\ row(n, v).tool = n /\ row(n, v).role = v
      BY <1>10, <1>12, <3>3
    <3> HIDE DEF rows
    <3> QED
      BY <3>2, <3>4
  <2>3. (rows(n, r) # {}) <=> (<<n, r>> \in moved)
    <3> HIDE DEF rows
    <3> QED
      BY <2>1, <2>2
  <2> HIDE DEF rows
  <2> QED
    BY <2>1, <2>3
<1>14. Clean(diff) = (moved = {})
  <2>1. ASSUME NEW pr \in seen PROVE pr \in moved
    BY <1>6, <1>8
  <2>2. ASSUME NEW pr \in moved PROVE seen # {}
    <3> DEFINE n == pr[1]
               v == view(pr[2])
    <3>1. <<n, pr[2]>> \in moved
      BY <1>8
    <3>2. before(n, pr[2]) = before(n, v) /\ after(n, pr[2]) = after(n, v) /\ v \in roles
      BY <1>5, <1>6
    <3> HIDE DEF v, n
    <3>3. <<n, v>> \in seen
      BY <1>8, <3>1, <3>2
    <3> QED
      BY <3>3
  <2>3. seen = {} <=> moved = {}
    BY <2>1, <2>2
  <2>4. Clean(diff) <=> seen = {}
    BY <1>2 DEF Clean
  <2>5. Clean(diff) \in BOOLEAN
    BY DEF Clean
  <2> QED
    BY <2>3, <2>4, <2>5
<1>15. _run_policy_diff(diff, TRUE) = IF opened = {} THEN 0 ELSE 1
  <2>1. ASSUME NEW c \in diff.changed, c.crosses PROVE opened # {}
    <3> DEFINE n == c.tool
               r == c.role
    <3>1. <<n, r>> \in seen /\ c = row(n, r)
      BY <1>12
    <3> HIDE DEF n, r
    <3>2. crosses(n, r) /\ <<n, r>> \in moved
      BY <1>6, <1>8, <1>10, <2>1, <3>1
    <3>3. <<n, r>>[1] = n /\ <<n, r>>[2] = r
      OBVIOUS
    <3>4. <<n, r>> \in opened
      BY <3>2, <3>3
    <3> QED
      BY <3>4
  <2>2. ASSUME NEW pr \in opened PROVE \E c \in diff.changed : c.crosses
    <3> DEFINE n == pr[1]
               r == pr[2]
               v == view(r)
    <3>1. <<n, r>> \in moved /\ crosses(n, r)
      BY <1>8
    <3>2. before(n, r) = before(n, v) /\ after(n, r) = after(n, v) /\ v \in roles
      BY <1>5, <1>6
    <3> HIDE DEF v, n, r
    <3>3. <<n, v>> \in seen /\ crosses(n, v)
      BY <1>8, <3>1, <3>2
    <3>4. row(n, v) \in diff.changed /\ row(n, v).crosses
      BY <1>10, <1>12, <3>3
    <3> QED
      BY <3>4
  <2>3. (\E c \in diff.changed : c.crosses) <=> opened # {}
    <3> HIDE DEF opened
    <3> QED
      BY <2>1, <2>2
  <2> HIDE DEF opened
  <2>4. _run_policy_diff(diff, TRUE) = IF \E c \in diff.changed : c.crosses THEN 1 ELSE 0
    BY DEF _run_policy_diff
  <2> QED
    BY <2>3, <2>4
<1>16. /\ Concrete(input.base, input.head, base, head) \subseteq surface
       /\ \A g \in Globs \cap (ToSet(base.order) \cup ToSet(head.order)) :
            g \in surface \/ \E t \in surface : t \in Covers[g]
  <2>1. Exists(base) /\ Exists(head)
    BY DEF BothCompile
  <2> QED
    BY <1>1, <2>1, SurfaceShows DEF surface, Shown
<1> QED
  BY <1>13, <1>14, <1>15, <1>16 DEF TellsTheChange, before, after, declared, surface, moved

\* An event flips when its outcome does; one that was allowed also when its
\* recorded action is not the new one.
LEMMA EventFlips ==
  ASSUME NEW k, NEW e, NEW D, k.outcome \in {"allowed", "blocked"}
  PROVE  LET now == evaluate(e, k.tool, k.role).action IN
         ChangeKind(k, e, D) # "unchanged" <=>
           IF k.outcome = "blocked" THEN now \notin D
           ELSE now \in D \/ k.action \notin {Unset, now}
<1> DEFINE now == evaluate(e, k.tool, k.role).action
<1>1. ChangeKind(k, e, D) =
        IF (IF now \in D THEN "blocked" ELSE "allowed") # k.outcome
        THEN IF k.outcome = "allowed" THEN "newly_blocked" ELSE "newly_allowed"
        ELSE IF k.outcome = "allowed" /\ k.action \notin {Unset, now}
             THEN "action_changed" ELSE "unchanged"
  BY DEF ChangeKind, _outcome
<1> HIDE DEF now
<1>2. ChangeKind(k, e, D) # "unchanged" <=>
        IF k.outcome = "blocked" THEN now \notin D ELSE now \in D \/ k.action \notin {Unset, now}
  <2>1. CASE k.outcome = "blocked"
    BY <1>1, <2>1
  <2>2. CASE k.outcome = "allowed"
    BY <1>1, <2>2
  <2> QED
    BY <2>1, <2>2
<1> QED
  BY <1>2 DEF now

\* A call that a gateway let through flips when its decision changes, a denied
\* one when a caller without a role would no longer be denied.
LEMMA ReplayFlips ==
  ASSUME NEW b, NEW h, NEW n, NEW r
  PROVE  LET D == effective_deny_set
             was == evaluate(b, n, r).action
             now == evaluate(h, n, r).action
             flips == ChangeKind(Recorded(b, n, r, D), h, D) # "unchanged"
         IN /\ was \notin D \cup {Unset} => (flips <=> was # now)
            /\ was \in D => (flips <=> evaluate(h, n, NoRole).action \notin D)
<1> DEFINE D == effective_deny_set
           was == evaluate(b, n, r).action
           now == evaluate(h, n, r).action
           none == evaluate(h, n, NoRole).action
           k == Recorded(b, n, r, D)
           flips == ChangeKind(k, h, D) # "unchanged"
<1>1. was \notin D \cup {Unset} =>
        k.tool = n /\ k.role = r /\ k.outcome = "allowed" /\ k.action = was
  BY DEF Recorded
<1>2. was \in D => k.tool = n /\ k.role = NoRole /\ k.outcome = "blocked"
  BY DEF Recorded
<1> HIDE DEF k, D
<1>3. ASSUME was \notin D \cup {Unset} PROVE flips <=> was # now
  <2>1. k.tool = n /\ k.role = r /\ k.outcome = "allowed" /\ k.action = was
    BY <1>1, <1>3
  <2>2. flips <=> now \in D \/ k.action \notin {Unset, now}
    BY <2>1, EventFlips
  <2> QED
    BY <1>3, <2>1, <2>2
<1>4. ASSUME was \in D PROVE flips <=> none \notin D
  <2>1. k.tool = n /\ k.role = NoRole /\ k.outcome = "blocked"
    BY <1>2, <1>4
  <2> QED
    BY <2>1, EventFlips
<1> QED
  BY <1>3, <1>4 DEF k, D

LEMMA BacktestTellsTheSame == InputOK => BacktestAgreesWithDiff
<1> SUFFICES ASSUME InputOK, BothCompile, NEW base, NEW head, NEW diff, NEW flipped, NEW pr \in diff.examined,
                    base = BaseEngine, head = HeadEngine, diff = Diff, flipped = Flipped(base, head, diff)
             PROVE  LET was == evaluate(base, pr[1], pr[2]).action
                        now == evaluate(head, pr[1], pr[2]).action
                        flips == Replay(base, diff)[pr] \in flipped
                    IN /\ was \notin effective_deny_set \cup {Unset} => (flips <=> RowsOf(diff, pr) # {})
                       /\ was \in effective_deny_set /\ now = evaluate(head, pr[1], NoRole).action =>
                            (flips <=> \E c \in RowsOf(diff, pr) : c.crosses)
  BY DEF BacktestAgreesWithDiff
<1> DEFINE D == effective_deny_set
           was == evaluate(base, pr[1], pr[2]).action
           now == evaluate(head, pr[1], pr[2]).action
           none == evaluate(head, pr[1], NoRole).action
           key == Recorded(base, pr[1], pr[2], D)
           events == Replay(base, diff)
           act(e, x) == evaluate(e, x[1], x[2]).action
           seen == {x \in diff.examined : act(base, x) # act(head, x)}
           row(x) == Row(x[1], x[2], act(base, x), act(head, x))
<1>1. diff.changed = {row(x) : x \in seen} /\ \A x \in diff.examined : x = <<x[1], x[2]>>
  <2>1. Exists(Compiled(input.base)) /\ Exists(Compiled(input.head))
    BY DEF BothCompile, BaseEngine, HeadEngine
  <2> DEFINE pairs == Surface(input.base, input.head, base, head)
                        \X ({NoRole} \cup declared_roles(base) \cup declared_roles(head))
             moved == {x \in pairs : act(base, x) # act(head, x)}
  <2>2. diff.examined = pairs /\ diff.changed = {row(x) : x \in moved}
    BY <2>1, DiffIs DEF Diff, BaseEngine, HeadEngine
  <2>3. \A x \in pairs : x = <<x[1], x[2]>>
    OBVIOUS
  <2> HIDE DEF pairs
  <2> QED
    BY <2>2, <2>3
<1>2. pr \in diff.examined
  OBVIOUS
<1>3. events[pr] \in flipped <=> ChangeKind(key, head, D) # "unchanged"
  <2>1. DOMAIN events = diff.examined /\ events[pr] = key
    BY <1>2 DEF Replay
  <2>2. flipped = {k \in {BucketKey(events[i]) : i \in DOMAIN events} : ChangeKind(k, head, D) # "unchanged"}
    BY DEF Flipped, backtest_policy
  <2> HIDE DEF events, key, D
  <2>3. key \in {BucketKey(events[i]) : i \in DOMAIN events}
    BY <1>2, <2>1 DEF BucketKey
  <2> QED
    BY <2>1, <2>2, <2>3
<1>4. /\ was \notin D \cup {Unset} => (ChangeKind(key, head, D) # "unchanged" <=> was # now)
      /\ was \in D => (ChangeKind(key, head, D) # "unchanged" <=> none \notin D)
  BY ReplayFlips
<1>5. \A x : row(x).tool = x[1] /\ row(x).role = x[2]
             /\ row(x).crosses = (act(base, x) \in D /\ act(head, x) \notin D)
  BY RowFields
<1> DEFINE rows == RowsOf(diff, pr)
<1>6. rows = {c \in diff.changed : c.tool = pr[1] /\ c.role = pr[2]}
  BY DEF RowsOf
<1>7. was = act(base, pr) /\ now = act(head, pr)
  OBVIOUS
<1> HIDE DEF row, act, was, now, none, key, rows, events, D
<1>8. \A c \in rows : c = row(pr) /\ was # now
  <2> SUFFICES ASSUME NEW c \in rows PROVE c = row(pr) /\ was # now
    OBVIOUS
  <2>1. PICK x \in seen : c = row(x)
    BY <1>1, <1>6
  <2>2. x[1] = pr[1] /\ x[2] = pr[2]
    BY <1>5, <1>6, <2>1
  <2>3. x = pr
    BY <1>1, <1>2, <2>1, <2>2
  <2> QED
    BY <1>7, <2>1, <2>3
<1>9. was # now => row(pr) \in rows
  <2>1. was # now => pr \in seen
    BY <1>2, <1>7
  <2> QED
    BY <1>1, <1>5, <1>6, <2>1
<1>10. rows # {} <=> was # now
  BY <1>8, <1>9
<1>11. (\E c \in rows : c.crosses) <=> was # now /\ was \in D /\ now \notin D
  <2>1. row(pr).crosses <=> was \in D /\ now \notin D
    BY <1>5, <1>7
  <2> QED
    BY <1>8, <1>9, <2>1
<1>12. was \notin D \cup {Unset} => (events[pr] \in flipped <=> rows # {})
  BY <1>3, <1>4, <1>10
<1>13. was \in D /\ now = none => (events[pr] \in flipped <=> \E c \in rows : c.crosses)
  BY <1>3, <1>4, <1>11
<1> QED
  BY <1>12, <1>13 DEF was, now, none, rows, events, D

(* For any two revisions of a pack, any inventories and any roles: the diff  *)
(* has a row for a name of its surface and a caller's view exactly when that *)
(* caller's decision changes, ranks every denial that goes away for a known  *)
(* action as loosened, and calls the pack unchanged and lets                 *)
(* --fail-on-crossing pass exactly when it should for that surface, which    *)
(* has every concrete name and every glob unless it matches something there. *)
(* The replay of what a gateway recorded flips the calls that went through   *)
(* whose row there is, and the denied ones whose row crosses if the role     *)
(* makes no difference (diff.py diff_pack, backtest.py backtest_policy,      *)
(* gateway.py _handle_tool_call).                                            *)
THEOREM ToolsAreTruthful == Spec => []ToolsTellTheTruth
<1>1. Spec => []InputOK
  BY InputsAreTyped
<1>2. InputOK => ToolsTellTheTruth
  BY DiffTellsTheTruth, BacktestTellsTheSame DEF ToolsTellTheTruth
<1> QED
  BY <1>1, <1>2, PTL

\* A policy replayed against what it decided itself flips nothing.
LEMMA OwnReplayIsClean ==
  ASSUME NEW e, NEW tools, NEW roles, IsFiniteSet(tools), IsFiniteSet(roles)
  PROVE  LET result == backtest_policy(_write_synthetic_spool(e, tools, roles, effective_deny_set),
                                       e, effective_deny_set)
         IN /\ result.examined = Cardinality(tools) * Cardinality(roles)
            /\ result.changed = {}
<1> DEFINE D == effective_deny_set
           spool == _write_synthetic_spool(e, tools, roles, D)
           result == backtest_policy(spool, e, D)
<1>1. spool = [c \in tools \X roles |-> Synthetic(e, c[1], c[2], D)]
  BY DEF _write_synthetic_spool
<1> HIDE DEF spool
<1>2. /\ result.examined = Cardinality(DOMAIN spool)
      /\ result.changed = {k \in {BucketKey(spool[i]) : i \in DOMAIN spool} :
                             ChangeKind(k, e, D) # "unchanged"}
  BY DEF backtest_policy
<1>3. Cardinality(DOMAIN spool) = Cardinality(tools) * Cardinality(roles)
  BY <1>1, FS_Product
<1>4. \A c \in tools \X roles : ChangeKind(Synthetic(e, c[1], c[2], D), e, D) = "unchanged"
  <2> SUFFICES ASSUME NEW n, NEW r PROVE ChangeKind(Synthetic(e, n, r, D), e, D) = "unchanged"
    OBVIOUS
  <2> DEFINE k == Synthetic(e, n, r, D)
             a == evaluate(e, n, r).action
  <2>1. /\ k.tool = n /\ k.role = r
        /\ k.outcome = IF a \in D THEN "blocked" ELSE "allowed"
        /\ a \notin D => k.action = a
    BY DEF Synthetic, _outcome
  <2> HIDE DEF k, D
  <2>2. k.outcome \in {"allowed", "blocked"}
    BY <2>1
  <2>3. ChangeKind(k, e, D) # "unchanged" <=>
          IF k.outcome = "blocked" THEN a \notin D ELSE a \in D \/ k.action \notin {Unset, a}
    BY <2>1, <2>2, EventFlips
  <2> QED
    BY <2>1, <2>3 DEF k
<1>5. \A c \in DOMAIN spool : ChangeKind(BucketKey(spool[c]), e, D) = "unchanged"
  BY <1>1, <1>4 DEF BucketKey
<1> HIDE DEF result, D
<1>6. result.changed = {}
  BY <1>2, <1>5
<1> QED
  BY <1>2, <1>3, <1>6 DEF result, spool, D

LEMMA OutcomeOk == ASSUME NEW name, NEW ok PROVE Outcome(name, ok).ok = ok
BY DEF Outcome

\* A target is good when it loads, its goldens hold and its tools have rules.
GoodTarget(t) ==
  LET engine == PolicyEngine(t.layers) IN
  /\ ~t.error /\ engine # PolicyError
  /\ t.tests # Broken /\ (t.kind = "connector" => t.inventory # Broken)
  /\ t.kind = "connector" =>
       /\ t.tests # Unset
       /\ \A n \in t.inventory : evaluate(engine, n, NoRole).rule # NoPattern
  /\ t.tests # Unset =>
       /\ Cardinality(t.tests) >= MinGoldens
       /\ \A c \in t.tests : _run_case(engine, c)

AllOk(checks) == \A c \in checks : c.ok

LEMMA ChecksAreExact ==
  ASSUME NEW t \in CiTargets, NEW bt \in BOOLEAN
  PROVE  AllOk(check_target(t, MinGoldens, bt)) <=> GoodTarget(t)
<1> DEFINE engine == PolicyEngine(t.layers)
           goldens == _check_goldens(t, engine, MinGoldens)
           coverage == _check_coverage(t, engine)
           backtest == IF bt THEN _check_backtest(t, engine) ELSE {}
           held == Cardinality(t.tests) >= MinGoldens /\ \A c \in t.tests : _run_case(engine, c)
           ruled == \A n \in t.inventory : evaluate(engine, n, NoRole).rule # NoPattern
<1>1. /\ Broken # Unset /\ Broken # {}
      /\ t.kind \in {"connector", "policy"} /\ t.error \in BOOLEAN /\ WellFormed(t.layers)
      /\ t.inventory # Broken => IsFiniteSet(t.inventory)
      /\ t.tests \notin {Unset, Broken} => IsFiniteSet(t.tests)
  BY TargetsAssumption
<1> HIDE DEF engine
<1>2. CASE t.error \/ engine = PolicyError
  <2>1. check_target(t, MinGoldens, bt) = {Outcome("validate", FALSE)}
    BY <1>2 DEF check_target, engine
  <2>2. ~AllOk(check_target(t, MinGoldens, bt))
    BY <2>1, OutcomeOk DEF AllOk
  <2>3. ~GoodTarget(t)
    BY <1>2 DEF GoodTarget, engine
  <2> QED
    BY <2>2, <2>3
<1>3. CASE ~(t.error \/ engine = PolicyError)
  <2>1. check_target(t, MinGoldens, bt) = UNION {{Outcome("validate", TRUE)}, goldens, coverage, backtest}
    BY <1>3 DEF check_target, engine
  <2> HIDE DEF goldens, coverage, backtest
  <2>2. AllOk(check_target(t, MinGoldens, bt)) <=> AllOk(goldens) /\ AllOk(coverage) /\ AllOk(backtest)
    <3>1. \A c : c \in check_target(t, MinGoldens, bt) <=>
                   c = Outcome("validate", TRUE) \/ c \in goldens \/ c \in coverage \/ c \in backtest
      BY <2>1
    <3>2. Outcome("validate", TRUE).ok = TRUE
      BY OutcomeOk
    <3> QED
      BY <3>1, <3>2 DEF AllOk
  <2>3. AllOk(goldens) <=> IF t.tests = Unset THEN t.kind = "policy"
                           ELSE t.tests # Broken /\ held
    <3>1. CASE t.tests = Unset
      <4>1. goldens = {Outcome("goldens", t.kind = "policy")}
        BY <1>1, <3>1 DEF goldens, _check_goldens
      <4>2. Outcome("goldens", t.kind = "policy").ok = (t.kind = "policy")
        BY OutcomeOk
      <4> QED
        BY <3>1, <4>1, <4>2 DEF AllOk
    <3>2. CASE t.tests = Broken
      <4>1. goldens = {Outcome("goldens", FALSE)}
        BY <1>1, <3>2 DEF goldens, _check_goldens
      <4>2. Outcome("goldens", FALSE).ok = FALSE
        BY OutcomeOk
      <4> QED
        BY <1>1, <3>2, <4>1, <4>2 DEF AllOk
    <3>3. CASE t.tests \notin {Unset, Broken}
      <4>1. goldens = {Outcome("goldens", held)}
        BY <3>3 DEF goldens, _check_goldens
      <4>2. Outcome("goldens", held).ok = held
        BY OutcomeOk
      <4> HIDE DEF held
      <4> QED
        BY <3>3, <4>1, <4>2 DEF AllOk
    <3> QED
      BY <3>1, <3>2, <3>3
  <2>4. AllOk(coverage) <=> (t.kind = "connector" => t.inventory # Broken /\ ruled)
    <3>1. CASE t.kind = "policy"
      <4>1. coverage = {}
        BY <3>1 DEF coverage, _check_coverage
      <4> QED
        BY <3>1, <4>1 DEF AllOk
    <3>2. CASE t.kind = "connector" /\ t.inventory = Broken
      <4>1. coverage = {Outcome("coverage", FALSE)}
        BY <3>2 DEF coverage, _check_coverage
      <4>2. Outcome("coverage", FALSE).ok = FALSE
        BY OutcomeOk
      <4> QED
        BY <3>2, <4>1, <4>2 DEF AllOk
    <3>3. CASE t.kind = "connector" /\ t.inventory # Broken
      <4>1. coverage = {Outcome("coverage", ruled)}
        BY <3>3 DEF coverage, _check_coverage
      <4>2. Outcome("coverage", ruled).ok = ruled
        BY OutcomeOk
      <4> HIDE DEF ruled
      <4> QED
        BY <3>3, <4>1, <4>2 DEF AllOk
    <3> QED
      BY <1>1, <3>1, <3>2, <3>3
  <2>5. ASSUME AllOk(goldens), AllOk(coverage) PROVE AllOk(backtest)
    <3> DEFINE fromTests == IF t.tests = Unset THEN {} ELSE {c.tool : c \in t.tests}
               listed == IF t.kind = "connector" THEN t.inventory ELSE {}
               tools == IF listed = {} THEN fromTests ELSE listed
               roles == {NoRole} \cup declared_roles(engine)
               D == effective_deny_set
               result == backtest_policy(_write_synthetic_spool(engine, tools, roles, D), engine, D)
               clean == tools # {} => /\ result.examined = Cardinality(tools) * Cardinality(roles)
                                      /\ result.changed = {}
    <3>1. t.tests # Broken /\ listed # Broken
      BY <1>1, <2>3, <2>4, <2>5
    <3>2. IsFiniteSet(fromTests)
      <4>1. CASE t.tests = Unset
        BY <4>1, FS_EmptySet
      <4>2. CASE t.tests # Unset
        <5>1. IsFiniteSet(t.tests)
          BY <1>1, <3>1, <4>2
        <5> DEFINE tests == t.tests
                   f == [c \in tests |-> c.tool]
        <5>2. IsFiniteSet({f[c] : c \in tests})
          <6> HIDE DEF f
          <6>1. IsFiniteSet(tests)
            BY <5>1
          <6> HIDE DEF tests
          <6>2. DOMAIN f = tests /\ f = [c \in tests |-> f[c]]
            BY DEF f
          <6>3. f \in Surjection(tests, {f[c] : c \in tests})
            BY <6>2 DEF Surjection
          <6> QED
            BY <6>1, <6>3, FS_Surjection
        <5>3. {f[c] : c \in tests} = {c.tool : c \in t.tests}
          OBVIOUS
        <5> QED
          BY <4>2, <5>2, <5>3
      <4> QED
        BY <4>1, <4>2
    <3>3. IsFiniteSet(listed)
      BY <1>1, <3>1, FS_EmptySet
    <3>4. IsFiniteSet(tools)
      BY <3>2, <3>3
    <3>5. IsFiniteSet(roles)
      <4>1. SoundEngine(engine)
        BY <1>1, <1>3, EngineIsSound DEF engine
      <4>2. roles \subseteq Roles \cup {NoRole}
        BY <4>1, DeclaredRoles
      <4>3. IsFiniteSet(Roles \cup {NoRole})
        BY NamesAssumption, FS_AddElement
      <4> QED
        BY <4>2, <4>3, FS_Subset
    <3>6. clean = TRUE
      <4> HIDE DEF tools, roles
      <4> QED
        BY <3>4, <3>5, OwnReplayIsClean
    <3>7. _check_backtest(t, engine) = {Outcome("backtest", clean)}
      BY <3>1 DEF _check_backtest
    <3>8. Outcome("backtest", clean).ok = clean
      BY OutcomeOk
    <3> HIDE DEF clean
    <3> QED
      BY <3>6, <3>7, <3>8 DEF AllOk, backtest
  <2>6. AllOk(check_target(t, MinGoldens, bt)) <=> AllOk(goldens) /\ AllOk(coverage)
    BY <2>2, <2>5
  <2>7. GoodTarget(t) <=>
          /\ t.tests # Broken /\ (t.kind = "connector" => t.inventory # Broken)
          /\ t.kind = "connector" => t.tests # Unset /\ ruled
          /\ t.tests # Unset => held
    BY <1>3 DEF GoodTarget, engine
  <2> HIDE DEF held, ruled
  <2>8. t.kind = "connector" <=> t.kind # "policy"
    BY <1>1
  <2> QED
    BY <1>1, <2>3, <2>4, <2>6, <2>7, <2>8
<1> QED
  BY <1>2, <1>3

LEMMA GateIsExact == InputOK => CiGateIsExact
<1> SUFFICES ASSUME InputOK, input.kind = "ci" PROVE CiGateIsExact
  BY DEF CiGateIsExact
<1> DEFINE t == input.target
           only == input.only
           targets == [n \in {"pack"} |-> t]
           chosen == IF only = {} THEN {"pack"} ELSE {"pack"} \cap only
           missing == only \ {"pack"}
           checks == check_target(t, MinGoldens, input.backtest)
           all == run_policy_ci(targets, only, MinGoldens, input.backtest)
           wanted == only = {} \/ "pack" \in only
<1>1. t \in CiTargets /\ input.backtest \in BOOLEAN
  BY DEF InputOK
<1>2. AllOk(checks) <=> GoodTarget(t)
  BY <1>1, ChecksAreExact
<1>3. all = (UNION {check_target(targets[n], MinGoldens, input.backtest) : n \in chosen})
              \cup {Outcome("validate", FALSE) : n \in missing}
  BY DEF run_policy_ci
<1> HIDE DEF all
<1>4. \A c : c \in all <=> \/ "pack" \in chosen /\ c \in checks
                           \/ missing # {} /\ c = Outcome("validate", FALSE)
  <2>1. \A n \in chosen : n = "pack" /\ targets[n] = t
    OBVIOUS
  <2> HIDE DEF chosen, targets, missing
  <2> DEFINE U == UNION {check_target(targets[n], MinGoldens, input.backtest) : n \in chosen}
             M == {Outcome("validate", FALSE) : n \in missing}
  <2>2. \A c : c \in UNION {check_target(targets[n], MinGoldens, input.backtest) : n \in chosen}
                 <=> "pack" \in chosen /\ c \in checks
    BY <2>1
  <2>3. \A c : c \in {Outcome("validate", FALSE) : n \in missing} <=>
                 missing # {} /\ c = Outcome("validate", FALSE)
    OBVIOUS
  <2>4. all = U \cup M
    BY <1>3
  <2>5. \A c : (c \in U <=> "pack" \in chosen /\ c \in checks)
               /\ (c \in M <=> missing # {} /\ c = Outcome("validate", FALSE))
    BY <2>2, <2>3
  <2> HIDE DEF checks, U, M
  <2> QED
    BY <2>4, <2>5
<1>5. "pack" \in chosen <=> wanted
  OBVIOUS
<1>6. missing # {} <=> ~(only \subseteq {"pack"})
  OBVIOUS
<1>7. Outcome("validate", FALSE).ok = FALSE
  BY OutcomeOk
<1> HIDE DEF checks, chosen, missing
<1>8. AllOk(all) <=> only \subseteq {"pack"} /\ (wanted => AllOk(checks))
  BY <1>4, <1>5, <1>6, <1>7 DEF AllOk
<1>9. _run_policy_ci(targets, only, MinGoldens, input.backtest) = IF AllOk(all) THEN 0 ELSE 1
  BY DEF _run_policy_ci, all, AllOk
<1> DEFINE code == _run_policy_ci(targets, only, MinGoldens, input.backtest)
<1> HIDE DEF code
<1>10. (code = 0) = (only \subseteq {"pack"} /\ (wanted => GoodTarget(t)))
  BY <1>2, <1>8, <1>9 DEF code
<1> QED
  BY <1>10 DEF CiGateIsExact, GoodTarget, code

(* For any targets, goldens, inventories and any choice of names: `policy    *)
(* ci` exits 0 exactly when every name asked for exists and every target     *)
(* asked for is sound.  The replay of a policy against its own decisions     *)
(* never fails a sound target, and an error that no check catches never      *)
(* passes one (ci.py check_target, run_policy_ci, cli _run_policy_ci).       *)
THEOREM CiGateExact == Spec => []CiGateIsExact
<1>1. Spec => []InputOK
  BY InputsAreTyped
<1>2. InputOK => CiGateIsExact
  BY GateIsExact
<1> QED
  BY <1>1, <1>2, PTL

-----------------------------------------------------------------------------
(* Layers: what each merge does to each rule and setting.                     *)

\* The rule a pattern gets when a layer states one for it.
Placed(m, p, rule) ==
  LET incoming == Without(rule, {"replace"}) IN
  IF p \notin DOMAIN m.rules \/ Get(rule, "replace", FALSE) THEN incoming
  ELSE FieldMerge(m.rules[p], incoming)

LEMMA MergeRuleEffect ==
  ASSUME NEW m, DOMAIN NoRules \subseteq DOMAIN m, NEW e
  PROVE  LET out == MergeRule(m, e)
             p == e.pattern
         IN /\ DOMAIN out = DOMAIN m
            /\ \A x \in DOMAIN m \ {"rules", "order"} : out[x] = m[x]
            /\ DOMAIN out.rules = DOMAIN m.rules \cup {p}
            /\ out.rules[p] = Placed(m, p, e.rule)
            /\ \A q \in DOMAIN m.rules \ {p} : out.rules[q] = m.rules[q]
<1> DEFINE p == e.pattern
           new == Without(e.rule, {"replace"})
           out == MergeRule(m, e)
<1>1. {"rules", "order"} \subseteq DOMAIN m
  BY DEF NoRules
<1> HIDE DEF new, p
<1>2. CASE p \notin DOMAIN m.rules
  <2> DEFINE rules == Over(Only(p, new), m.rules)
  <2>1. out = [m EXCEPT !.rules = rules, !.order = Append(@, p)]
    BY <1>2 DEF MergeRule, new, p
  <2>2. /\ DOMAIN rules = DOMAIN m.rules \cup {p} /\ rules[p] = new
        /\ \A q \in DOMAIN m.rules : rules[q] = m.rules[q]
    BY <1>2 DEF Over, Only, Has
  <2>3. Placed(m, p, e.rule) = new
    BY <1>2 DEF Placed, new
  <2> HIDE DEF rules
  <2>4. /\ out.rules = rules /\ DOMAIN out = DOMAIN m
        /\ \A x \in DOMAIN m \ {"rules", "order"} : out[x] = m[x]
    BY <1>1, <2>1
  <2> HIDE DEF out
  <2> QED
    BY <2>2, <2>3, <2>4 DEF out, p
<1>3. CASE p \in DOMAIN m.rules
  <2> DEFINE rule == IF Get(e.rule, "replace", FALSE) THEN new ELSE FieldMerge(m.rules[p], new)
  <2>1. out = [m EXCEPT !.rules[p] = rule]
    BY <1>3 DEF MergeRule, new, p
  <2>2. Placed(m, p, e.rule) = rule
    BY <1>3 DEF Placed, new
  <2> HIDE DEF rule
  <2>3. /\ out.rules = [m.rules EXCEPT ![p] = rule] /\ DOMAIN out = DOMAIN m
        /\ \A x \in DOMAIN m \ {"rules", "order"} : out[x] = m[x]
    BY <1>1, <2>1
  <2> HIDE DEF out
  <2>4. /\ DOMAIN out.rules = DOMAIN m.rules \cup {p} /\ out.rules[p] = rule
        /\ \A q \in DOMAIN m.rules \ {p} : out.rules[q] = m.rules[q]
    BY <1>3, <2>3
  <2> QED
    BY <2>2, <2>3, <2>4 DEF out, p
<1> QED
  BY <1>2, <1>3

\* What the first n rules of a layer have made of m.
RulesPlaced(m, out, tools, n) ==
  /\ DOMAIN out = DOMAIN m
  /\ \A x \in DOMAIN m \ {"rules", "order"} : out[x] = m[x]
  /\ DOMAIN out.rules = DOMAIN m.rules \cup {tools[j].pattern : j \in 1..n}
  /\ \A j \in 1..n : out.rules[tools[j].pattern] = Placed(m, tools[j].pattern, tools[j].rule)
  /\ \A q \in DOMAIN m.rules : (\A j \in 1..n : q # tools[j].pattern) => out.rules[q] = m.rules[q]

LEMMA RulesPlacedNext ==
  ASSUME NEW m, DOMAIN NoRules \subseteq DOMAIN m, NEW tools, NEW n \in Nat \ {0}, NEW mid,
         \A j \in 1..n - 1 : tools[j].pattern # tools[n].pattern,
         RulesPlaced(m, mid, tools, n - 1)
  PROVE  RulesPlaced(m, MergeRule(mid, tools[n]), tools, n)
<1> DEFINE out == MergeRule(mid, tools[n])
           p == tools[n].pattern
<1>1. /\ DOMAIN mid = DOMAIN m
      /\ \A x \in DOMAIN m \ {"rules", "order"} : mid[x] = m[x]
      /\ DOMAIN mid.rules = DOMAIN m.rules \cup {tools[j].pattern : j \in 1..n - 1}
      /\ \A j \in 1..n - 1 : mid.rules[tools[j].pattern] = Placed(m, tools[j].pattern, tools[j].rule)
      /\ \A q \in DOMAIN m.rules : (\A j \in 1..n - 1 : q # tools[j].pattern) => mid.rules[q] = m.rules[q]
  BY DEF RulesPlaced
<1>2. /\ DOMAIN out = DOMAIN mid
      /\ \A x \in DOMAIN mid \ {"rules", "order"} : out[x] = mid[x]
      /\ DOMAIN out.rules = DOMAIN mid.rules \cup {p}
      /\ out.rules[p] = Placed(mid, p, tools[n].rule)
      /\ \A q \in DOMAIN mid.rules \ {p} : out.rules[q] = mid.rules[q]
  BY <1>1, MergeRuleEffect
<1>3. \A j : j \in 1..n <=> j = n \/ j \in 1..n - 1
  OBVIOUS
<1>4. p \in DOMAIN mid.rules <=> p \in DOMAIN m.rules
  BY <1>1
<1>5. p \in DOMAIN m.rules => mid.rules[p] = m.rules[p]
  BY <1>1
<1>6. Placed(mid, p, tools[n].rule) = Placed(m, p, tools[n].rule)
  BY <1>4, <1>5 DEF Placed
<1> HIDE DEF out
<1>7. DOMAIN out.rules = DOMAIN m.rules \cup {tools[j].pattern : j \in 1..n}
  BY <1>1, <1>2, <1>3
<1>8. \A j \in 1..n : out.rules[tools[j].pattern] = Placed(m, tools[j].pattern, tools[j].rule)
  <2> SUFFICES ASSUME NEW j \in 1..n
               PROVE  out.rules[tools[j].pattern] = Placed(m, tools[j].pattern, tools[j].rule)
    OBVIOUS
  <2>1. CASE j = n
    BY <1>2, <1>6, <2>1
  <2>2. CASE j \in 1..n - 1
    <3>1. tools[j].pattern \in DOMAIN mid.rules \ {p}
      BY <1>1, <2>2
    <3> QED
      BY <1>1, <1>2, <2>2, <3>1
  <2> QED
    BY <1>3, <2>1, <2>2
<1>9. \A q \in DOMAIN m.rules : (\A j \in 1..n : q # tools[j].pattern) => out.rules[q] = m.rules[q]
  BY <1>1, <1>2, <1>3
<1>10. DOMAIN out = DOMAIN m /\ \A x \in DOMAIN m \ {"rules", "order"} : out[x] = m[x]
  BY <1>1, <1>2
<1>11. RulesPlaced(m, out, tools, n)
  BY <1>7, <1>8, <1>9, <1>10 DEF RulesPlaced
<1> QED
  BY <1>11 DEF out

LEMMA MergeRulesEffect ==
  ASSUME NEW m, DOMAIN NoRules \subseteq DOMAIN m, NEW tools, tools \in Seq(ToSet(tools)),
         \A j, k \in DOMAIN tools : tools[j].pattern = tools[k].pattern => j = k
  PROVE  RulesPlaced(m, MergeRules(m, tools), tools, Len(tools))
<1> DEFINE N == Len(tools)
<1>1. N \in Nat /\ DOMAIN tools = 1..N
  BY SequenceIs
<1>2. PICK f : /\ f[0] = m
               /\ \A n \in 1..N : f[n] = MergeRule(f[n - 1], tools[n])
               /\ MergeRules(m, tools) = f[N]
  <2>1. Len(tools) \in Nat
    BY <1>1
  <2>2. PICK f : MergeRulesRun(f, m, tools)
    BY <2>1, MergeRulesRuns
  <2> QED
    BY <2>2 DEF MergeRulesRun
<1> DEFINE S == {n \in 0..N : RulesPlaced(m, f[n], tools, n)}
<1>3. 0 \in S
  <2>1. RulesPlaced(m, m, tools, 0)
    BY DEF RulesPlaced
  <2> QED
    BY <1>1, <1>2, <2>1
<1>4. ASSUME NEW n \in 1..N, n - 1 \in S PROVE n \in S
  <2>1. RulesPlaced(m, f[n - 1], tools, n - 1) /\ n \in Nat \ {0}
    BY <1>1, <1>4
  <2>2. \A j \in 1..n - 1 : tools[j].pattern # tools[n].pattern
    <3>1. \A j \in 1..n - 1 : j \in DOMAIN tools /\ n \in DOMAIN tools /\ j # n
      BY <1>1
    <3> QED
      BY <3>1
  <2>3. RulesPlaced(m, MergeRule(f[n - 1], tools[n]), tools, n)
    BY <2>1, <2>2, RulesPlacedNext
  <2> QED
    BY <1>1, <1>2, <2>3
<1> HIDE DEF S, N
<1>5. \A n \in 0..N : n \in S
  BY <1>1, <1>3, <1>4, LoopInduction
<1>6. N \in S
  BY <1>1, <1>5
<1> QED
  BY <1>2, <1>6 DEF S, N

LEMMA MergeLayerEffect ==
  ASSUME NEW m, DOMAIN NoRules \subseteq DOMAIN m, NEW layer, layer.tools \in Seq(ToSet(layer.tools)),
         \A j, k \in DOMAIN layer.tools : layer.tools[j].pattern = layer.tools[k].pattern => j = k
  PROVE  LET out == MergeLayer(m, layer)
             tools == layer.tools
         IN /\ DOMAIN out = DOMAIN m
            /\ DOMAIN out.rules = DOMAIN m.rules \cup {tools[j].pattern : j \in DOMAIN tools}
            /\ \A j \in DOMAIN tools : out.rules[tools[j].pattern] = Placed(m, tools[j].pattern, tools[j].rule)
            /\ \A q \in DOMAIN m.rules : (\A j \in DOMAIN tools : q # tools[j].pattern) => out.rules[q] = m.rules[q]
            /\ out.taint_sources = m.taint_sources \cup _validate_str_list(layer.taint_sources)
            /\ out.taint_sinks = m.taint_sinks \cup _validate_str_list(layer.taint_sinks)
            /\ out.sequence_rules = IF layer.sequence_rules = Unset THEN m.sequence_rules
                                    ELSE m.sequence_rules \o layer.sequence_rules
            /\ out.risk = MergeRisk(m.risk, layer.risk)
            /\ out.on_failure = IF layer.on_failure = Unset THEN m.on_failure ELSE layer.on_failure
<1> DEFINE tools == layer.tools
           flow == MergeFlow(m, layer)
           risk == MergeRisk(flow.risk, layer.risk)
           set == [flow EXCEPT
                     !.default_action = IF layer.default_action = Unset THEN @ ELSE layer.default_action,
                     !.risk = MergeRisk(@, layer.risk),
                     !.on_failure = IF layer.on_failure = Unset THEN @ ELSE layer.on_failure]
           out == MergeLayer(m, layer)
<1>1. out = MergeRules(set, tools)
  BY DEF MergeLayer
<1>2. {"order", "rules", "default_action", "taint_sources", "taint_sinks", "sequence_rules", "risk",
       "on_failure"} \subseteq DOMAIN m
  BY DEF NoRules
<1>3. /\ DOMAIN flow = DOMAIN m
      /\ flow.taint_sources = m.taint_sources \cup _validate_str_list(layer.taint_sources)
      /\ flow.taint_sinks = m.taint_sinks \cup _validate_str_list(layer.taint_sinks)
      /\ flow.sequence_rules = IF layer.sequence_rules = Unset THEN m.sequence_rules
                               ELSE m.sequence_rules \o layer.sequence_rules
      /\ flow.rules = m.rules /\ flow.risk = m.risk /\ flow.on_failure = m.on_failure
  BY <1>2 DEF MergeFlow
<1> HIDE DEF flow
<1>4. /\ DOMAIN set = DOMAIN flow
      /\ set.taint_sources = flow.taint_sources /\ set.taint_sinks = flow.taint_sinks
      /\ set.sequence_rules = flow.sequence_rules /\ set.rules = flow.rules
      /\ set.risk = MergeRisk(flow.risk, layer.risk)
      /\ set.on_failure = IF layer.on_failure = Unset THEN flow.on_failure ELSE layer.on_failure
  BY <1>2, <1>3
<1> HIDE DEF set
<1>5. DOMAIN set = DOMAIN m /\ set.rules = m.rules
  BY <1>3, <1>4
<1>6. RulesPlaced(set, out, tools, Len(tools))
  BY <1>1, <1>5, MergeRulesEffect
<1> HIDE DEF out
<1>7. DOMAIN tools = 1..Len(tools)
  BY SequenceIs
<1>8. \A p, rule : Placed(set, p, rule) = Placed(m, p, rule)
  BY <1>5 DEF Placed
<1>9. /\ DOMAIN out = DOMAIN m
      /\ DOMAIN out.rules = DOMAIN m.rules \cup {tools[j].pattern : j \in DOMAIN tools}
      /\ \A j \in DOMAIN tools : out.rules[tools[j].pattern] = Placed(m, tools[j].pattern, tools[j].rule)
      /\ \A q \in DOMAIN m.rules : (\A j \in DOMAIN tools : q # tools[j].pattern) => out.rules[q] = m.rules[q]
  <2> HIDE DEF tools
  <2> QED
    BY <1>5, <1>6, <1>7, <1>8 DEF RulesPlaced
<1>10. \A x \in DOMAIN m \ {"rules", "order"} : out[x] = set[x]
  BY <1>5, <1>6 DEF RulesPlaced
<1>11. /\ out.taint_sources = set.taint_sources /\ out.taint_sinks = set.taint_sinks
       /\ out.sequence_rules = set.sequence_rules /\ out.risk = set.risk /\ out.on_failure = set.on_failure
  BY <1>2, <1>10
<1>12. /\ out.taint_sources = m.taint_sources \cup _validate_str_list(layer.taint_sources)
       /\ out.taint_sinks = m.taint_sinks \cup _validate_str_list(layer.taint_sinks)
  BY <1>3, <1>4, <1>11
<1>13. /\ out.sequence_rules = IF layer.sequence_rules = Unset THEN m.sequence_rules
                               ELSE m.sequence_rules \o layer.sequence_rules
       /\ out.risk = MergeRisk(m.risk, layer.risk)
       /\ out.on_failure = IF layer.on_failure = Unset THEN m.on_failure ELSE layer.on_failure
  BY <1>3, <1>4, <1>11
<1> QED
  BY <1>9, <1>12, <1>13 DEF out

LEMMA TopOf ==
  ASSUME NEW n \in Nat, NEW H \in SUBSET (1..n), n \in H
  PROVE  Max(H) = n
<1>1. \A y \in H : y \in Nat /\ n >= y
  OBVIOUS
<1> DEFINE x == Max(H)
<1>2. x \in H /\ \A y \in H : x >= y
  BY <1>1 DEF Max
<1> HIDE DEF x
<1>3. x \in Nat /\ n >= x /\ x >= n
  BY <1>1, <1>2
<1>4. x = n
  BY <1>3
<1> QED
  BY <1>4 DEF x

LEMMA MaxIn ==
  ASSUME NEW n \in Nat, NEW H \in SUBSET (1..n), H # {}
  PROVE  Max(H) \in H /\ \A y \in H : Max(H) >= y
<1>1. \E i \in H : \A j \in H : i >= j
  BY LastIndex
<1> QED
  BY <1>1 DEF Max

Weights(risk) == Get(risk, "weights", <<>>)

LEMMA MergeRiskWeights ==
  ASSUME NEW old, NEW new, new # Unset
  PROVE  /\ DOMAIN Weights(MergeRisk(old, new)) = DOMAIN Weights(new) \cup DOMAIN Weights(old)
         /\ \A e \in DOMAIN Weights(new) : Weights(MergeRisk(old, new))[e] = Weights(new)[e]
         /\ \A e \in DOMAIN Weights(old) \ DOMAIN Weights(new) :
              Weights(MergeRisk(old, new))[e] = Weights(old)[e]
<1> DEFINE W == Over(Weights(new), Weights(old))
           flat == Over(new, old)
           out == MergeRisk(old, new)
<1>1. out = IF DOMAIN W = {} THEN flat ELSE Over(Only("weights", W), flat)
  BY DEF MergeRisk, Weights
<1>2. /\ DOMAIN W = DOMAIN Weights(new) \cup DOMAIN Weights(old)
      /\ \A e \in DOMAIN Weights(new) : W[e] = Weights(new)[e]
      /\ \A e \in DOMAIN Weights(old) \ DOMAIN Weights(new) : W[e] = Weights(old)[e]
  BY DEF Over, Has
<1>3. CASE DOMAIN W = {}
  <2>1. DOMAIN <<>> = {}
    OBVIOUS
  <2>2. DOMAIN Weights(new) = {} /\ DOMAIN Weights(old) = {}
    BY <1>2, <1>3
  <2>3. Weights(flat) \in {Weights(new), Weights(old), <<>>}
    BY DEF Weights, Get, Over, Has
  <2>4. DOMAIN Weights(flat) = {}
    BY <2>1, <2>2, <2>3
  <2>5. out = flat
    BY <1>1, <1>3
  <2> QED
    BY <2>2, <2>4, <2>5
<1>4. CASE DOMAIN W # {}
  <2> HIDE DEF W, flat
  <2> DEFINE top == Only("weights", W)
  <2>1. Has(top, "weights") /\ top["weights"] = W
    BY OnlyField
  <2> HIDE DEF top
  <2>2. out = Over(top, flat)
    BY <1>1, <1>4 DEF top
  <2>3. Has(out, "weights") /\ out["weights"] = W
    BY <2>1, <2>2 DEF Over, Has
  <2>4. Weights(out) = W
    BY <2>3 DEF Weights, Get
  <2> QED
    BY <1>2, <2>4
<1> QED
  BY <1>3, <1>4

\* Within a layer a pattern is stated once; sequence rules are a list.
DistinctOK(layers) ==
  \A i \in DOMAIN layers :
    LET tools == layers[i].tools
        rules == layers[i].sequence_rules
    IN /\ "sequence_rules" \in DOMAIN layers[i]
       /\ rules # Unset => rules \in Seq(ToSet(rules))
       /\ \A j, k \in DOMAIN tools : tools[j].pattern = tools[k].pattern => j = k

Setters(layers, n) == {i \in 1..n : layers[i].on_failure # Unset}
Ruled(layers, n) == {i \in 1..n : layers[i].sequence_rules # Unset}
Weighers(layers, e, n) == {i \in 1..n : layers[i].risk # Unset /\ e \in DOMAIN Weights(layers[i].risk)}
Weighed(layers, n) == UNION {DOMAIN Weights(layers[i].risk) : i \in {j \in 1..n : layers[j].risk # Unset}}

\* What n layers have made of the settings.
SettingsAt(layers, m, n) ==
  /\ DOMAIN NoRules \subseteq DOMAIN m
  /\ m.taint_sources = UNION {_validate_str_list(layers[i].taint_sources) : i \in 1..n}
  /\ m.taint_sinks = UNION {_validate_str_list(layers[i].taint_sinks) : i \in 1..n}
  /\ m.sequence_rules \in Seq(ToSet(m.sequence_rules))
  /\ ToSet(m.sequence_rules) = UNION {ToSet(layers[i].sequence_rules) : i \in Ruled(layers, n)}
  /\ m.on_failure = IF Setters(layers, n) = {} THEN Unset
                    ELSE layers[Max(Setters(layers, n))].on_failure
  /\ DOMAIN Weights(m.risk) = Weighed(layers, n)
  /\ \A e \in Weighed(layers, n) :
       Weights(m.risk)[e] = Weights(layers[Max(Weighers(layers, e, n))].risk)[e]

LEMMA NoSettings == ASSUME NEW layers PROVE SettingsAt(layers, NoRules, 0)
<1>1. /\ NoRules.taint_sources = {} /\ NoRules.taint_sinks = {} /\ NoRules.sequence_rules = <<>>
      /\ NoRules.risk = <<>> /\ NoRules.on_failure = Unset
  BY DEF NoRules
<1>2. 1..0 = {}
  OBVIOUS
<1>3. Setters(layers, 0) = {} /\ Ruled(layers, 0) = {} /\ Weighed(layers, 0) = {}
  BY <1>2 DEF Setters, Ruled, Weighed
<1> DEFINE e == <<>>
<1>4. e = [i \in 1..0 |-> e[i]] /\ DOMAIN e = {}
  OBVIOUS
<1> HIDE DEF e, NoRules
<1>5. e \in Seq(ToSet(e)) /\ ToSet(e) = {}
  BY <1>4, IsSequence DEF ToSet
<1>6. Weights(e) = e
  BY <1>4 DEF Weights, Get, Has, e
<1>7. NoRules.sequence_rules = e /\ NoRules.risk = e
  BY <1>1 DEF e
<1> QED
  BY <1>1, <1>2, <1>3, <1>4, <1>5, <1>6, <1>7 DEF SettingsAt

LEMMA SettingsNext ==
  ASSUME NEW layers, WellFormed(layers), DistinctOK(layers), NEW n \in DOMAIN layers, NEW m,
         SettingsAt(layers, m, n - 1)
  PROVE  SettingsAt(layers, MergeLayer(m, layers[n]), n)
<1> DEFINE layer == layers[n]
           out == MergeLayer(m, layer)
<1>1. n \in Nat /\ n - 1 \in Nat /\ \A i : i \in 1..n <=> i = n \/ i \in 1..n - 1
  <2>1. DOMAIN layers = 1..Len(layers) /\ Len(layers) \in Nat
    BY SequenceIs DEF WellFormed
  <2> QED
    BY <2>1
<1>2. /\ layer.tools \in Seq(ToSet(layer.tools))
      /\ \A j, k \in DOMAIN layer.tools : layer.tools[j].pattern = layer.tools[k].pattern => j = k
      /\ layer.sequence_rules # Unset => layer.sequence_rules \in Seq(ToSet(layer.sequence_rules))
  BY DEF WellFormed, DistinctOK
<1>3. /\ DOMAIN NoRules \subseteq DOMAIN m
      /\ m.taint_sources = UNION {_validate_str_list(layers[i].taint_sources) : i \in 1..n - 1}
      /\ m.taint_sinks = UNION {_validate_str_list(layers[i].taint_sinks) : i \in 1..n - 1}
      /\ m.sequence_rules \in Seq(ToSet(m.sequence_rules))
      /\ ToSet(m.sequence_rules) = UNION {ToSet(layers[i].sequence_rules) : i \in Ruled(layers, n - 1)}
  BY DEF SettingsAt
<1>4. /\ m.on_failure = IF Setters(layers, n - 1) = {} THEN Unset
                        ELSE layers[Max(Setters(layers, n - 1))].on_failure
      /\ DOMAIN Weights(m.risk) = Weighed(layers, n - 1)
      /\ \A e \in Weighed(layers, n - 1) :
           Weights(m.risk)[e] = Weights(layers[Max(Weighers(layers, e, n - 1))].risk)[e]
  BY DEF SettingsAt
<1> HIDE DEF layer
<1>5. /\ DOMAIN out = DOMAIN m
      /\ out.taint_sources = m.taint_sources \cup _validate_str_list(layer.taint_sources)
      /\ out.taint_sinks = m.taint_sinks \cup _validate_str_list(layer.taint_sinks)
      /\ out.sequence_rules = IF layer.sequence_rules = Unset THEN m.sequence_rules
                              ELSE m.sequence_rules \o layer.sequence_rules
      /\ out.risk = MergeRisk(m.risk, layer.risk)
      /\ out.on_failure = IF layer.on_failure = Unset THEN m.on_failure ELSE layer.on_failure
  BY <1>2, <1>3, MergeLayerEffect
<1> HIDE DEF out
<1>6. /\ out.taint_sources = UNION {_validate_str_list(layers[i].taint_sources) : i \in 1..n}
      /\ out.taint_sinks = UNION {_validate_str_list(layers[i].taint_sinks) : i \in 1..n}
  <2>1. out.taint_sources = UNION {_validate_str_list(layers[i].taint_sources) : i \in 1..n}
    BY <1>1, <1>3, <1>5 DEF layer
  <2>2. out.taint_sinks = UNION {_validate_str_list(layers[i].taint_sinks) : i \in 1..n}
    BY <1>1, <1>3, <1>5 DEF layer
  <2> QED
    BY <2>1, <2>2
<1>7. /\ out.sequence_rules \in Seq(ToSet(out.sequence_rules))
      /\ ToSet(out.sequence_rules) = UNION {ToSet(layers[i].sequence_rules) : i \in Ruled(layers, n)}
  <2>1. CASE layer.sequence_rules = Unset
    <3>1. Ruled(layers, n) = Ruled(layers, n - 1)
      BY <1>1, <2>1 DEF Ruled, layer
    <3> QED
      BY <1>3, <1>5, <2>1, <3>1
  <2>2. CASE layer.sequence_rules # Unset
    <3>1. Ruled(layers, n) = Ruled(layers, n - 1) \cup {n}
      BY <1>1, <2>2 DEF Ruled, layer
    <3> DEFINE s == m.sequence_rules
               t == layer.sequence_rules
    <3>2. s \in Seq(ToSet(s)) /\ t \in Seq(ToSet(t)) /\ out.sequence_rules = s \o t
      BY <1>2, <1>3, <1>5, <2>2
    <3>3. t = layers[n].sequence_rules
      BY DEF layer
    <3> HIDE DEF s, t
    <3>4. s \o t \in Seq(ToSet(s \o t)) /\ ToSet(s \o t) = ToSet(s) \cup ToSet(t)
      BY <3>2, ConcatIs
    <3>5. ToSet(s) = UNION {ToSet(layers[i].sequence_rules) : i \in Ruled(layers, n - 1)}
      BY <1>3 DEF s
    <3>6. ToSet(s) \cup ToSet(t) = UNION {ToSet(layers[i].sequence_rules) : i \in Ruled(layers, n)}
      BY <3>1, <3>3, <3>5
    <3> QED
      BY <3>2, <3>4, <3>6
  <2> QED
    BY <2>1, <2>2
<1>8. out.on_failure = IF Setters(layers, n) = {} THEN Unset
                       ELSE layers[Max(Setters(layers, n))].on_failure
  <2>1. CASE layer.on_failure = Unset
    <3>1. Setters(layers, n) = Setters(layers, n - 1)
      BY <1>1, <2>1 DEF Setters, layer
    <3> QED
      BY <1>4, <1>5, <2>1, <3>1
  <2>2. CASE layer.on_failure # Unset
    <3>1. n \in Setters(layers, n) /\ Setters(layers, n) \subseteq 1..n
      BY <1>1, <2>2 DEF Setters, layer
    <3>2. Max(Setters(layers, n)) = n
      BY <1>1, <3>1, TopOf
    <3> QED
      BY <1>5, <2>2, <3>1, <3>2 DEF layer
  <2> QED
    BY <2>1, <2>2
<1>9. /\ DOMAIN Weights(out.risk) = Weighed(layers, n)
      /\ \A e \in Weighed(layers, n) :
           Weights(out.risk)[e] = Weights(layers[Max(Weighers(layers, e, n))].risk)[e]
  <2>1. CASE layer.risk = Unset
    <3>1. out.risk = m.risk
      BY <1>5, <2>1 DEF MergeRisk
    <3>2. Weighed(layers, n) = Weighed(layers, n - 1)
      BY <1>1, <2>1 DEF Weighed, layer
    <3>3. \A e : Weighers(layers, e, n) = Weighers(layers, e, n - 1)
      BY <1>1, <2>1 DEF Weighers, layer
    <3> QED
      BY <1>4, <3>1, <3>2, <3>3
  <2>2. CASE layer.risk # Unset
    <3> DEFINE new == Weights(layer.risk)
               was == Weights(m.risk)
               now == Weights(out.risk)
    <3>1. /\ DOMAIN now = DOMAIN new \cup DOMAIN was
          /\ \A e \in DOMAIN new : now[e] = new[e]
          /\ \A e \in DOMAIN was \ DOMAIN new : now[e] = was[e]
      <4> DEFINE o == m.risk
                 w == layer.risk
      <4>1. w # Unset /\ out.risk = MergeRisk(o, w)
        BY <1>5, <2>2
      <4> HIDE DEF o, w
      <4>2. /\ DOMAIN Weights(MergeRisk(o, w)) = DOMAIN Weights(w) \cup DOMAIN Weights(o)
            /\ \A e \in DOMAIN Weights(w) : Weights(MergeRisk(o, w))[e] = Weights(w)[e]
            /\ \A e \in DOMAIN Weights(o) \ DOMAIN Weights(w) :
                 Weights(MergeRisk(o, w))[e] = Weights(o)[e]
        BY <4>1, MergeRiskWeights
      <4> QED
        BY <4>1, <4>2 DEF o, w
    <3>2. Weighed(layers, n) = Weighed(layers, n - 1) \cup DOMAIN new
      BY <1>1, <2>2 DEF Weighed, layer
    <3>3. ASSUME NEW e \in DOMAIN new
          PROVE  now[e] = Weights(layers[Max(Weighers(layers, e, n))].risk)[e]
      <4>1. n \in Weighers(layers, e, n) /\ Weighers(layers, e, n) \subseteq 1..n
        BY <1>1, <2>2 DEF Weighers, layer
      <4>2. Max(Weighers(layers, e, n)) = n
        BY <1>1, <4>1, TopOf
      <4> QED
        BY <3>1, <4>2 DEF layer
    <3>4. ASSUME NEW e \in DOMAIN was \ DOMAIN new
          PROVE  now[e] = Weights(layers[Max(Weighers(layers, e, n))].risk)[e]
      <4>1. Weighers(layers, e, n) = Weighers(layers, e, n - 1)
        BY <1>1 DEF Weighers, layer
      <4>2. was[e] = Weights(layers[Max(Weighers(layers, e, n - 1))].risk)[e]
        BY <1>4
      <4> QED
        BY <3>1, <4>1, <4>2
    <3> HIDE DEF new, was, now
    <3>5. DOMAIN was = Weighed(layers, n - 1)
      BY <1>4 DEF was
    <3>6. DOMAIN now = Weighed(layers, n)
      BY <3>1, <3>2, <3>5
    <3>7. \A e \in Weighed(layers, n) : now[e] = Weights(layers[Max(Weighers(layers, e, n))].risk)[e]
      BY <3>2, <3>3, <3>4, <3>5
    <3> QED
      BY <3>6, <3>7 DEF now
  <2> QED
    BY <2>1, <2>2
<1>10. SettingsAt(layers, out, n)
  BY <1>3, <1>5, <1>6, <1>7, <1>8, <1>9 DEF SettingsAt
<1> QED
  BY <1>10 DEF out, layer

LEMMA SettingsMerged ==
  ASSUME NEW layers, WellFormed(layers), DistinctOK(layers)
  PROVE  SettingsAt(layers, merge_layers(layers), Len(layers))
<1> DEFINE N == Len(layers)
<1>1. N \in Nat /\ DOMAIN layers = 1..N
  BY SequenceIs DEF WellFormed
<1>2. PICK f : /\ f[0] = NoRules
               /\ \A n \in 1..N : f[n] = MergeLayer(f[n - 1], layers[n])
               /\ merge_layers(layers) = f[N]
  <2>1. Len(layers) \in Nat
    BY <1>1
  <2> QED
    BY <2>1, MergeLayersRuns, Zenon
<1> DEFINE S == {n \in 0..N : SettingsAt(layers, f[n], n)}
<1>3. 0 \in S
  BY <1>1, <1>2, NoSettings
<1>4. ASSUME NEW n \in 1..N, n - 1 \in S PROVE n \in S
  <2>1. SettingsAt(layers, f[n - 1], n - 1) /\ n \in DOMAIN layers
    BY <1>1, <1>4
  <2>2. SettingsAt(layers, MergeLayer(f[n - 1], layers[n]), n)
    BY <2>1, SettingsNext
  <2> QED
    BY <1>1, <1>2, <2>2
<1> HIDE DEF S, N
<1>5. \A n \in 0..N : n \in S
  BY <1>1, <1>3, <1>4, LoopInduction
<1>6. N \in S
  BY <1>1, <1>5
<1> QED
  BY <1>2, <1>6 DEF S, N

\* What a set of layers, by their rules R, says of a rule and of its overlays.
Naming(W, R, f) == {i \in W : Has(R[i], f)}
Overlaying(W, R, r) == {i \in W : r \in DOMAIN RolesIn(R[i])}

SaidBy(W, R, merged) ==
  /\ \A f \in OVERLAY_FIELDS :
       IF Naming(W, R, f) = {} THEN ~Has(merged, f)
       ELSE Has(merged, f) /\ merged[f] = R[Max(Naming(W, R, f))][f]
  /\ \A r : IF Overlaying(W, R, r) = {} THEN r \notin DOMAIN RolesIn(merged)
            ELSE /\ Has(merged, "roles") /\ r \in DOMAIN merged.roles
                 /\ merged.roles[r] = R[Max(Overlaying(W, R, r))].roles[r]

LEMMA NoRoles == DOMAIN <<>> = {}
OBVIOUS

LEMMA OverlayFields ==
  ASSUME NEW f \in OVERLAY_FIELDS PROVE f # "roles" /\ f # "replace"
BY DEF OVERLAY_FIELDS

LEMMA SaidAlone ==
  ASSUME NEW n \in Nat \ {0}, NEW R
  PROVE  SaidBy({n}, R, Without(R[n], {"replace"}))
<1> DEFINE rule == R[n]
           new == Without(rule, {"replace"})
<1>1. Max({n}) = n
  <2>1. {n} \subseteq 1..n /\ n \in {n} /\ n \in Nat
    OBVIOUS
  <2> QED
    BY <2>1, TopOf
<1>2. /\ \A f : Has(new, f) <=> Has(rule, f) /\ f \notin {"replace"}
      /\ \A f : Has(new, f) => new[f] = rule[f]
  BY WithoutFields
<1>3. \A f : Naming({n}, R, f) = IF Has(rule, f) THEN {n} ELSE {}
  BY DEF Naming
<1>4. \A r : Overlaying({n}, R, r) = IF r \in DOMAIN RolesIn(rule) THEN {n} ELSE {}
  BY DEF Overlaying
<1> HIDE DEF new
<1>5. ASSUME NEW f \in OVERLAY_FIELDS
      PROVE  IF Naming({n}, R, f) = {} THEN ~Has(new, f)
             ELSE Has(new, f) /\ new[f] = R[Max(Naming({n}, R, f))][f]
  <2>1. f # "replace"
    BY OverlayFields
  <2> QED
    BY <1>1, <1>2, <1>3, <2>1
<1>6. ASSUME NEW r
      PROVE  IF Overlaying({n}, R, r) = {} THEN r \notin DOMAIN RolesIn(new)
             ELSE /\ Has(new, "roles") /\ r \in DOMAIN new["roles"]
                  /\ new["roles"][r] = R[Max(Overlaying({n}, R, r))]["roles"][r]
  <2>1. RolesIn(new) = RolesIn(rule) /\ (Has(rule, "roles") => Has(new, "roles") /\ new["roles"] = rule["roles"])
    BY <1>2 DEF RolesIn, Get
  <2>2. CASE r \in DOMAIN RolesIn(rule)
    <3>1. Has(rule, "roles") /\ RolesIn(rule) = rule["roles"]
      BY <2>2, InRoles
    <3> QED
      BY <1>1, <1>4, <2>1, <2>2, <3>1
  <2>3. CASE r \notin DOMAIN RolesIn(rule)
    BY <1>4, <2>1, <2>3
  <2> QED
    BY <2>2, <2>3
<1>7. SaidBy({n}, R, new)
  BY <1>5, <1>6 DEF SaidBy
<1> QED
  BY <1>7 DEF new

LEMMA SaidNext ==
  ASSUME NEW n \in Nat \ {0}, NEW R, NEW W \in SUBSET (1..n - 1), NEW old, SaidBy(W, R, old),
         Get(R[n], "roles", Unset) # Unset => ~Null(old, "roles")
  PROVE  SaidBy(W \cup {n}, R, FieldMerge(old, Without(R[n], {"replace"})))
<1> DEFINE rule == R[n]
           new == Without(rule, {"replace"})
           bare == Without(new, {"roles"})
           fields == Over(bare, old)
           was == RolesIn(old)
           roles == Over(new["roles"], was)
           out == FieldMerge(old, new)
           V == W \cup {n}
           given == Get(new, "roles", Unset) # Unset
<1>1. out = IF given THEN Over(Only("roles", roles), fields) ELSE fields
  BY DEF FieldMerge
<1>2. /\ \A f : Has(new, f) <=> Has(rule, f) /\ f \notin {"replace"}
      /\ \A f : Has(new, f) => new[f] = rule[f]
  BY WithoutFields
<1> HIDE DEF new
<1>3. /\ \A f : Has(bare, f) <=> Has(new, f) /\ f \notin {"roles"}
      /\ \A f : Has(bare, f) => bare[f] = new[f]
  BY WithoutFields
<1> HIDE DEF bare
<1>4. /\ \A f : Has(fields, f) <=> Has(bare, f) \/ Has(old, f)
      /\ \A f : Has(bare, f) => fields[f] = bare[f]
      /\ \A f : ~Has(bare, f) /\ Has(old, f) => fields[f] = old[f]
  BY OverFields
<1> HIDE DEF fields
<1>5. /\ \A r : Has(roles, r) <=> Has(new["roles"], r) \/ Has(was, r)
      /\ \A r : Has(new["roles"], r) => roles[r] = new["roles"][r]
      /\ \A r : ~Has(new["roles"], r) /\ Has(was, r) => roles[r] = was[r]
  <2> HIDE DEF was
  <2> QED
    BY OverFields
<1> HIDE DEF roles, was
<1>6. given => /\ Has(out, "roles") /\ out["roles"] = roles
               /\ \A f : f # "roles" => (Has(out, f) <=> Has(fields, f))
               /\ \A f : f # "roles" /\ Has(fields, f) => out[f] = fields[f]
  <2> SUFFICES ASSUME given
               PROVE  /\ Has(out, "roles") /\ out["roles"] = roles
                      /\ \A f : f # "roles" => (Has(out, f) <=> Has(fields, f))
                      /\ \A f : f # "roles" /\ Has(fields, f) => out[f] = fields[f]
    OBVIOUS
  <2> DEFINE top == Only("roles", roles)
  <2>1. /\ \A f : Has(top, f) <=> f = "roles"
        /\ top["roles"] = roles
    BY OnlyField
  <2> HIDE DEF top
  <2>2. out = Over(top, fields)
    BY <1>1 DEF top
  <2>3. /\ \A f : Has(out, f) <=> Has(top, f) \/ Has(fields, f)
        /\ \A f : Has(top, f) => out[f] = top[f]
        /\ \A f : ~Has(top, f) /\ Has(fields, f) => out[f] = fields[f]
    BY <2>2, OverFields
  <2> HIDE DEF out
  <2> QED
    BY <2>1, <2>3
<1>7. ~given => out = fields
  BY <1>1
<1> HIDE DEF out
<1>8. n \in Nat /\ V \subseteq 1..n /\ n \in V /\ n \notin W
  OBVIOUS
<1>9. ASSUME NEW f \in OVERLAY_FIELDS
      PROVE  IF Naming(V, R, f) = {} THEN ~Has(out, f)
             ELSE Has(out, f) /\ out[f] = R[Max(Naming(V, R, f))][f]
  <2>1. f # "roles" /\ f # "replace"
    BY OverlayFields
  <2>2. /\ Has(out, f) <=> Has(fields, f)
        /\ Has(fields, f) => out[f] = fields[f]
    BY <1>6, <1>7, <2>1
  <2>3. Has(bare, f) <=> Has(rule, f)
    BY <1>2, <1>3, <2>1
  <2>4. CASE Has(rule, f)
    <3>1. out[f] = rule[f] /\ Has(out, f)
      BY <1>2, <1>3, <1>4, <2>1, <2>2, <2>3, <2>4
    <3>2. n \in Naming(V, R, f) /\ Naming(V, R, f) \subseteq 1..n
      BY <1>8, <2>4 DEF Naming
    <3>3. Max(Naming(V, R, f)) = n
      BY <1>8, <3>2, TopOf
    <3> QED
      BY <3>1, <3>2, <3>3
  <2>5. CASE ~Has(rule, f)
    <3>1. Naming(V, R, f) = Naming(W, R, f)
      BY <2>5 DEF Naming
    <3>2. /\ Has(out, f) <=> Has(old, f)
          /\ Has(old, f) => out[f] = old[f]
      BY <1>4, <2>2, <2>3, <2>5
    <3>3. IF Naming(W, R, f) = {} THEN ~Has(old, f)
          ELSE Has(old, f) /\ old[f] = R[Max(Naming(W, R, f))][f]
      BY DEF SaidBy
    <3> QED
      BY <3>1, <3>2, <3>3
  <2> QED
    BY <2>4, <2>5
<1>10. ASSUME NEW r
       PROVE  IF Overlaying(V, R, r) = {} THEN r \notin DOMAIN RolesIn(out)
              ELSE /\ Has(out, "roles") /\ r \in DOMAIN out["roles"]
                   /\ out["roles"][r] = R[Max(Overlaying(V, R, r))]["roles"][r]
  <2> DEFINE says == r \in DOMAIN RolesIn(rule)
  <2>1. /\ RolesIn(new) = RolesIn(rule)
        /\ given <=> Get(rule, "roles", Unset) # Unset
        /\ given => RolesIn(rule) = new["roles"] /\ new["roles"] = rule["roles"]
    BY <1>2 DEF RolesIn, Get
  <2>2. IF Overlaying(W, R, r) = {} THEN r \notin DOMAIN was
        ELSE /\ Has(old, "roles") /\ r \in DOMAIN old["roles"]
             /\ old["roles"][r] = R[Max(Overlaying(W, R, r))]["roles"][r]
    BY DEF SaidBy, was
  <2>3. CASE given
    <3>1. Has(out, "roles") /\ out["roles"] = roles
      BY <1>6, <2>3
    <3>2. \A x \in DOMAIN RolesIn(out) : x \in DOMAIN roles
      BY <3>1, InRoles
    <3>3. IF Overlaying(W, R, r) = {} THEN r \notin DOMAIN was
          ELSE r \in DOMAIN was /\ was[r] = R[Max(Overlaying(W, R, r))]["roles"][r]
      <4>1. ~Null(old, "roles")
        BY <2>1, <2>3
      <4>2. Has(old, "roles") => was = old["roles"]
        BY <4>1 DEF was, RolesIn, Get, Null
      <4> QED
        BY <2>2, <4>2
    <3>4. CASE says
      <4>1. r \in DOMAIN roles /\ roles[r] = rule["roles"][r]
        BY <1>5, <2>1, <2>3, <3>4 DEF Has
      <4>2. n \in Overlaying(V, R, r) /\ Overlaying(V, R, r) \subseteq 1..n
        BY <1>8, <3>4 DEF Overlaying
      <4>3. Max(Overlaying(V, R, r)) = n
        BY <1>8, <4>2, TopOf
      <4> QED
        BY <3>1, <4>1, <4>2, <4>3
    <3>5. CASE ~says
      <4>1. Overlaying(V, R, r) = Overlaying(W, R, r)
        BY <3>5 DEF Overlaying
      <4>2. ~Has(new["roles"], r)
        BY <2>1, <2>3, <3>5 DEF Has
      <4>3. (r \in DOMAIN roles <=> r \in DOMAIN was) /\ (r \in DOMAIN was => roles[r] = was[r])
        BY <1>5, <4>2 DEF Has
      <4> QED
        BY <3>1, <3>2, <3>3, <4>1, <4>3
    <3> QED
      BY <3>4, <3>5
  <2>4. CASE ~given
    <3>1. out = fields /\ ~Has(bare, "roles")
      BY <1>3, <1>7, <2>4
    <3>2. /\ Has(out, "roles") <=> Has(old, "roles")
          /\ Has(old, "roles") => out["roles"] = old["roles"]
      BY <1>4, <3>1
    <3>3. RolesIn(out) = was
      BY <3>2 DEF was, RolesIn, Get
    <3>4. RolesIn(rule) = <<>>
      BY <2>1, <2>4 DEF RolesIn
    <3>5. Overlaying(V, R, r) = Overlaying(W, R, r)
      BY <3>4, NoRoles DEF Overlaying
    <3> QED
      BY <2>2, <3>2, <3>3, <3>5
  <2> QED
    BY <2>3, <2>4
<1>11. SaidBy(V, R, out)
  BY <1>9, <1>10 DEF SaidBy
<1> QED
  BY <1>11 DEF out, new

RuleIn(layers, p) ==
  [i \in DOMAIN layers |-> (CHOOSE e \in ToSet(layers[i].tools) : e.pattern = p).rule]
StatedIn(layers, p, n) == {i \in 1..n : p \in Patterns(layers[i])}
ReplacedIn(layers, p, n) == {i \in StatedIn(layers, p, n) : Get(RuleIn(layers, p)[i], "replace", FALSE)}
CutAt(layers, p, n) == Max({Min(StatedIn(layers, p, n))} \cup ReplacedIn(layers, p, n))
SinceCut(layers, p, n) == {j \in StatedIn(layers, p, n) : j >= CutAt(layers, p, n)}

\* What n layers have made of the rule of p.
RuleAt(layers, p, m, n) ==
  /\ DOMAIN NoRules \subseteq DOMAIN m
  /\ p \in DOMAIN m.rules <=> StatedIn(layers, p, n) # {}
  /\ p \in DOMAIN m.rules => SaidBy(SinceCut(layers, p, n), RuleIn(layers, p), m.rules[p])

LEMMA MinIn ==
  ASSUME NEW n \in Nat, NEW H \in SUBSET (1..n), H # {}
  PROVE  Min(H) \in H /\ \A y \in H : Min(H) <= y
<1>1. H \subseteq Nat
  OBVIOUS
<1>2. IsWellFoundedOn(OpToRel(<, Nat), Nat)
  BY NatLessThanWellFounded
<1>3. PICK x \in H : \A y \in H : ~(<<y, x>> \in OpToRel(<, Nat))
  BY <1>1, <1>2, WFMin
<1>4. ASSUME NEW y \in H PROVE x <= y
  <2>1. x \in Nat /\ y \in Nat
    BY <1>1
  <2>2. ~(<<y, x>> \in OpToRel(<, Nat))
    BY <1>3
  <2>3. ~(y < x)
    BY <2>1, <2>2 DEF OpToRel
  <2> QED
    BY <2>1, <2>3
<1> QED
  BY <1>4 DEF Min

\* A layer that states the rule first, or replaces it, is the only one to count.
LEMMA CutHere ==
  ASSUME NEW layers, NEW p, NEW n \in Nat \ {0}, n \in StatedIn(layers, p, n),
         StatedIn(layers, p, n - 1) = {} \/ n \in ReplacedIn(layers, p, n)
  PROVE  SinceCut(layers, p, n) = {n}
<1> DEFINE A == StatedIn(layers, p, n)
           C == {Min(A)} \cup ReplacedIn(layers, p, n)
<1>1. A \subseteq 1..n /\ ReplacedIn(layers, p, n) \subseteq A /\ n \in A /\ n \in Nat
  BY DEF StatedIn, ReplacedIn
<1>2. Min(A) \in A
  BY <1>1, MinIn
<1>3. n \in C
  <2>1. CASE StatedIn(layers, p, n - 1) = {}
    <3>1. \A i \in A : i = n
      BY <2>1 DEF StatedIn
    <3> QED
      BY <1>2, <3>1
  <2> QED
    BY <2>1
<1>4. C \subseteq 1..n
  BY <1>1, <1>2
<1> HIDE DEF A, C
<1>5. Max(C) = n
  BY <1>1, <1>3, <1>4, TopOf
<1>6. SinceCut(layers, p, n) = {j \in A : j >= n}
  BY <1>5 DEF SinceCut, CutAt, A, C
<1>7. \A j \in A : j \in Nat /\ j <= n
  BY <1>1
<1>8. \A j \in A : j >= n <=> j = n
  BY <1>1, <1>7
<1> QED
  BY <1>1, <1>6, <1>8

\* Another layer that states it counts besides those that counted.
LEMMA CutBefore ==
  ASSUME NEW layers, NEW p, NEW n \in Nat \ {0}, n \in StatedIn(layers, p, n),
         StatedIn(layers, p, n - 1) # {}, n \notin ReplacedIn(layers, p, n)
  PROVE  SinceCut(layers, p, n) = SinceCut(layers, p, n - 1) \cup {n}
<1> DEFINE A == StatedIn(layers, p, n)
           B == StatedIn(layers, p, n - 1)
           Q == ReplacedIn(layers, p, n)
           C == CutAt(layers, p, n - 1)
<1>1. n - 1 \in Nat /\ B \subseteq 1..n - 1 /\ A = B \cup {n} /\ n \in Nat /\ A \subseteq 1..n
  BY DEF StatedIn
<1>2. Q = ReplacedIn(layers, p, n - 1) /\ Q \subseteq B
  BY <1>1 DEF ReplacedIn
<1>3. Min(B) \in B /\ \A y \in B : Min(B) <= y
  BY <1>1, MinIn
<1>4. Min(A) \in A /\ \A y \in A : Min(A) <= y
  BY <1>1, MinIn
<1> DEFINE a == Min(A)
           b == Min(B)
<1> HIDE DEF A, B
<1>5. a = b
  <2> HIDE DEF a, b
  <2>0. b \in B /\ a \in A /\ (\A y \in B : b <= y) /\ (\A y \in A : a <= y)
    BY <1>3, <1>4 DEF a, b
  <2>1. b \in 1..n - 1 /\ b \in A /\ b \in Nat /\ a \in Nat
    BY <1>1, <2>0
  <2>2. a <= b /\ b < n
    BY <1>1, <2>0, <2>1
  <2>3. a \in B
    BY <1>1, <2>0, <2>1, <2>2
  <2>4. b <= a
    BY <2>0, <2>3
  <2> QED
    BY <2>1, <2>2, <2>4
<1>6. CutAt(layers, p, n) = C
  BY <1>2, <1>5 DEF CutAt, A, B
<1>7. C \in 1..n - 1
  <2> DEFINE K == {b} \cup Q
  <2>1. K \subseteq 1..n - 1 /\ K # {}
    BY <1>1, <1>2, <1>3
  <2> HIDE DEF K
  <2>2. Max(K) \in K
    BY <1>1, <2>1, MaxIn
  <2> QED
    BY <1>2, <2>1, <2>2 DEF CutAt, K, B
<1>8. SinceCut(layers, p, n) = {j \in A : j >= C}
  BY <1>6 DEF SinceCut, A
<1>9. SinceCut(layers, p, n - 1) = {j \in B : j >= C}
  BY DEF SinceCut, B
<1> HIDE DEF C
<1>10. n >= C
  BY <1>1, <1>7
<1> QED
  BY <1>1, <1>8, <1>9, <1>10

\* The rules of layer n merge into m and none of them raises.
MergesInto(layers, n, m) ==
  \A e \in ToSet(layers[n].tools) :
    ~ /\ Get(e.rule, "roles", Unset) # Unset /\ ~Get(e.rule, "replace", FALSE)
      /\ e.pattern \in DOMAIN m.rules /\ Null(m.rules[e.pattern], "roles")

LEMMA RuleNext ==
  ASSUME NEW layers, WellFormed(layers), DistinctOK(layers), NEW n \in DOMAIN layers, NEW m, NEW p,
         RuleAt(layers, p, m, n - 1), MergesInto(layers, n, m)
  PROVE  RuleAt(layers, p, MergeLayer(m, layers[n]), n)
<1> DEFINE layer == layers[n]
           tools == layer.tools
           out == MergeLayer(m, layer)
           R == RuleIn(layers, p)
<1>1. n \in Nat \ {0} /\ n - 1 \in Nat /\ \A i : i \in 1..n <=> i = n \/ i \in 1..n - 1
  <2>1. DOMAIN layers = 1..Len(layers) /\ Len(layers) \in Nat
    BY SequenceIs DEF WellFormed
  <2> QED
    BY <2>1
<1>2. /\ tools \in Seq(ToSet(tools))
      /\ \A j, k \in DOMAIN tools : tools[j].pattern = tools[k].pattern => j = k
  BY DEF WellFormed, DistinctOK
<1>3. /\ DOMAIN NoRules \subseteq DOMAIN m
      /\ p \in DOMAIN m.rules <=> StatedIn(layers, p, n - 1) # {}
      /\ p \in DOMAIN m.rules => SaidBy(SinceCut(layers, p, n - 1), R, m.rules[p])
  BY DEF RuleAt
<1>4. R[n] = (CHOOSE e \in ToSet(tools) : e.pattern = p).rule
  BY DEF RuleIn
<1>5. Patterns(layer) = {tools[j].pattern : j \in DOMAIN tools}
  BY DEF Patterns
<1> HIDE DEF R, layer
<1>6. /\ DOMAIN out = DOMAIN m
      /\ DOMAIN out.rules = DOMAIN m.rules \cup {tools[j].pattern : j \in DOMAIN tools}
      /\ \A j \in DOMAIN tools : out.rules[tools[j].pattern] = Placed(m, tools[j].pattern, tools[j].rule)
      /\ \A q \in DOMAIN m.rules : (\A j \in DOMAIN tools : q # tools[j].pattern) => out.rules[q] = m.rules[q]
  BY <1>2, <1>3, MergeLayerEffect
<1> HIDE DEF out, tools
<1>7. CASE p \notin Patterns(layer)
  <2>1. StatedIn(layers, p, n) = StatedIn(layers, p, n - 1)
    BY <1>1, <1>7 DEF StatedIn, layer
  <2>2. SinceCut(layers, p, n) = SinceCut(layers, p, n - 1)
    BY <2>1 DEF SinceCut, CutAt, ReplacedIn
  <2>3. /\ p \in DOMAIN out.rules <=> p \in DOMAIN m.rules
        /\ p \in DOMAIN m.rules => out.rules[p] = m.rules[p]
    BY <1>5, <1>6, <1>7
  <2>4. RuleAt(layers, p, out, n)
    BY <1>3, <1>6, <2>1, <2>2, <2>3 DEF RuleAt, R
  <2> QED
    BY <2>4 DEF out, layer
<1>8. CASE p \in Patterns(layer)
  <2>1. n \in StatedIn(layers, p, n)
    BY <1>1, <1>8 DEF StatedIn, layer
  <2>2. PICK j \in DOMAIN tools : p = tools[j].pattern
    BY <1>5, <1>8
  <2>3. R[n] = tools[j].rule
    <3>1. \A e \in ToSet(tools) : e.pattern = p => e = tools[j]
      BY <1>2, <2>2 DEF ToSet
    <3>2. tools[j] \in ToSet(tools)
      BY DEF ToSet
    <3>3. (CHOOSE e \in ToSet(tools) : e.pattern = p) = tools[j]
      BY <2>2, <3>1, <3>2
    <3> QED
      BY <1>4, <3>3
  <2> DEFINE rule == R[n]
             new == Without(rule, {"replace"})
  <2>4. out.rules[p] = Placed(m, p, rule) /\ p \in DOMAIN out.rules
    BY <1>6, <2>2, <2>3
  <2>5. n \in ReplacedIn(layers, p, n) <=> Get(rule, "replace", FALSE)
    BY <2>1 DEF ReplacedIn, R
  <2>6. SaidBy(SinceCut(layers, p, n), R, out.rules[p])
    <3>1. CASE p \notin DOMAIN m.rules \/ Get(rule, "replace", FALSE)
      <4>1. out.rules[p] = new
        BY <2>4, <3>1 DEF Placed
      <4>2. StatedIn(layers, p, n - 1) = {} \/ n \in ReplacedIn(layers, p, n)
        BY <1>3, <2>5, <3>1
      <4>3. SinceCut(layers, p, n) = {n}
        BY <1>1, <2>1, <4>2, CutHere
      <4>4. SaidBy({n}, R, new)
        BY <1>1, SaidAlone
      <4> QED
        BY <4>1, <4>3, <4>4
    <3>2. CASE ~(p \notin DOMAIN m.rules \/ Get(rule, "replace", FALSE))
      <4>1. out.rules[p] = FieldMerge(m.rules[p], new)
        BY <2>4, <3>2 DEF Placed
      <4>2. StatedIn(layers, p, n - 1) # {} /\ n \notin ReplacedIn(layers, p, n)
        BY <1>3, <2>5, <3>2
      <4> DEFINE W == SinceCut(layers, p, n - 1)
      <4>3. SinceCut(layers, p, n) = W \cup {n}
        BY <1>1, <2>1, <4>2, CutBefore
      <4>4. W \in SUBSET (1..n - 1) /\ SaidBy(W, R, m.rules[p])
        BY <1>3, <3>2 DEF SinceCut, StatedIn
      <4> HIDE DEF W
      <4>5. Get(R[n], "roles", Unset) # Unset => ~Null(m.rules[p], "roles")
        <5>1. tools[j] \in ToSet(tools)
          BY DEF ToSet
        <5> QED
          BY <2>2, <2>3, <3>2, <5>1 DEF MergesInto, tools, layer
      <4> DEFINE old == m.rules[p]
      <4> HIDE DEF old
      <4>6. W \in SUBSET (1..n - 1) /\ SaidBy(W, R, old) /\ (Get(R[n], "roles", Unset) # Unset => ~Null(old, "roles"))
        BY <4>4, <4>5 DEF old
      <4>7. SaidBy(W \cup {n}, R, FieldMerge(old, Without(R[n], {"replace"})))
        BY <1>1, <4>6, SaidNext
      <4> QED
        BY <4>1, <4>3, <4>7 DEF old
    <3> QED
      BY <3>1, <3>2
  <2>7. RuleAt(layers, p, out, n)
    BY <1>3, <1>6, <2>1, <2>4, <2>6 DEF RuleAt, R
  <2> QED
    BY <2>7 DEF out, layer
<1> QED
  BY <1>7, <1>8

\* The first layers merge to what the loop over all of them has after those.
LEMMA MergedPrefix ==
  ASSUME NEW layers, layers \in Seq(ToSet(layers)), NEW f, f[0] = NoRules,
         \A k \in 1..Len(layers) : f[k] = MergeLayer(f[k - 1], layers[k]),
         NEW n \in 1..Len(layers)
  PROVE  f[n - 1] = merge_layers(SubSeq(layers, 1, n - 1))
<1> DEFINE M == n - 1
           part == SubSeq(layers, 1, M)
<1>1. M \in Nat /\ Len(layers) \in Nat /\ M <= Len(layers)
  BY SequenceIs
<1>2. Len(part) = M /\ \A k \in 1..M : part[k] = layers[k]
  <2> DEFINE T == ToSet(layers)
  <2>1. layers \in Seq(T)
    OBVIOUS
  <2> HIDE DEF T, M
  <2> QED
    BY <1>1, <2>1
<1> HIDE DEF M, part
<1>3. PICK g : /\ g[0] = NoRules
               /\ \A k \in 1..Len(part) : g[k] = MergeLayer(g[k - 1], part[k])
               /\ merge_layers(part) = g[Len(part)]
  <2>1. Len(part) \in Nat
    BY <1>1, <1>2
  <2> QED
    BY <2>1, MergeLayersRuns, Zenon
<1> DEFINE S == {k \in 0..M : g[k] = f[k]}
<1>4. 0 \in S
  BY <1>1, <1>3
<1>5. ASSUME NEW k \in 1..M, k - 1 \in S PROVE k \in S
  <2>1. k \in 1..Len(layers) /\ g[k - 1] = f[k - 1]
    BY <1>1, <1>5
  <2>2. g[k] = MergeLayer(g[k - 1], layers[k]) /\ f[k] = MergeLayer(f[k - 1], layers[k])
    BY <1>2, <1>3, <2>1
  <2> QED
    BY <1>1, <2>1, <2>2
<1> HIDE DEF S
<1>6. \A k \in 0..M : k \in S
  BY <1>1, <1>4, <1>5, LoopInduction
<1>7. g[M] = f[M]
  BY <1>1, <1>6 DEF S
<1> QED
  BY <1>2, <1>3, <1>7 DEF M, part

LEMMA RuleMerged ==
  ASSUME NEW layers, WellFormed(layers), DistinctOK(layers), ~MergeRaises(layers), NEW p
  PROVE  RuleAt(layers, p, merge_layers(layers), Len(layers))
<1> DEFINE N == Len(layers)
<1>1. N \in Nat /\ DOMAIN layers = 1..N
  BY SequenceIs DEF WellFormed
<1>2. PICK f : /\ f[0] = NoRules
               /\ \A n \in 1..N : f[n] = MergeLayer(f[n - 1], layers[n])
               /\ merge_layers(layers) = f[N]
  <2>1. Len(layers) \in Nat
    BY <1>1
  <2> QED
    BY <2>1, MergeLayersRuns, Zenon
<1> DEFINE S == {n \in 0..N : RuleAt(layers, p, f[n], n)}
<1>3. 0 \in S
  <2>1. NoRules.rules = <<>>
    BY DEF NoRules
  <2>2. StatedIn(layers, p, 0) = {}
    BY DEF StatedIn
  <2>3. RuleAt(layers, p, NoRules, 0)
    BY <2>1, <2>2, NoRoles DEF RuleAt
  <2> QED
    BY <1>1, <1>2, <2>3
<1>4. ASSUME NEW n \in 1..N, n - 1 \in S PROVE n \in S
  <2>1. RuleAt(layers, p, f[n - 1], n - 1) /\ n \in DOMAIN layers
    BY <1>1, <1>4
  <2>2. RuleAt(layers, p, MergeLayer(f[n - 1], layers[n]), n)
    <3>1. MergesInto(layers, n, f[n - 1])
      <4>1. f[n - 1] = merge_layers(SubSeq(layers, 1, n - 1))
        BY <1>1, <1>2, MergedPrefix DEF WellFormed
      <4> QED
        BY <2>1, <4>1 DEF MergeRaises, MergesInto
    <3> QED
      BY <2>1, <3>1, RuleNext
  <2> QED
    BY <1>1, <1>2, <2>2
<1> HIDE DEF S, N
<1>5. \A n \in 0..N : n \in S
  BY <1>1, <1>3, <1>4, LoopInduction
<1>6. N \in S
  BY <1>1, <1>5
<1> QED
  BY <1>2, <1>6 DEF S, N

\* Layered inputs state a pattern once per layer.
OncePerLayer == Layered => DistinctOK(input.layers)

LEMMA DistinctLayer ==
  ASSUME NEW layers, LayersOK(layers), DistinctOK(layers), NEW d, d.tools = <<>>,
         "sequence_rules" \in DOMAIN d,
         d.sequence_rules # Unset => d.sequence_rules \in Seq(ToSet(d.sequence_rules))
  PROVE  DistinctOK(Append(layers, d))
<1> DEFINE l == Append(layers, d)
<1>1. layers \in Seq(ToSet(layers))
  BY DEF LayersOK, WellFormed
<1>2. /\ DOMAIN l = DOMAIN layers \cup {Len(layers) + 1}
      /\ \A i \in DOMAIN layers : l[i] = layers[i]
      /\ l[Len(layers) + 1] = d
  BY <1>1, AppendIs
<1>3. DOMAIN d.tools = {}
  BY NoRoles
<1> HIDE DEF l
<1>4. DistinctOK(l)
  BY <1>2, <1>3 DEF DistinctOK
<1> QED
  BY <1>4 DEF l

LEMMA DistinctRule ==
  ASSUME NEW layers, LayersOK(layers), DistinctOK(layers), NEW p, NEW rule,
         p \notin Patterns(Last(layers))
  PROVE  DistinctOK(WithRule(layers, p, rule))
<1> DEFINE n == Len(layers)
           e == [pattern |-> p, rule |-> rule]
           l == WithRule(layers, p, rule)
<1>1. n \in Nat /\ DOMAIN layers = 1..n
  BY SequenceIs DEF LayersOK, WellFormed
<1>2. l = [layers EXCEPT ![n] = [layers[n] EXCEPT !.tools = Append(layers[n].tools, e)]]
  BY DEF WithRule
<1>3. e.pattern = p /\ Last(layers) = layers[n]
  BY DEF Last
<1> HIDE DEF l, n, e
<1>4. SUFFICES ASSUME NEW i \in DOMAIN l
               PROVE  /\ "sequence_rules" \in DOMAIN l[i]
                      /\ l[i].sequence_rules # Unset => l[i].sequence_rules \in Seq(ToSet(l[i].sequence_rules))
                      /\ \A j, k \in DOMAIN l[i].tools : l[i].tools[j].pattern = l[i].tools[k].pattern => j = k
  <2>1. DistinctOK(l)
    BY <1>4 DEF DistinctOK
  <2> QED
    BY <2>1 DEF l
<1>5. i \in DOMAIN layers
  BY <1>2
<1> DEFINE was == layers[i].tools
<1>6. /\ "sequence_rules" \in DOMAIN layers[i]
      /\ layers[i].sequence_rules # Unset => layers[i].sequence_rules \in Seq(ToSet(layers[i].sequence_rules))
      /\ \A j, k \in DOMAIN was : was[j].pattern = was[k].pattern => j = k
  BY <1>5 DEF DistinctOK
<1>7. was \in Seq(ToSet(was)) /\ "tools" \in DOMAIN layers[i]
  BY <1>5 DEF LayersOK, WellFormed
<1>8. CASE i # n
  BY <1>2, <1>5, <1>6, <1>8
<1>9. CASE i = n
  <2> DEFINE now == Append(was, e)
  <2>1. l[i] = [layers[i] EXCEPT !.tools = now]
    BY <1>2, <1>5, <1>9
  <2>2. \A j \in DOMAIN was : was[j].pattern # p
    BY <1>3, <1>9 DEF Patterns
  <2> HIDE DEF was
  <2>3. /\ DOMAIN now = DOMAIN was \cup {Len(was) + 1}
        /\ \A j \in DOMAIN was : now[j] = was[j]
        /\ now[Len(was) + 1] = e
    BY <1>7, AppendIs
  <2> HIDE DEF now
  <2>4. l[i].tools = now /\ DOMAIN l[i] = DOMAIN layers[i] /\ l[i].sequence_rules = layers[i].sequence_rules
    BY <1>7, <2>1
  <2>5. \A j, k \in DOMAIN now : now[j].pattern = now[k].pattern => j = k
    BY <1>3, <1>6, <2>2, <2>3
  <2> QED
    BY <1>6, <2>4, <2>5
<1> QED
  BY <1>8, <1>9

LEMMA DistinctStart == Init => OncePerLayer
<1> SUFFICES ASSUME Init, Layered PROVE DistinctOK(input.layers)
  BY DEF OncePerLayer
<1>1. PICK k : input = [kind |-> k, layers |-> <<Doc>>]
  BY DEF Init, Layered
<1> DEFINE l == <<Doc>>
<1>2. Doc.tools = <<>> /\ "sequence_rules" \in DOMAIN Doc /\ Doc.sequence_rules = Unset
  BY DEF Doc
<1> HIDE DEF Doc
<1>3. DOMAIN l = {1} /\ l[1] = Doc
  OBVIOUS
<1>4. DOMAIN Doc.tools = {}
  BY <1>2, NoRoles
<1>5. input.layers = l
  BY <1>1
<1> HIDE DEF l
<1> QED
  BY <1>2, <1>3, <1>4, <1>5 DEF DistinctOK

LEMMA DistinctStep == InputOK /\ OncePerLayer /\ [Next]_vars => OncePerLayer'
<1> SUFFICES ASSUME InputOK, OncePerLayer, [Next]_vars PROVE OncePerLayer'
  OBVIOUS
<1>1. ASSUME NEW p \in PolicyPatterns, NEW rule \in PolicyRules, AddRule(p, rule)
      PROVE  OncePerLayer'
  <2> DEFINE l == WithRule(input.layers, p, rule)
  <2>1. /\ "kind" \in DOMAIN input /\ input.kind = "policy" /\ "layers" \in DOMAIN input
        /\ LayersOK(input.layers) /\ DistinctOK(input.layers)
    BY <1>1 DEF AddRule, InputOK, OncePerLayer, Layered
  <2>2. DistinctOK(l)
    BY <1>1, <2>1, DistinctRule DEF AddRule
  <2>3. input' = [input EXCEPT !.layers = l]
    BY <1>1 DEF AddRule
  <2> HIDE DEF l
  <2> QED
    BY <2>1, <2>2, <2>3 DEF OncePerLayer
<1>2. ASSUME AddLayer PROVE OncePerLayer'
  <2> DEFINE l == Append(input.layers, Doc)
  <2>1. /\ "kind" \in DOMAIN input /\ input.kind = "policy" /\ "layers" \in DOMAIN input
        /\ LayersOK(input.layers) /\ DistinctOK(input.layers)
    BY <1>2 DEF AddLayer, InputOK, OncePerLayer, Layered
  <2>2. Doc.tools = <<>> /\ "sequence_rules" \in DOMAIN Doc /\ Doc.sequence_rules = Unset
    BY DEF Doc
  <2>3. input' = [input EXCEPT !.layers = l]
    BY <1>2 DEF AddLayer
  <2> HIDE DEF Doc
  <2>4. DistinctOK(l)
    BY <2>1, <2>2, DistinctLayer
  <2> HIDE DEF l
  <2> QED
    BY <2>1, <2>3, <2>4 DEF OncePerLayer
<1>3. ASSUME NEW s \in Settings, AddSettings(s) PROVE OncePerLayer'
  <2> DEFINE d == [f \in DOMAIN Doc |-> Get(s, f, Doc[f])]
             l == Append(input.layers, d)
  <2>1. /\ "kind" \in DOMAIN input /\ input.kind = "settings" /\ "layers" \in DOMAIN input
        /\ LayersOK(input.layers) /\ DistinctOK(input.layers)
    BY <1>3 DEF AddSettings, InputOK, OncePerLayer, Layered
  <2>2. "sequence_rules" \in DOMAIN Doc /\ Doc.sequence_rules = Unset
    BY DEF Doc
  <2>3. ~Has(s, "tools") /\ LET r == Get(s, "sequence_rules", Unset) IN r # Unset => r \in Seq(ToSet(r))
    BY InputsAssumption
  <2>4. input' = [input EXCEPT !.layers = l]
    BY <1>3 DEF AddSettings
  <2> HIDE DEF Doc
  <2>5. d.tools = <<>> /\ "sequence_rules" \in DOMAIN d /\ d.sequence_rules = Get(s, "sequence_rules", Unset)
    BY <2>2, <2>3, DocHasNoTools DEF Get
  <2> HIDE DEF d
  <2>6. DistinctOK(l)
    BY <2>1, <2>3, <2>5, DistinctLayer
  <2> HIDE DEF l
  <2> QED
    BY <2>1, <2>4, <2>6 DEF OncePerLayer
<1>4. ASSUME NEW side \in {"base", "head"}, NEW p \in DiffPatterns, NEW rule \in DiffRules,
             AddSideRule(side, p, rule)
      PROVE  OncePerLayer'
  <2>1. "kind" \in DOMAIN input /\ input.kind = "diff"
    BY <1>4 DEF AddSideRule, InputOK
  <2>2. input'.kind = "diff"
    BY <1>4, <2>1 DEF AddSideRule
  <2> QED
    BY <2>2 DEF OncePerLayer, Layered
<1>5. ASSUME NEW s \in Spans, AddSpan(s) PROVE OncePerLayer'
  <2>1. "kind" \in DOMAIN input /\ input.kind = "text"
    BY <1>5 DEF AddSpan, InputOK
  <2>2. input'.kind = "text"
    BY <1>5, <2>1 DEF AddSpan
  <2> QED
    BY <2>2 DEF OncePerLayer, Layered
<1>6. ASSUME NEW up \in Upstreams, AddUpstream(up) PROVE OncePerLayer'
  <2>1. "kind" \in DOMAIN input /\ input.kind = "central"
    BY <1>6 DEF AddUpstream, InputOK
  <2>2. input'.kind = "central"
    BY <1>6, <2>1 DEF AddUpstream
  <2> QED
    BY <2>2 DEF OncePerLayer, Layered
<1>7. CASE UNCHANGED vars
  BY <1>7 DEF vars, OncePerLayer, Layered
<1> QED
  BY <1>1, <1>2, <1>3, <1>4, <1>5, <1>6, <1>7 DEF Next

LEMMA LayeredEngine ==
  ASSUME InputOK, OncePerLayer, Layered, Engine # PolicyError
  PROVE  /\ WellFormed(input.layers) /\ DistinctOK(input.layers)
         /\ Engine = merge_layers(input.layers) /\ ~MergeRaises(input.layers)
         /\ Len(input.layers) \in Nat /\ DOMAIN input.layers = 1..Len(input.layers)
<1>1. LayersOK(input.layers) /\ DistinctOK(input.layers)
  BY DEF InputOK, OncePerLayer
<1>2. WellFormed(input.layers)
  BY <1>1 DEF LayersOK
<1>3. Engine = merge_layers(input.layers) /\ ~MergeRaises(input.layers)
  BY DEF Engine, PolicyEngine
<1>4. Len(input.layers) \in Nat /\ DOMAIN input.layers = 1..Len(input.layers)
  BY <1>2, SequenceIs DEF WellFormed
<1> QED
  BY <1>1, <1>2, <1>3, <1>4

LEMMA PostureIs ==
  ASSUME NEW asked, NEW c \in CATEGORIES, asked # Unset
  PROVE  (FailurePosture(asked)[c] = "open")
           <=> ("open" = IF Has(asked, "mode") THEN asked.mode
                         ELSE IF Has(asked, c) THEN asked[c] ELSE Get(asked, "default", "closed"))
<1> DEFINE d == Get(asked, "default", "closed")
<1>1. FailurePosture(asked)[c] = IF Has(asked, "mode") THEN asked.mode ELSE Get(asked, c, d)
  BY DEF FailurePosture
<1> HIDE DEF d
<1>2. Get(asked, c, d) = IF Has(asked, c) THEN asked[c] ELSE d
  BY DEF Get
<1> QED
  BY <1>1, <1>2 DEF d

LEMMA LastSettingsHold == InputOK /\ OncePerLayer => SettingsOfTheLastLayer
<1> SUFFICES ASSUME InputOK, OncePerLayer, input.kind = "settings", Engine # PolicyError
             PROVE  SettingsOfTheLastLayer
  BY DEF SettingsOfTheLastLayer
<1> DEFINE layers == input.layers
           n == Len(layers)
           setters == {i \in DOMAIN layers : layers[i].on_failure # Unset}
           asked   == layers[Max(setters)].on_failure
           open(c) == /\ setters # {}
                      /\ "open" = IF Has(asked, "mode") THEN asked.mode
                                  ELSE IF Has(asked, c) THEN asked[c] ELSE Get(asked, "default", "closed")
           risky   == {i \in DOMAIN layers : layers[i].risk # Unset}
           weigh(e) == {i \in risky : e \in DOMAIN Get(layers[i].risk, "weights", <<>>)}
           events  == UNION {DOMAIN Get(layers[i].risk, "weights", <<>>) : i \in risky}
           weights == Get(Engine.risk, "weights", <<>>)
           all(f)  == UNION {_validate_str_list(layers[i][f]) : i \in DOMAIN layers}
           ruled   == {i \in DOMAIN layers : layers[i].sequence_rules # Unset}
<1>1. Layered
  BY DEF Layered
<1>2. /\ n \in Nat /\ DOMAIN layers = 1..n
      /\ SettingsAt(layers, Engine, n)
  BY <1>1, LayeredEngine, SettingsMerged
<1>3. Engine.taint_sources = all("taint_sources") /\ Engine.taint_sinks = all("taint_sinks")
  BY <1>2 DEF SettingsAt
<1>4. ToSet(Engine.sequence_rules) = UNION {ToSet(layers[i].sequence_rules) : i \in ruled}
  BY <1>2 DEF SettingsAt, Ruled
<1>5. ASSUME NEW c \in CATEGORIES PROVE (FailurePosture(Engine.on_failure)[c] = "open") = open(c)
  <2>1. Setters(layers, n) = setters
    BY <1>2 DEF Setters
  <2>2. Engine.on_failure = IF setters = {} THEN Unset ELSE asked
    BY <1>2, <2>1 DEF SettingsAt
  <2>3. CASE setters = {}
    <3>1. FailurePosture(Unset)[c] = "closed"
      BY DEF FailurePosture
    <3>2. ~(FailurePosture(Engine.on_failure)[c] = "open")
      BY <2>2, <2>3, <3>1
    <3>4. open(c) = FALSE
      BY <2>3
    <3> HIDE DEF open, layers
    <3> QED
      BY <3>2, <3>4
  <2>4. CASE setters # {}
    <3>1. setters \in SUBSET (1..n)
      BY <1>2
    <3>2. Max(setters) \in setters
      BY <1>2, <2>4, <3>1, MaxIn
    <3>3. asked # Unset
      BY <3>2
    <3>4. Engine.on_failure = asked
      BY <2>2, <2>4
    <3> HIDE DEF asked, setters
    <3>5. (FailurePosture(Engine.on_failure)[c] = "open") <=> open(c)
      BY <2>4, <3>3, <3>4, PostureIs
    <3>6. open(c) \in BOOLEAN
      OBVIOUS
    <3> HIDE DEF open
    <3> QED
      BY <3>5, <3>6
  <2> QED
    BY <2>3, <2>4
<1>6. Weighed(layers, n) = events
  BY <1>2 DEF Weighed, Weights
<1>7. DOMAIN weights = events
  BY <1>2, <1>6 DEF SettingsAt, Weights
<1>8. ASSUME NEW e \in events PROVE weights[e] = layers[Max(weigh(e))].risk.weights[e]
  <2>1. Weighers(layers, e, n) = weigh(e)
    BY <1>2 DEF Weighers, Weights
  <2>2. weights[e] = Get(layers[Max(weigh(e))].risk, "weights", <<>>)[e]
    <3>1. Weights(Engine.risk)[e] = Weights(layers[Max(Weighers(layers, e, n))].risk)[e]
      BY <1>2, <1>6 DEF SettingsAt
    <3> QED
      BY <2>1, <3>1 DEF Weights
  <2>3. weigh(e) \in SUBSET (1..n) /\ weigh(e) # {}
    BY <1>2
  <2>4. Max(weigh(e)) \in weigh(e)
    BY <1>2, <2>3, MaxIn
  <2> DEFINE risk == layers[Max(weigh(e))].risk
  <2>5. e \in DOMAIN Get(risk, "weights", <<>>)
    BY <2>4
  <2> HIDE DEF risk
  <2>6. Get(risk, "weights", <<>>) = risk.weights
    BY <2>5, NoRoles DEF Get
  <2> QED
    BY <2>2, <2>6 DEF risk
<1> HIDE DEF layers
<1> QED
  BY <1>3, <1>4, <1>5, <1>7, <1>8 DEF SettingsOfTheLastLayer, layers

LEMMA LastWritersWin == InputOK /\ OncePerLayer => LastWriterWins
<1> SUFFICES ASSUME InputOK, OncePerLayer, Layered, Engine # PolicyError, NEW p \in DOMAIN Engine.rules
             PROVE  LET shapers == Shapers(p)
                        merged  == Engine.rules[p]
                        naming(f) == [i \in {j \in DOMAIN shapers : Has(shapers[j], f)} |-> shapers[i][f]]
                        overlays(r) == [i \in {j \in DOMAIN shapers : r \in DOMAIN RolesIn(shapers[j])}
                                          |-> shapers[i].roles[r]]
                    IN /\ \A f \in OVERLAY_FIELDS :
                            IF DOMAIN naming(f) = {} THEN ~Has(merged, f)
                            ELSE Has(merged, f) /\ merged[f] = LastToSay(naming(f))
                       /\ \A r \in Roles :
                            IF DOMAIN overlays(r) = {} THEN r \notin DOMAIN RolesIn(merged)
                            ELSE merged.roles[r] = LastToSay(overlays(r))
  BY DEF LastWriterWins
<1> DEFINE layers == input.layers
           n == Len(layers)
           R == RuleIn(layers, p)
           W == SinceCut(layers, p, n)
           shapers == Shapers(p)
           merged == Engine.rules[p]
           naming(f) == [i \in {j \in DOMAIN shapers : Has(shapers[j], f)} |-> shapers[i][f]]
           overlays(r) == [i \in {j \in DOMAIN shapers : r \in DOMAIN RolesIn(shapers[j])}
                             |-> shapers[i].roles[r]]
<1>1. n \in Nat /\ DOMAIN layers = 1..n /\ RuleAt(layers, p, Engine, n)
  BY LayeredEngine, RuleMerged
<1>2. SaidBy(W, R, merged) /\ W \subseteq 1..n
  BY <1>1 DEF RuleAt, SinceCut, StatedIn
<1>3. DOMAIN shapers = W /\ \A i \in W : shapers[i] = R[i]
  <2> DEFINE at == {i \in DOMAIN layers : p \in Patterns(layers[i])}
             rule == [i \in at |-> (CHOOSE e \in ToSet(layers[i].tools) : e.pattern = p).rule]
             cut == Max({Min(at)} \cup {i \in at : Get(rule[i], "replace", FALSE)})
  <2>1. at = StatedIn(layers, p, n)
    BY <1>1 DEF StatedIn
  <2>2. \A i \in at : rule[i] = R[i]
    BY DEF RuleIn
  <2>3. {i \in at : Get(rule[i], "replace", FALSE)} = ReplacedIn(layers, p, n)
    BY <2>1, <2>2 DEF ReplacedIn
  <2>4. cut = CutAt(layers, p, n)
    BY <2>1, <2>3 DEF CutAt
  <2>5. shapers = [i \in {j \in at : j >= cut} |-> rule[i]]
    BY DEF Shapers
  <2> HIDE DEF rule, cut, at, shapers, R
  <2>6. {j \in at : j >= cut} = W
    BY <2>1, <2>4 DEF SinceCut
  <2> QED
    BY <2>2, <2>5, <2>6
<1> HIDE DEF shapers, W, R, merged
<1>4. ASSUME NEW f \in OVERLAY_FIELDS
      PROVE  IF DOMAIN naming(f) = {} THEN ~Has(merged, f)
             ELSE Has(merged, f) /\ merged[f] = LastToSay(naming(f))
  <2>1. DOMAIN naming(f) = Naming(W, R, f)
    BY <1>3 DEF Naming
  <2>2. IF Naming(W, R, f) = {} THEN ~Has(merged, f)
        ELSE Has(merged, f) /\ merged[f] = R[Max(Naming(W, R, f))][f]
    BY <1>2 DEF SaidBy
  <2>3. ASSUME Naming(W, R, f) # {}
        PROVE  LastToSay(naming(f)) = R[Max(Naming(W, R, f))][f]
    <3> DEFINE top == Max(Naming(W, R, f))
    <3>1. Naming(W, R, f) \in SUBSET (1..n)
      BY <1>2 DEF Naming
    <3>2. top \in Naming(W, R, f)
      BY <1>1, <2>3, <3>1, MaxIn
    <3>3. LastToSay(naming(f)) = naming(f)[top]
      BY <2>1 DEF LastToSay
    <3> HIDE DEF top
    <3>4. top \in W /\ top \in {j \in DOMAIN shapers : Has(shapers[j], f)}
      BY <1>3, <3>2 DEF Naming
    <3>5. naming(f)[top] = R[top][f]
      BY <1>3, <3>4
    <3> QED
      BY <3>3, <3>5 DEF top
  <2> HIDE DEF naming
  <2> QED
    BY <2>1, <2>2, <2>3
<1>5. ASSUME NEW r \in Roles
      PROVE  IF DOMAIN overlays(r) = {} THEN r \notin DOMAIN RolesIn(merged)
             ELSE merged.roles[r] = LastToSay(overlays(r))
  <2>1. DOMAIN overlays(r) = Overlaying(W, R, r)
    BY <1>3 DEF Overlaying
  <2>2. IF Overlaying(W, R, r) = {} THEN r \notin DOMAIN RolesIn(merged)
        ELSE merged.roles[r] = R[Max(Overlaying(W, R, r))].roles[r]
    BY <1>2 DEF SaidBy
  <2>3. ASSUME Overlaying(W, R, r) # {}
        PROVE  LastToSay(overlays(r)) = R[Max(Overlaying(W, R, r))].roles[r]
    <3> DEFINE top == Max(Overlaying(W, R, r))
    <3>1. Overlaying(W, R, r) \in SUBSET (1..n)
      BY <1>2 DEF Overlaying
    <3>2. top \in Overlaying(W, R, r)
      BY <1>1, <2>3, <3>1, MaxIn
    <3>3. LastToSay(overlays(r)) = overlays(r)[top]
      BY <2>1 DEF LastToSay
    <3> HIDE DEF top
    <3>4. top \in W /\ top \in {j \in DOMAIN shapers : r \in DOMAIN RolesIn(shapers[j])}
      BY <1>3, <3>2 DEF Overlaying
    <3>5. overlays(r)[top] = R[top].roles[r]
      BY <1>3, <3>4
    <3> QED
      BY <3>3, <3>5 DEF top
  <2> HIDE DEF overlays
  <2> QED
    BY <2>1, <2>2, <2>3
<1> QED
  BY <1>4, <1>5 DEF shapers, merged

(* Layers win over earlier ones field by field in rules and as a whole in      *)
(* settings, for every number of layers and of rules in them (merge.py         *)
(* merge_layers).                                                              *)
THEOREM LaterLayersAlwaysWin == Spec => []LaterLayersWin
<1>1. Init => InputOK /\ OncePerLayer
  BY InputsStart, DistinctStart
<1>2. InputOK /\ OncePerLayer /\ [Next]_vars => (InputOK /\ OncePerLayer)'
  BY InputsStep, DistinctStep
<1>3. InputOK /\ OncePerLayer => LaterLayersWin
  BY LastSettingsHold, LastWritersWin DEF LaterLayersWin
<1> QED
  BY <1>1, <1>2, <1>3, PTL DEF Spec

\* A decision with a null action comes from the rule that decides, or from
\* what its overlay says to the role.
NullDecision(e, name, role) ==
  \E p \in DOMAIN e.rules :
    /\ evaluate(e, name, role).rule = p
    /\ \/ Null(e.rules[p], "action")
       \/ role \in DOMAIN RolesIn(e.rules[p]) /\ Null(e.rules[p].roles[role], "action")

LEMMA NullIsDecided ==
  ASSUME NEW e, SoundEngine(e), NEW name, NEW role,
         evaluate(e, name, role).action \notin ACTION_VOCABULARY
  PROVE  evaluate(e, name, role).action = Unset /\ NullDecision(e, name, role)
<1> DEFINE p == match(e.order, name)
           raw == e.rules[p]
           base == Without(raw, {"roles"})
           eff == for_role(_compile(raw), role)
<1>1. p = NoPattern \/ p \in DOMAIN e.rules
  BY MatchIsARule
<1>2. evaluate(e, name, role).action = Unset
  BY KnownDecision
<1>3. p # NoPattern
  <2>1. p = NoPattern => evaluate(e, name, role).action = e.default_action
    BY DEF evaluate
  <2>2. e.default_action \in ACTION_VOCABULARY
    BY DEF SoundEngine, Merged, ACTION_VOCABULARY
  <2> QED
    BY <2>1, <2>2
<1>4. evaluate(e, name, role).action = eff["action"] /\ evaluate(e, name, role).rule = p
  <2> HIDE DEF p
  <2>1. p = match(e.order, name)
    BY DEF p
  <2> QED
    BY <1>3, <2>1 DEF evaluate
<1>5. p \in DOMAIN e.rules /\ Has(raw, "action")
  BY <1>1, <1>3 DEF SoundEngine
<1> HIDE DEF p, raw
<1>6. Has(base, "action") /\ base["action"] = raw["action"]
  BY <1>5 DEF Without, Has
<1> HIDE DEF base
<1>7. eff = IF role \in DOMAIN RolesIn(raw) THEN Over(raw["roles"][role], base) ELSE base
  BY DEF for_role, _compile, base
<1>8. CASE role \notin DOMAIN RolesIn(raw)
  <2>1. Null(raw, "action")
    BY <1>2, <1>4, <1>5, <1>6, <1>7, <1>8 DEF Null
  <2> QED
    BY <1>2, <1>4, <1>5, <2>1 DEF NullDecision, raw
<1>9. CASE role \in DOMAIN RolesIn(raw)
  <2> DEFINE over == raw["roles"][role]
  <2> HIDE DEF over
  <2>1. eff = Over(over, base)
    BY <1>7, <1>9 DEF over
  <2>2. eff["action"] = IF Has(over, "action") THEN over["action"] ELSE base["action"]
    BY <1>6, <2>1 DEF Over, Has
  <2>3. Null(raw, "action") \/ Null(over, "action")
    BY <1>2, <1>4, <1>5, <1>6, <2>2 DEF Null
  <2> QED
    BY <1>2, <1>4, <1>5, <1>9, <2>3 DEF NullDecision, raw, over
<1> QED
  BY <1>8, <1>9

\* What a layer says of a pattern is written in one of its entries.
LEMMA StatedEntry ==
  ASSUME NEW layers, NEW p, NEW n, NEW i \in StatedIn(layers, p, n), i \in DOMAIN layers
  PROVE  \E e \in ToSet(layers[i].tools) : e.pattern = p /\ e.rule = RuleIn(layers, p)[i]
<1> DEFINE T == ToSet(layers[i].tools)
           e == CHOOSE x \in T : x.pattern = p
<1>1. \E x \in T : x.pattern = p
  BY DEF StatedIn, Patterns, ToSet
<1>2. RuleIn(layers, p)[i] = e.rule
  BY DEF RuleIn
<1> HIDE DEF T
<1>3. e \in T /\ e.pattern = p
  BY <1>1
<1> HIDE DEF e
<1> QED
  BY <1>2, <1>3 DEF T

LEMMA NullIsWritten ==
  ASSUME InputOK, OncePerLayer, Layered, Engine # PolicyError, NEW p \in DOMAIN Engine.rules, NEW role,
         \/ Null(Engine.rules[p], "action")
         \/ role \in DOMAIN RolesIn(Engine.rules[p]) /\ Null(Engine.rules[p].roles[role], "action")
  PROVE  WritesNull(p, role)
<1> DEFINE layers == input.layers
           n == Len(layers)
           R == RuleIn(layers, p)
           W == SinceCut(layers, p, n)
           raw == Engine.rules[p]
<1>1. n \in Nat /\ DOMAIN layers = 1..n /\ RuleAt(layers, p, Engine, n)
  BY LayeredEngine, RuleMerged
<1>2. SaidBy(W, R, raw) /\ W \subseteq StatedIn(layers, p, n) /\ W \subseteq 1..n
  BY <1>1 DEF RuleAt, SinceCut, StatedIn
<1>3. ASSUME NEW i \in W PROVE \E e \in ToSet(layers[i].tools) : e.pattern = p /\ e.rule = R[i]
  BY <1>1, <1>2, StatedEntry
<1> HIDE DEF W, R
<1>4. CASE Null(raw, "action")
  <2> DEFINE H == Naming(W, R, "action")
             top == Max(H)
  <2>1. Has(raw, "action") /\ raw["action"] = Unset /\ "action" \in OVERLAY_FIELDS
    BY <1>4 DEF Null, OVERLAY_FIELDS, RULE_FIELDS
  <2>2. H # {} /\ raw["action"] = R[top]["action"]
    BY <1>2, <2>1 DEF SaidBy
  <2>3. H \in SUBSET (1..n)
    BY <1>2 DEF Naming
  <2>4. top \in H
    BY <1>1, <2>2, <2>3, MaxIn
  <2> HIDE DEF top
  <2>5. top \in W /\ Null(R[top], "action") /\ top \in DOMAIN layers
    BY <1>1, <1>2, <2>1, <2>2, <2>4 DEF Naming, Null
  <2>6. PICK e \in ToSet(layers[top].tools) : e.pattern = p /\ e.rule = R[top]
    BY <1>3, <2>5
  <2> QED
    BY <2>5, <2>6 DEF WritesNull
<1>5. CASE role \in DOMAIN RolesIn(raw) /\ Null(raw["roles"][role], "action")
  <2> DEFINE H == Overlaying(W, R, role)
             top == Max(H)
  <2>1. H # {} /\ raw["roles"][role] = R[top]["roles"][role]
    BY <1>2, <1>5 DEF SaidBy
  <2>2. H \in SUBSET (1..n)
    BY <1>2 DEF Overlaying
  <2>3. top \in H
    BY <1>1, <2>1, <2>2, MaxIn
  <2> HIDE DEF top
  <2>4. /\ top \in W /\ top \in DOMAIN layers
        /\ role \in DOMAIN RolesIn(R[top]) /\ Null(R[top]["roles"][role], "action")
    BY <1>1, <1>2, <1>5, <2>1, <2>3 DEF Overlaying
  <2>5. PICK e \in ToSet(layers[top].tools) : e.pattern = p /\ e.rule = R[top]
    BY <1>3, <2>4
  <2> QED
    BY <2>4, <2>5 DEF WritesNull
<1> QED
  BY <1>4, <1>5

LEMMA KnownActionsOnly == InputOK /\ OncePerLayer => OnlyKnownActions
<1> SUFFICES ASSUME InputOK, OncePerLayer, Layered, Engine # PolicyError, NEW n \in Names, NEW r \in Views
             PROVE  LET d == evaluate(Engine, n, r) IN
                    \/ d.action \in ACTION_VOCABULARY
                    \/ /\ d.action = Unset /\ WritesNull(d.rule, r)
                       /\ Denier(Engine, [tool |-> n, role |-> r, argument |-> "good"]) # ""
  BY DEF OnlyKnownActions
<1> DEFINE e == Engine
           d == evaluate(e, n, r)
           case == [tool |-> n, role |-> r, argument |-> "good"]
<1>1. SoundEngine(e)
  BY EngineIsSound DEF InputOK, LayersOK, Engine
<1> HIDE DEF e
<1>2. ASSUME d.action \notin ACTION_VOCABULARY
      PROVE  d.action = Unset /\ WritesNull(d.rule, r) /\ Denier(e, case) # ""
  <2>1. d.action = Unset /\ NullDecision(e, n, r)
    BY <1>1, <1>2, NullIsDecided
  <2>2. PICK p \in DOMAIN e.rules :
          /\ d.rule = p
          /\ \/ Null(e.rules[p], "action")
             \/ r \in DOMAIN RolesIn(e.rules[p]) /\ Null(e.rules[p].roles[r], "action")
    BY <2>1 DEF NullDecision
  <2>3. WritesNull(p, r)
    BY <2>2, NullIsWritten DEF e
  <2>4. case.tool = n /\ case.role = r
    OBVIOUS
  <2> HIDE DEF case
  <2>5. Denier(e, case) # ""
    BY <2>1, <2>4 DEF Denier
  <2> QED
    BY <2>1, <2>2, <2>3, <2>5
<1> QED
  BY <1>2 DEF e

(* For any documents, patterns, roles and number of layers: an engine that   *)
(* loads decides every name, for every role, by the literal rule or by the   *)
(* matching glob that is most specific and, of equals, declared last; and    *)
(* with a known action, or else with a null one that some layer wrote for    *)
(* that very pattern and that no call passes (engine.py evaluate, matcher.py *)
(* match, merge.py, loader.py, pipeline.py ActionStage).                     *)
THEOREM NamesAreDecided == Spec => []EveryNameIsDecided
<1>1. Init => InputOK /\ OncePerLayer
  BY InputsStart, DistinctStart
<1>2. InputOK /\ OncePerLayer /\ [Next]_vars => (InputOK /\ OncePerLayer)'
  BY InputsStep, DistinctStep
<1>3. InputOK /\ OncePerLayer => EveryNameIsDecided
  BY MostSpecificDecides, KnownActionsOnly DEF EveryNameIsDecided
<1> QED
  BY <1>1, <1>2, <1>3, PTL DEF Spec

-----------------------------------------------------------------------------
(* Sorting.                                                                   *)

\* R is a strict total order of 1..n.
Orders(R, n) ==
  /\ \A i, j \in 1..n : i # j => <<i, j>> \in R \/ <<j, i>> \in R
  /\ \A i, j \in 1..n : ~(<<i, j>> \in R /\ <<j, i>> \in R)
  /\ \A i, j, k \in 1..n : <<i, j>> \in R /\ <<j, k>> \in R => <<i, k>> \in R

\* p lists 1..n in the order R.
Lists(p, R, n) ==
  /\ p \in [1..n -> 1..n]
  /\ \A i \in 1..n : \E k \in 1..n : p[k] = i
  /\ \A i, j \in 1..n : i < j => <<p[i], p[j]>> \in R

LEMMA InsertInOrder ==
  ASSUME NEW R, NEW n \in Nat \ {0}, Orders(R, n), NEW p, Lists(p, R, n - 1)
  PROVE  \E q : Lists(q, R, n)
<1> DEFINE m == n - 1
           A == {i \in 1..m : <<p[i], n>> \in R}
           c == IF A = {} THEN 0 ELSE Max(A)
           q == [i \in 1..n |-> IF i <= c THEN p[i] ELSE IF i = c + 1 THEN n ELSE p[i - 1]]
<1>1. /\ m \in Nat /\ n = m + 1 /\ n \in 1..n
      /\ \A i \in 1..m : p[i] \in 1..m /\ p[i] \in 1..n /\ p[i] # n
      /\ \A i \in 1..m : \E k \in 1..m : p[k] = i
      /\ \A i, j \in 1..m : i < j => <<p[i], p[j]>> \in R
  <2>1. m \in Nat /\ n = m + 1 /\ n \in 1..n /\ \A i \in 1..m : i \in 1..n /\ i # n
    OBVIOUS
  <2> HIDE DEF m
  <2>2. Lists(p, R, m)
    BY DEF m
  <2> QED
    BY <2>1, <2>2 DEF Lists
<1>2. c \in 0..m /\ \A i \in 1..m : i <= c <=> <<p[i], n>> \in R
  <2>1. CASE A = {}
    <3>1. c = 0
      BY <2>1
    <3> HIDE DEF c
    <3> QED
      BY <1>1, <2>1, <3>1
  <2>2. CASE A # {}
    <3>1. A \in SUBSET (1..m)
      OBVIOUS
    <3>2. c \in A /\ \A i \in A : i <= c
      BY <1>1, <2>2, <3>1, MaxIn
    <3> HIDE DEF c
    <3>3. c \in 1..m /\ <<p[c], n>> \in R
      BY <3>2
    <3>4. ASSUME NEW i \in 1..m, i <= c PROVE <<p[i], n>> \in R
      <4>1. CASE i = c
        BY <3>3, <4>1
      <4>2. CASE i # c
        <5>1. <<p[i], p[c]>> \in R
          BY <1>1, <3>3, <3>4, <4>2
        <5> QED
          BY <1>1, <3>3, <5>1 DEF Orders
      <4> QED
        BY <4>1, <4>2
    <3> HIDE DEF m
    <3> QED
      BY <1>1, <3>2, <3>3, <3>4
  <2> QED
    BY <2>1, <2>2
<1> HIDE DEF A, c
<1>3. ASSUME NEW i \in 1..m, i > c PROVE <<n, p[i]>> \in R
  <2>1. ~(i <= c)
    BY <1>1, <1>2, <1>3
  <2>2. <<p[i], n>> \notin R /\ p[i] \in 1..n /\ n \in 1..n /\ p[i] # n
    BY <1>1, <1>2, <2>1
  <2> QED
    BY <2>2 DEF Orders
<1>4. q \in [1..n -> 1..n]
  BY <1>1, <1>2
<1>5. /\ \A i \in 1..m : i <= c => q[i] = p[i] /\ i \in 1..n
      /\ \A i \in 1..m : i > c => q[i + 1] = p[i] /\ i + 1 \in 1..n
      /\ q[c + 1] = n /\ c + 1 \in 1..n
  BY <1>1, <1>2
<1>6. \A i \in 1..n : \E k \in 1..n : q[k] = i
  <2> SUFFICES ASSUME NEW i \in 1..n PROVE \E k \in 1..n : q[k] = i
    OBVIOUS
  <2> HIDE DEF q, m
  <2>1. CASE i = n
    BY <1>5, <2>1
  <2>2. CASE i # n
    <3>1. PICK k \in 1..m : p[k] = i
      BY <1>1, <2>2
    <3>2. k <= c \/ k > c
      BY <1>1, <1>2
    <3> QED
      BY <1>5, <3>1, <3>2
  <2> QED
    BY <2>1, <2>2
<1>7. ASSUME NEW i \in 1..n, NEW j \in 1..n, i < j PROVE <<q[i], q[j]>> \in R
  <2>1. CASE j <= c
    <3>1. i \in 1..m /\ j \in 1..m /\ q[i] = p[i] /\ q[j] = p[j]
      BY <1>1, <1>2, <1>7, <2>1
    <3> QED
      BY <1>1, <1>7, <3>1
  <2>2. CASE j = c + 1
    <3>1. i \in 1..m /\ i <= c /\ q[i] = p[i] /\ q[j] = n
      BY <1>1, <1>2, <1>7, <2>2
    <3> QED
      BY <1>2, <3>1
  <2>3. CASE j > c + 1
    <3>1. j - 1 \in 1..m /\ j - 1 > c /\ q[j] = p[j - 1]
      BY <1>1, <1>2, <2>3
    <3>2. CASE i <= c
      <4>1. i \in 1..m /\ i < j - 1 /\ q[i] = p[i]
        BY <1>1, <1>2, <2>3, <3>2
      <4> QED
        BY <1>1, <3>1, <4>1
    <3>3. CASE i = c + 1
      <4>1. q[i] = n
        BY <1>5, <3>3
      <4> QED
        BY <1>3, <3>1, <4>1
    <3>4. CASE i > c + 1
      <4>1. i - 1 \in 1..m /\ i - 1 < j - 1 /\ q[i] = p[i - 1]
        BY <1>1, <1>2, <1>7, <3>4
      <4> QED
        BY <1>1, <3>1, <4>1
    <3> QED
      BY <1>1, <1>2, <3>2, <3>3, <3>4
  <2> QED
    BY <1>1, <1>2, <2>1, <2>2, <2>3
<1> HIDE DEF q
<1>8. Lists(q, R, n)
  BY <1>4, <1>6, <1>7 DEF Lists
<1> QED
  BY <1>8

\* A strict total order of 1..n can be listed, so Sorted lists it.
LEMMA SortedLists ==
  ASSUME NEW n \in Nat, NEW R, Orders(R, n)
  PROVE  Lists(Sorted(n, R), R, n)
<1> DEFINE S == {k \in 0..n : \E p : Lists(p, R, k)}
<1>1. 0 \in S
  <2> DEFINE e == [i \in 1..0 |-> 0]
  <2>1. 1..0 = {} /\ e \in [1..0 -> 1..0]
    OBVIOUS
  <2> HIDE DEF e
  <2>2. Lists(e, R, 0)
    BY <2>1 DEF Lists
  <2> QED
    BY <2>2
<1>2. ASSUME NEW k \in 1..n, k - 1 \in S PROVE k \in S
  <2>1. PICK p : Lists(p, R, k - 1)
    BY <1>2
  <2>2. k \in Nat \ {0} /\ \A i : i \in 1..k => i \in 1..n
    OBVIOUS
  <2>3. Orders(R, k)
    BY <2>2 DEF Orders
  <2>4. \E q : Lists(q, R, k)
    BY <2>1, <2>2, <2>3, InsertInOrder
  <2> QED
    BY <2>4
<1> HIDE DEF S
<1>3. \A k \in 0..n : k \in S
  BY <1>1, <1>2, LoopInduction
<1>4. n \in S
  BY <1>3
<1>5. \E p \in [1..n -> 1..n] : Lists(p, R, n)
  BY <1>4 DEF S, Lists
<1> QED
  BY <1>5 DEF Sorted, Lists

-----------------------------------------------------------------------------
(* The loops of redaction.                                                    *)

\* The run of the loop that takes the spans.
WinnersRun(f, spans) ==
  /\ f[0] = <<>>
  /\ \A n \in 1..Len(spans) : f[n] = Take(f[n - 1], spans[Sorted(Len(spans), PriorityOrder(spans))[n]])
  /\ Winners(spans) = f[Len(spans)]

LEMMA WinnersRuns ==
  ASSUME NEW spans, Len(spans) \in Nat
  PROVE  \E f : WinnersRun(f, spans)
<1> DEFINE N == Len(spans)
           Step(x, n) == Take(x, spans[Sorted(Len(spans), PriorityOrder(spans))[n]])
           Loop(f, k) == f = [n \in 0..k |-> IF n = 0 THEN <<>> ELSE Step(f[n - 1], n)]
           S == {k \in 0..N : \E f : Loop(f, k)}
           f == CHOOSE g : Loop(g, N)
<1>1. Winners(spans) = f[N]
  BY DEF Winners
<1> HIDE DEF Step
<1>2. 0 \in S
  <2> DEFINE g == [n \in 0..0 |-> <<>>]
  <2>1. g = [n \in 0..0 |-> IF n = 0 THEN <<>> ELSE Step(g[n - 1], n)]
    OBVIOUS
  <2> HIDE DEF g
  <2> QED
    BY <2>1
<1>3. ASSUME NEW k \in 1..N, k - 1 \in S PROVE k \in S
  <2>1. PICK g : Loop(g, k - 1)
    BY <1>3
  <2> DEFINE h == [n \in 0..k |-> IF n = k THEN Step(g[k - 1], k) ELSE g[n]]
  <2>2. \A n \in 0..k - 1 : g[n] = IF n = 0 THEN <<>> ELSE Step(g[n - 1], n)
    BY <2>1
  <2>3. h = [n \in 0..k |-> h[n]] /\ h[k] = Step(g[k - 1], k) /\ \A n \in 0..k - 1 : h[n] = g[n]
    OBVIOUS
  <2> HIDE DEF h
  <2>4. \A n \in 0..k : h[n] = IF n = 0 THEN <<>> ELSE Step(h[n - 1], n)
    <3> SUFFICES ASSUME NEW n \in 0..k PROVE h[n] = IF n = 0 THEN <<>> ELSE Step(h[n - 1], n)
      OBVIOUS
    <3>1. CASE n = 0
      <4>1. 0 \in 0..k - 1
        OBVIOUS
      <4> QED
        BY <2>2, <2>3, <3>1, <4>1
    <3>2. CASE n # 0
      <4>1. n - 1 \in 0..k - 1 /\ (n = k \/ n \in 0..k - 1)
        BY <3>2
      <4>2. h[n - 1] = g[n - 1]
        BY <2>3, <4>1
      <4> QED
        BY <2>2, <2>3, <3>2, <4>1, <4>2
    <3> QED
      BY <3>1, <3>2
  <2>5. Loop(h, k)
    BY <2>3, <2>4
  <2> QED
    BY <2>5
<1>4. \A k \in 1..N : k - 1 \in S => k \in S
  BY <1>3
<1>5. N \in Nat
  OBVIOUS
<1> HIDE DEF S, N
<1>6. \A k \in 0..N : k \in S
  BY <1>2, <1>4, <1>5, LoopInduction
<1>7. N \in S
  BY <1>5, <1>6
<1>8. Loop(f, N)
  BY <1>7 DEF S
<1> HIDE DEF f
<1>9. f[0] = <<>> /\ \A n \in 1..N : f[n] = Step(f[n - 1], n)
  BY <1>5, <1>8
<1>10. WinnersRun(f, spans)
  BY <1>1, <1>9 DEF Step, N, WinnersRun
<1> QED
  BY <1>10

\* The run of the loop that replaces them.
RedactRun(f, t, chosen, profile) ==
  /\ f[0] = Text(t)
  /\ \A n \in 1..Len(ApplyOrder(chosen)) : f[n] = Splice(f[n - 1], ApplyOrder(chosen)[n], profile)
  /\ redact_text(t, chosen, profile) = f[Len(ApplyOrder(chosen))]

LEMMA RedactRuns ==
  ASSUME NEW t, NEW chosen, NEW profile, Len(ApplyOrder(chosen)) \in Nat
  PROVE  \E f : RedactRun(f, t, chosen, profile)
<1> DEFINE N == Len(ApplyOrder(chosen))
           Step(x, n) == Splice(x, ApplyOrder(chosen)[n], profile)
           Loop(f, k) == f = [n \in 0..k |-> IF n = 0 THEN Text(t) ELSE Step(f[n - 1], n)]
           S == {k \in 0..N : \E f : Loop(f, k)}
           f == CHOOSE g : Loop(g, N)
<1>1. redact_text(t, chosen, profile) = f[N]
  BY DEF redact_text
<1> HIDE DEF Step
<1>2. 0 \in S
  <2> DEFINE g == [n \in 0..0 |-> Text(t)]
  <2>1. g = [n \in 0..0 |-> IF n = 0 THEN Text(t) ELSE Step(g[n - 1], n)]
    OBVIOUS
  <2> HIDE DEF g
  <2> QED
    BY <2>1
<1>3. ASSUME NEW k \in 1..N, k - 1 \in S PROVE k \in S
  <2>1. PICK g : Loop(g, k - 1)
    BY <1>3
  <2> DEFINE h == [n \in 0..k |-> IF n = k THEN Step(g[k - 1], k) ELSE g[n]]
  <2>2. \A n \in 0..k - 1 : g[n] = IF n = 0 THEN Text(t) ELSE Step(g[n - 1], n)
    BY <2>1
  <2>3. h = [n \in 0..k |-> h[n]] /\ h[k] = Step(g[k - 1], k) /\ \A n \in 0..k - 1 : h[n] = g[n]
    OBVIOUS
  <2> HIDE DEF h
  <2>4. \A n \in 0..k : h[n] = IF n = 0 THEN Text(t) ELSE Step(h[n - 1], n)
    <3> SUFFICES ASSUME NEW n \in 0..k PROVE h[n] = IF n = 0 THEN Text(t) ELSE Step(h[n - 1], n)
      OBVIOUS
    <3>1. CASE n = 0
      <4>1. 0 \in 0..k - 1
        OBVIOUS
      <4> QED
        BY <2>2, <2>3, <3>1, <4>1
    <3>2. CASE n # 0
      <4>1. n - 1 \in 0..k - 1 /\ (n = k \/ n \in 0..k - 1)
        BY <3>2
      <4>2. h[n - 1] = g[n - 1]
        BY <2>3, <4>1
      <4> QED
        BY <2>2, <2>3, <3>2, <4>1, <4>2
    <3> QED
      BY <3>1, <3>2
  <2>5. Loop(h, k)
    BY <2>3, <2>4
  <2> QED
    BY <2>5
<1>4. \A k \in 1..N : k - 1 \in S => k \in S
  BY <1>3
<1>5. N \in Nat
  OBVIOUS
<1> HIDE DEF S, N
<1>6. \A k \in 0..N : k \in S
  BY <1>2, <1>4, <1>5, LoopInduction
<1>7. N \in S
  BY <1>5, <1>6
<1>8. Loop(f, N)
  BY <1>7 DEF S
<1> HIDE DEF f
<1>9. f[0] = Text(t) /\ \A n \in 1..N : f[n] = Step(f[n - 1], n)
  BY <1>5, <1>8
<1>10. RedactRun(f, t, chosen, profile)
  BY <1>1, <1>9 DEF Step, N, RedactRun
<1> QED
  BY <1>10

\* The run of the loop that keeps what reaches the floor.
KeptRun(f, found, denied, near, profile) ==
  /\ f[0] = <<>>
  /\ \A n \in 1..Len(found) : f[n] = Keep(f[n - 1], found[n], near, profile)
  /\ Qualified(found, denied, near, profile) = f[Len(found)] \o denied

LEMMA KeptRuns ==
  ASSUME NEW found, NEW denied, NEW near, NEW profile, Len(found) \in Nat
  PROVE  \E f : KeptRun(f, found, denied, near, profile)
<1> DEFINE N == Len(found)
           Step(x, n) == Keep(x, found[n], near, profile)
           Loop(f, k) == f = [n \in 0..k |-> IF n = 0 THEN <<>> ELSE Step(f[n - 1], n)]
           S == {k \in 0..N : \E f : Loop(f, k)}
           f == CHOOSE g : Loop(g, N)
<1>1. Qualified(found, denied, near, profile) = f[N] \o denied
  BY DEF Qualified
<1> HIDE DEF Step
<1>2. 0 \in S
  <2> DEFINE g == [n \in 0..0 |-> <<>>]
  <2>1. g = [n \in 0..0 |-> IF n = 0 THEN <<>> ELSE Step(g[n - 1], n)]
    OBVIOUS
  <2> HIDE DEF g
  <2> QED
    BY <2>1
<1>3. ASSUME NEW k \in 1..N, k - 1 \in S PROVE k \in S
  <2>1. PICK g : Loop(g, k - 1)
    BY <1>3
  <2> DEFINE h == [n \in 0..k |-> IF n = k THEN Step(g[k - 1], k) ELSE g[n]]
  <2>2. \A n \in 0..k - 1 : g[n] = IF n = 0 THEN <<>> ELSE Step(g[n - 1], n)
    BY <2>1
  <2>3. h = [n \in 0..k |-> h[n]] /\ h[k] = Step(g[k - 1], k) /\ \A n \in 0..k - 1 : h[n] = g[n]
    OBVIOUS
  <2> HIDE DEF h
  <2>4. \A n \in 0..k : h[n] = IF n = 0 THEN <<>> ELSE Step(h[n - 1], n)
    <3> SUFFICES ASSUME NEW n \in 0..k PROVE h[n] = IF n = 0 THEN <<>> ELSE Step(h[n - 1], n)
      OBVIOUS
    <3>1. CASE n = 0
      <4>1. 0 \in 0..k - 1
        OBVIOUS
      <4> QED
        BY <2>2, <2>3, <3>1, <4>1
    <3>2. CASE n # 0
      <4>1. n - 1 \in 0..k - 1 /\ (n = k \/ n \in 0..k - 1)
        BY <3>2
      <4>2. h[n - 1] = g[n - 1]
        BY <2>3, <4>1
      <4> QED
        BY <2>2, <2>3, <3>2, <4>1, <4>2
    <3> QED
      BY <3>1, <3>2
  <2>5. Loop(h, k)
    BY <2>3, <2>4
  <2> QED
    BY <2>5
<1>4. \A k \in 1..N : k - 1 \in S => k \in S
  BY <1>3
<1>5. N \in Nat
  OBVIOUS
<1> HIDE DEF S, N
<1>6. \A k \in 0..N : k \in S
  BY <1>2, <1>4, <1>5, LoopInduction
<1>7. N \in S
  BY <1>5, <1>6
<1>8. Loop(f, N)
  BY <1>7 DEF S
<1> HIDE DEF f
<1>9. f[0] = <<>> /\ \A n \in 1..N : f[n] = Step(f[n - 1], n)
  BY <1>5, <1>8
<1>10. KeptRun(f, found, denied, near, profile)
  BY <1>1, <1>9 DEF Step, N, KeptRun
<1> QED
  BY <1>10

-----------------------------------------------------------------------------
(* The spans that are acted on.                                               *)

SpanOK(s) ==
  /\ "confidence" \in DOMAIN s
  /\ s.start \in Nat /\ s.end \in Nat /\ s.confidence \in Nat
  /\ s.start < s.end /\ s.end <= TextLength

SpansOK(spans) == spans \in Seq(ToSet(spans)) /\ \A i \in DOMAIN spans : SpanOK(spans[i])

LEMMA SpansAppend ==
  ASSUME NEW spans, SpansOK(spans), NEW s, SpanOK(s)
  PROVE  SpansOK(Append(spans, s))
<1> DEFINE out == Append(spans, s)
<1>1. /\ out \in Seq(ToSet(out)) /\ DOMAIN out = DOMAIN spans \cup {Len(spans) + 1}
      /\ \A i \in DOMAIN spans : out[i] = spans[i]
      /\ out[Len(spans) + 1] = s
  BY AppendIs DEF SpansOK
<1> HIDE DEF out
<1>2. SpansOK(out)
  BY <1>1 DEF SpansOK
<1> QED
  BY <1>2 DEF out

LEMMA NoSpans == SpansOK(<<>>)
<1> DEFINE e == <<>>
<1>1. e = [i \in 1..0 |-> e[i]] /\ DOMAIN e = {}
  OBVIOUS
<1> HIDE DEF e
<1>2. e \in Seq(ToSet(e))
  BY <1>1, IsSequence
<1>3. SpansOK(e)
  BY <1>1, <1>2 DEF SpansOK
<1> QED
  BY <1>3 DEF e

LEMMA SmallerOf ==
  ASSUME NEW x \in Nat, NEW y \in Nat
  PROVE  Min({x, y}) = IF x <= y THEN x ELSE y
<1> DEFINE z == IF x <= y THEN x ELSE y
           H == {x, y}
<1>1. z \in H /\ (\A w \in H : z <= w) /\ H \subseteq Nat
  OBVIOUS
<1> HIDE DEF z, H
<1>2. Min(H) \in H /\ \A w \in H : Min(H) <= w
  BY <1>1 DEF Min
<1> DEFINE w == Min(H)
<1>3. w \in H /\ \A u \in H : w <= u
  BY <1>2
<1> HIDE DEF w
<1>4. w = z
  BY <1>1, <1>3
<1> QED
  BY <1>4 DEF w, z, H

LEMMA BoostedSpan ==
  ASSUME NEW s, SpanOK(s), NEW near
  PROVE  SpanOK(_apply_context_boost(s, near))
<1> DEFINE out == _apply_context_boost(s, near)
           lifted == Min({10, s.confidence + ContextBoost})
<1>1. lifted \in Nat
  <2>1. s.confidence + ContextBoost \in Nat
    BY SpansAssumption DEF SpanOK
  <2> QED
    BY <2>1, SmallerOf
<1>2. out = IF s.start \in near THEN [s EXCEPT !.confidence = lifted] ELSE s
  BY DEF _apply_context_boost
<1> HIDE DEF lifted, out
<1>3. SpanOK(out)
  BY <1>1, <1>2 DEF SpanOK
<1> QED
  BY <1>3 DEF out

LEMMA ClaimsAreSpans ==
  ASSUME NEW found, SpansOK(found), NEW denied, SpansOK(denied), NEW near, NEW profile
  PROVE  SpansOK(Qualified(found, denied, near, profile))
<1> DEFINE N == Len(found)
<1>1. N \in Nat /\ DOMAIN found = 1..N
  BY SequenceIs DEF SpansOK
<1>2. PICK f : KeptRun(f, found, denied, near, profile)
  BY <1>1, KeptRuns
<1>3. /\ f[0] = <<>>
      /\ \A n \in 1..N : f[n] = Keep(f[n - 1], found[n], near, profile)
      /\ Qualified(found, denied, near, profile) = f[N] \o denied
  BY <1>2 DEF KeptRun
<1> DEFINE S == {n \in 0..N : SpansOK(f[n])}
<1>4. 0 \in S
  BY <1>1, <1>3, NoSpans
<1>5. ASSUME NEW n \in 1..N, n - 1 \in S PROVE n \in S
  <2>1. SpansOK(f[n - 1]) /\ SpanOK(found[n])
    BY <1>1, <1>5 DEF SpansOK
  <2>2. SpanOK(_apply_context_boost(found[n], near))
    BY <2>1, BoostedSpan
  <2>3. SpansOK(Keep(f[n - 1], found[n], near, profile))
    BY <2>1, <2>2, SpansAppend DEF Keep
  <2> QED
    BY <1>3, <2>3
<1> HIDE DEF S, N
<1>6. \A n \in 0..N : n \in S
  BY <1>1, <1>4, <1>5, LoopInduction
<1>7. SpansOK(f[N])
  BY <1>1, <1>6 DEF S
<1> DEFINE g == f[N]
           out == g \o denied
<1>8. SpansOK(g)
  BY <1>7
<1> HIDE DEF g
<1>9. out \in Seq(ToSet(out)) /\ ToSet(out) = ToSet(g) \cup ToSet(denied)
  BY <1>8, ConcatIs DEF SpansOK
<1>10. \A s \in ToSet(g) \cup ToSet(denied) : SpanOK(s)
  BY <1>8 DEF SpansOK, ToSet
<1> HIDE DEF out
<1>11. \A i \in DOMAIN out : out[i] \in ToSet(out)
  BY DEF ToSet
<1>12. SpansOK(out)
  BY <1>9, <1>10, <1>11 DEF SpansOK
<1> QED
  BY <1>3, <1>12 DEF out, g

LEMMA PriorityIsAnOrder ==
  ASSUME NEW spans, SpansOK(spans)
  PROVE  Orders(PriorityOrder(spans), Len(spans))
<1> DEFINE n == Len(spans)
           R == PriorityOrder(spans)
<1>1. n \in Nat /\ DOMAIN spans = 1..n
  BY SequenceIs DEF SpansOK
<1>2. \A i, j \in 1..n : <<i, j>> \in R <=> Priority(spans, i, j)
  BY <1>1 DEF PriorityOrder
<1>3. \A i \in 1..n : /\ spans[i].confidence \in Nat /\ spans[i].start \in Nat
                      /\ Length(spans[i]) \in Int /\ i \in Nat
  BY <1>1 DEF SpansOK, SpanOK, Length
<1> DEFINE c(i) == spans[i].confidence
           l(i) == Length(spans[i])
           b(i) == spans[i].start
<1>4. \A i, j \in 1..n : Priority(spans, i, j) <=>
         \/ c(i) > c(j)
         \/ c(i) = c(j) /\ (l(i) > l(j) \/ (l(i) = l(j) /\ (b(i) < b(j) \/ (b(i) = b(j) /\ i < j))))
  BY DEF Priority
<1>5. \A i \in 1..n : c(i) \in Nat /\ b(i) \in Nat /\ l(i) \in Int /\ i \in Nat
  BY <1>3
<1> HIDE DEF R, n, c, l, b
<1>6. \A i, j \in 1..n : i # j => <<i, j>> \in R \/ <<j, i>> \in R
  BY <1>2, <1>4, <1>5
<1>7. ASSUME NEW i \in 1..n, NEW j \in 1..n, <<i, j>> \in R, <<j, i>> \in R PROVE FALSE
  <2>1. Priority(spans, i, j) /\ Priority(spans, j, i)
    BY <1>2, <1>7
  <2> QED
    BY <1>4, <1>5, <2>1
<1>8. ASSUME NEW i \in 1..n, NEW j \in 1..n, NEW k \in 1..n, <<i, j>> \in R, <<j, k>> \in R
      PROVE  <<i, k>> \in R
  <2>1. Priority(spans, i, j) /\ Priority(spans, j, k)
    BY <1>2, <1>8
  <2>2. Priority(spans, i, k)
    BY <1>4, <1>5, <2>1
  <2> QED
    BY <1>2, <2>2
<1>9. Orders(R, n)
  BY <1>6, <1>7, <1>8 DEF Orders
<1> QED
  BY <1>9 DEF R, n

Disjoint(spans) == \A i, j \in DOMAIN spans : i # j => ~Overlaps(spans[i], spans[j])

\* A claim is acted on, or overlaps one that is and is at least as certain.
Settled(s, won) ==
  \E i \in DOMAIN won : won[i] = s \/ (Overlaps(s, won[i]) /\ s.confidence <= won[i].confidence)

\* After the first n spans in the order p.
TakenAt(spans, p, won, n) ==
  /\ SpansOK(won) /\ Disjoint(won)
  /\ \A i \in DOMAIN won : \E j \in 1..n : won[i] = spans[p[j]]
  /\ \A j \in 1..n : Settled(spans[p[j]], won)

LEMMA TakeNext ==
  ASSUME NEW spans, SpansOK(spans), NEW p, Lists(p, PriorityOrder(spans), Len(spans)),
         NEW n \in 1..Len(spans), NEW won, TakenAt(spans, p, won, n - 1)
  PROVE  TakenAt(spans, p, Take(won, spans[p[n]]), n)
<1> DEFINE s == spans[p[n]]
           out == Take(won, s)
<1>1. Len(spans) \in Nat /\ DOMAIN spans = 1..Len(spans)
  BY SequenceIs DEF SpansOK
<1>2. /\ n \in Nat /\ n - 1 \in Nat /\ p[n] \in DOMAIN spans /\ n \in 1..n
      /\ \A j : j \in 1..n <=> j = n \/ j \in 1..n - 1
      /\ \A j \in 1..n - 1 : j \in 1..Len(spans) /\ j < n
  <2>1. p[n] \in DOMAIN spans
    BY <1>1 DEF Lists
  <2> HIDE DEF s, out
  <2>2. n \in Nat /\ n - 1 \in Nat /\ n \in 1..n
    BY <1>1
  <2>3. \A j : j \in 1..n <=> j = n \/ j \in 1..n - 1
    BY <2>2
  <2>4. \A j \in 1..n - 1 : j \in 1..Len(spans) /\ j < n
    BY <1>1
  <2> QED
    BY <2>1, <2>2, <2>3, <2>4
<1>3. SpanOK(s)
  BY <1>2 DEF SpansOK
<1>4. ASSUME NEW j \in 1..n - 1 PROVE s.confidence <= spans[p[j]].confidence /\ p[j] \in DOMAIN spans
  <2>1. <<p[j], p[n]>> \in PriorityOrder(spans) /\ p[j] \in DOMAIN spans
    BY <1>1, <1>2, <1>4 DEF Lists
  <2>2. Priority(spans, p[j], p[n])
    BY <2>1 DEF PriorityOrder
  <2>3. SpanOK(spans[p[j]])
    BY <2>1 DEF SpansOK
  <2>4. spans[p[j]].confidence > s.confidence \/ spans[p[j]].confidence = s.confidence
    BY <2>2 DEF Priority
  <2> QED
    BY <1>3, <2>1, <2>3, <2>4 DEF SpanOK
<1>5. /\ SpansOK(won) /\ Disjoint(won)
      /\ \A i \in DOMAIN won : \E j \in 1..n - 1 : won[i] = spans[p[j]]
      /\ \A j \in 1..n - 1 : Settled(spans[p[j]], won)
  BY DEF TakenAt
<1>6. CASE Blocked(s, won)
  <2>1. out = won
    BY <1>6 DEF Take
  <2>2. PICK i \in DOMAIN won : Overlaps(s, won[i])
    BY <1>6 DEF Blocked
  <2>3. PICK j \in 1..n - 1 : won[i] = spans[p[j]]
    BY <1>5
  <2>4. Settled(s, won)
    BY <1>4, <2>2, <2>3 DEF Settled
  <2>5. \A j1 \in 1..n : Settled(spans[p[j1]], won)
    BY <1>2, <1>5, <2>4
  <2>6. \A k \in DOMAIN won : \E j1 \in 1..n : won[k] = spans[p[j1]]
    BY <1>2, <1>5
  <2> HIDE DEF out, s
  <2>7. TakenAt(spans, p, won, n)
    BY <1>5, <2>5, <2>6 DEF TakenAt
  <2> QED
    BY <2>1, <2>7 DEF out, s
<1>7. CASE ~Blocked(s, won)
  <2>1. out = Append(won, s)
    BY <1>7 DEF Take
  <2> DEFINE m == Len(won) + 1
  <2>2. /\ DOMAIN out = DOMAIN won \cup {m}
        /\ \A i \in DOMAIN won : out[i] = won[i]
        /\ out[m] = s /\ m \notin DOMAIN won
    BY <1>5, <2>1, AppendIs DEF SpansOK
  <2>3. SpansOK(out)
    BY <1>3, <1>5, <2>1, SpansAppend
  <2> HIDE DEF m
  <2>4. \A i \in DOMAIN won : ~Overlaps(s, won[i]) /\ ~Overlaps(won[i], s)
    BY <1>7 DEF Blocked, Overlaps
  <2> HIDE DEF out, s
  <2>5. Disjoint(out)
    BY <1>5, <2>2, <2>4 DEF Disjoint
  <2>6. \A i \in DOMAIN out : \E j \in 1..n : out[i] = spans[p[j]]
    BY <1>2, <1>5, <2>2 DEF s
  <2>7. ASSUME NEW j \in 1..n - 1 PROVE Settled(spans[p[j]], out)
    <3>1. PICK i \in DOMAIN won : \/ won[i] = spans[p[j]]
                                  \/ Overlaps(spans[p[j]], won[i]) /\ spans[p[j]].confidence <= won[i].confidence
      BY <1>5 DEF Settled
    <3> QED
      BY <2>2, <3>1 DEF Settled
  <2>8. Settled(s, out)
    BY <2>2 DEF Settled
  <2>9. \A j \in 1..n : Settled(spans[p[j]], out)
    BY <1>2, <2>7, <2>8 DEF s
  <2>10. TakenAt(spans, p, out, n)
    BY <2>3, <2>5, <2>6, <2>9 DEF TakenAt
  <2> QED
    BY <2>10 DEF out, s
<1> QED
  BY <1>6, <1>7

LEMMA WinnersSettle ==
  ASSUME NEW spans, SpansOK(spans)
  PROVE  /\ SpansOK(Winners(spans)) /\ Disjoint(Winners(spans))
         /\ \A k \in DOMAIN spans : Settled(spans[k], Winners(spans))
<1> DEFINE N == Len(spans)
           R == PriorityOrder(spans)
           p == Sorted(N, R)
<1>1. N \in Nat /\ DOMAIN spans = 1..N
  BY SequenceIs DEF SpansOK
<1>2. Lists(p, R, N)
  BY <1>1, PriorityIsAnOrder, SortedLists
<1>3. PICK f : WinnersRun(f, spans)
  BY <1>1, WinnersRuns
<1>4. /\ f[0] = <<>>
      /\ \A n \in 1..N : f[n] = Take(f[n - 1], spans[p[n]])
      /\ Winners(spans) = f[N]
  BY <1>3 DEF WinnersRun
<1> HIDE DEF p
<1> DEFINE S == {n \in 0..N : TakenAt(spans, p, f[n], n)}
<1>5. 0 \in S
  <2> DEFINE e == <<>>
  <2>1. DOMAIN e = {} /\ 1..0 = {} /\ f[0] = e
    BY <1>4
  <2>2. SpansOK(e)
    BY NoSpans
  <2> HIDE DEF e
  <2>3. TakenAt(spans, p, f[0], 0)
    BY <2>1, <2>2 DEF TakenAt, Disjoint
  <2> QED
    BY <1>1, <2>3
<1>6. ASSUME NEW n \in 1..N, n - 1 \in S PROVE n \in S
  <2>1. TakenAt(spans, p, f[n - 1], n - 1)
    BY <1>6
  <2>2. TakenAt(spans, p, Take(f[n - 1], spans[p[n]]), n)
    BY <1>2, <2>1, TakeNext
  <2> QED
    BY <1>4, <2>2
<1> HIDE DEF S, N
<1>7. \A n \in 0..N : n \in S
  BY <1>1, <1>5, <1>6, LoopInduction
<1>8. TakenAt(spans, p, Winners(spans), N)
  BY <1>1, <1>4, <1>7 DEF S
<1>9. ASSUME NEW k \in DOMAIN spans PROVE Settled(spans[k], Winners(spans))
  <2>1. PICK j \in 1..N : p[j] = k
    BY <1>1, <1>2 DEF Lists
  <2> QED
    BY <1>8, <2>1 DEF TakenAt
<1> QED
  BY <1>8, <1>9 DEF TakenAt

LEMMA StartIsAnOrder ==
  ASSUME NEW won, SpansOK(won), Disjoint(won)
  PROVE  Orders(StartOrder(won), Len(won))
<1> DEFINE n == Len(won)
           R == StartOrder(won)
           b(i) == won[i].start
<1>1. n \in Nat /\ DOMAIN won = 1..n
  BY SequenceIs DEF SpansOK
<1>2. \A i, j \in 1..n : <<i, j>> \in R <=> b(i) < b(j)
  BY <1>1 DEF StartOrder, ByStart
<1>3. \A i \in 1..n : b(i) \in Nat
  BY <1>1 DEF SpansOK, SpanOK
<1>4. ASSUME NEW i \in 1..n, NEW j \in 1..n, i # j PROVE b(i) # b(j)
  <2>1. SpanOK(won[i]) /\ SpanOK(won[j]) /\ ~Overlaps(won[i], won[j])
    BY <1>1, <1>4 DEF SpansOK, Disjoint
  <2> QED
    BY <2>1 DEF SpanOK, Overlaps
<1> HIDE DEF R, n, b
<1>5. Orders(R, n)
  BY <1>2, <1>3, <1>4 DEF Orders
<1> QED
  BY <1>5 DEF R, n

\* The spans acted on: in the order of the text, apart, and every claim settled.
Resolved(spans, chosen) ==
  /\ SpansOK(chosen)
  /\ \A i, j \in DOMAIN chosen : i < j => chosen[i].end <= chosen[j].start
  /\ \A k \in DOMAIN spans : Settled(spans[k], chosen)

LEMMA ChosenAre ==
  ASSUME NEW spans, SpansOK(spans)
  PROVE  Resolved(spans, resolve_overlaps(spans))
<1> DEFINE won == Winners(spans)
           n == Len(won)
           p == Sorted(n, StartOrder(won))
           chosen == [i \in 1..n |-> won[p[i]]]
<1>1. SpansOK(won) /\ Disjoint(won) /\ \A k \in DOMAIN spans : Settled(spans[k], won)
  BY WinnersSettle
<1>2. resolve_overlaps(spans) = chosen
  BY DEF resolve_overlaps
<1> HIDE DEF won
<1>3. n \in Nat /\ DOMAIN won = 1..n
  BY <1>1, SequenceIs DEF SpansOK
<1>4. Lists(p, StartOrder(won), n)
  BY <1>1, <1>3, StartIsAnOrder, SortedLists
<1> HIDE DEF p
<1>5. /\ DOMAIN chosen = 1..n /\ chosen = [i \in 1..n |-> chosen[i]]
      /\ \A i \in 1..n : p[i] \in 1..n /\ chosen[i] = won[p[i]] /\ SpanOK(chosen[i])
  BY <1>1, <1>3, <1>4 DEF Lists, SpansOK
<1> HIDE DEF chosen, n
<1>6. chosen \in Seq(ToSet(chosen)) /\ Len(chosen) = n
  BY <1>3, <1>5, IsSequence
<1>7. SpansOK(chosen)
  BY <1>5, <1>6 DEF SpansOK
<1>8. ASSUME NEW i \in 1..n, NEW j \in 1..n, i < j PROVE chosen[i].end <= chosen[j].start
  <2>1. <<p[i], p[j]>> \in StartOrder(won)
    BY <1>4, <1>8 DEF Lists
  <2>2. chosen[i].start < chosen[j].start
    BY <1>5, <2>1 DEF StartOrder, ByStart
  <2>3. SpanOK(chosen[i]) /\ SpanOK(chosen[j])
    BY <1>5
  <2>4. p[i] # p[j]
    BY <1>5, <2>2, <2>3 DEF SpanOK
  <2>5. ~Overlaps(chosen[i], chosen[j])
    BY <1>1, <1>3, <1>5, <2>4 DEF Disjoint
  <2> QED
    BY <2>2, <2>3, <2>5 DEF Overlaps, SpanOK
<1>9. ASSUME NEW k \in DOMAIN spans PROVE Settled(spans[k], chosen)
  <2>1. PICK i \in 1..n : \/ won[i] = spans[k]
                          \/ Overlaps(spans[k], won[i]) /\ spans[k].confidence <= won[i].confidence
    BY <1>1, <1>3 DEF Settled
  <2>2. PICK j \in 1..n : p[j] = i
    BY <1>4 DEF Lists
  <2>3. j \in DOMAIN chosen /\ chosen[j] = won[i]
    BY <1>5, <2>2
  <2> QED
    BY <2>1, <2>3 DEF Settled
<1>10. Resolved(spans, chosen)
  BY <1>5, <1>7, <1>8, <1>9 DEF Resolved
<1> QED
  BY <1>2, <1>10

-----------------------------------------------------------------------------
(* The text that is left.                                                     *)

\* z is x followed by y.
Joined(x, y, z, T) ==
  /\ z \in Seq(T) /\ Len(z) = Len(x) + Len(y)
  /\ \A i \in 1..Len(x) : z[i] = x[i]
  /\ \A j \in 1..Len(y) : z[Len(x) + j] = y[j]

LEMMA JoinedIs ==
  ASSUME NEW T, NEW x \in Seq(T), NEW y \in Seq(T)
  PROVE  Joined(x, y, x \o y, T)
<1> DEFINE m == Len(x)
           n == Len(y)
<1>1. m \in Nat /\ n \in Nat
  OBVIOUS
<1>2. x \o y \in Seq(T) /\ Len(x \o y) = m + n
  OBVIOUS
<1>3. ASSUME NEW i \in 1..m PROVE (x \o y)[i] = x[i]
  BY <1>1
<1>4. ASSUME NEW j \in 1..n PROVE (x \o y)[m + j] = y[j]
  <2>1. m + j \in 1..m + n /\ ~(m + j <= m) /\ (m + j) - m = j
    BY <1>1
  <2>2. (x \o y)[m + j] = y[(m + j) - m]
    BY <1>1, <2>1
  <2> QED
    BY <2>1, <2>2
<1> QED
  BY <1>2, <1>3, <1>4 DEF Joined

\* r is the first a of out, then w, then what follows the first e of out.
Spliced(out, w, a, e, r, T) ==
  /\ r \in Seq(T) /\ Len(r) = a + Len(w) + (Len(out) - e)
  /\ \A i \in 1..a : r[i] = out[i]
  /\ \A j \in 1..Len(w) : r[a + j] = w[j]
  /\ \A j \in 1..Len(out) - e : r[a + Len(w) + j] = out[e + j]

LEMMA SpliceIs ==
  ASSUME NEW T, NEW out \in Seq(T), NEW w \in Seq(T), NEW a \in Nat, NEW e \in Nat,
         a <= e, e <= Len(out)
  PROVE  Spliced(out, w, a, e, SubSeq(out, 1, a) \o w \o SubSeq(out, e + 1, Len(out)), T)
<1> DEFINE x == SubSeq(out, 1, a)
           y == SubSeq(out, e + 1, Len(out))
           u == x \o w
           r == u \o y
           l == Len(out)
           n == Len(w)
<1>1. l \in Nat /\ n \in Nat /\ a <= l
  OBVIOUS
<1>2. x \in Seq(T) /\ Len(x) = a /\ \A i \in 1..a : x[i] = out[i]
  OBVIOUS
<1>3. y \in Seq(T) /\ Len(y) = l - e /\ \A j \in 1..l - e : y[j] = out[e + j]
  <2>1. \A i \in e + 1..l : out[i] \in T
    OBVIOUS
  <2>2. Len(y) = l - e
    BY <1>1
  <2>3. \A j \in 1..l - e : y[j] = out[e + j]
    BY <1>1
  <2>4. y \in Seq(T)
    BY <1>1, <2>1
  <2> QED
    BY <2>2, <2>3, <2>4
<1> HIDE DEF x, y
<1>4. u \in Seq(T) /\ Len(u) = a + n /\ (\A i \in 1..a : u[i] = x[i]) /\ \A j \in 1..n : u[a + j] = w[j]
  <2>1. Joined(x, w, x \o w, T)
    BY <1>2, JoinedIs
  <2>2. u = x \o w
    OBVIOUS
  <2> HIDE DEF u
  <2> QED
    BY <1>2, <2>1, <2>2 DEF Joined
<1> HIDE DEF u
<1>5. /\ r \in Seq(T) /\ Len(r) = a + n + (l - e)
      /\ \A i \in 1..a + n : r[i] = u[i]
      /\ \A j \in 1..l - e : r[a + n + j] = y[j]
  <2>1. Joined(u, y, u \o y, T)
    BY <1>3, <1>4, JoinedIs
  <2>2. r = u \o y
    OBVIOUS
  <2> HIDE DEF r, l, n
  <2> QED
    BY <1>3, <1>4, <2>1, <2>2 DEF Joined, l, n
<1>6. (\A i \in 1..a : i \in 1..a + n) /\ \A j \in 1..n : a + j \in 1..a + n
  BY <1>1
<1> HIDE DEF r, l, n
<1>7. /\ \A i \in 1..a : r[i] = out[i]
      /\ \A j \in 1..n : r[a + j] = w[j]
      /\ \A j \in 1..l - e : r[a + n + j] = out[e + j]
  BY <1>2, <1>3, <1>4, <1>5, <1>6
<1>8. Spliced(out, w, a, e, r, T)
  BY <1>5, <1>7 DEF Spliced, l, n
<1> QED
  BY <1>8 DEF r, u, x, y, l

Symbols == {Character(i) : i \in Nat} \cup {Mark}

\* How many characters of a span its replacement keeps.
KeptOf(s, profile) ==
  IF _operator_for(profile, s.entity) = "partial_mask" /\ Length(s) > 2 * KeepLast THEN KeepLast ELSE 0

Gone(s, profile) == Inside(s) \ ((s.end - KeptOf(s, profile))..(s.end - 1))

LEMMA ApplyIs ==
  ASSUME NEW s, SpanOK(s), NEW profile
  PROVE  LET w == apply(profile, s)
             q == KeptOf(s, profile)
         IN /\ q \in Nat /\ 2 * q < s.end - s.start
            /\ w \in Seq(Symbols) /\ Len(w) = 1 + q /\ w[1] = Mark
            /\ \A j \in 1..q : w[1 + j] = Character(s.end - q + j - 1)
<1> DEFINE w == apply(profile, s)
           q == KeptOf(s, profile)
           partial == _operator_for(profile, s.entity) = "partial_mask" /\ Length(s) > 2 * KeepLast
           kept == [i \in 1..KeepLast |-> Character(s.end - KeepLast + i - 1)]
           mark == <<Mark>>
<1>1. s.start \in Nat /\ s.end \in Nat /\ s.start < s.end /\ KeepLast \in Nat
  BY SpansAssumption DEF SpanOK
<1>2. w = IF partial THEN mark \o kept ELSE mark
  BY DEF apply
<1>3. q = IF partial THEN KeepLast ELSE 0
  BY DEF KeptOf
<1>4. Mark \in Symbols
  BY DEF Symbols
<1> HIDE DEF w, q
<1>5. mark \in Seq(Symbols) /\ Len(mark) = 1 /\ mark[1] = Mark
  BY <1>4
<1>6. CASE partial
  <2>1. s.end - s.start > 2 * KeepLast
    BY <1>6 DEF Length
  <2>2. \A i \in 1..KeepLast : s.end - KeepLast + i - 1 \in Nat
    BY <1>1, <2>1
  <2>3. \A i \in 1..KeepLast : Character(s.end - KeepLast + i - 1) \in Symbols
    BY <2>2 DEF Symbols
  <2>4. kept \in Seq(Symbols) /\ Len(kept) = KeepLast
    <3>1. kept \in [1..KeepLast -> Symbols]
      BY <2>3
    <3> HIDE DEF kept
    <3> QED
      BY <1>1, <3>1
  <2>5. \A j \in 1..KeepLast : kept[j] = Character(s.end - KeepLast + j - 1)
    OBVIOUS
  <2> HIDE DEF kept, mark
  <2>6. /\ mark \o kept \in Seq(Symbols) /\ Len(mark \o kept) = 1 + KeepLast
        /\ (mark \o kept)[1] = Mark
        /\ \A j \in 1..KeepLast : (mark \o kept)[1 + j] = kept[j]
    <3>1. Joined(mark, kept, mark \o kept, Symbols)
      BY <1>5, <2>4, JoinedIs
    <3>2. 1 \in 1..Len(mark)
      BY <1>5
    <3> QED
      BY <1>5, <2>4, <3>1, <3>2 DEF Joined
  <2> HIDE DEF partial
  <2>7. w = mark \o kept /\ q = KeepLast
    BY <1>2, <1>3, <1>6
  <2> QED
    BY <1>1, <2>1, <2>5, <2>6, <2>7 DEF w, q
<1>7. CASE ~partial
  <2> HIDE DEF partial
  <2>1. w = mark /\ q = 0
    BY <1>2, <1>3, <1>7
  <2> QED
    BY <1>1, <1>5, <2>1 DEF w, q
<1> QED
  BY <1>6, <1>7

CharsOf(out) == {i \in DOMAIN out : IsCharacter(out[i])}
OffsetsOf(out) == {out[i][2] : i \in CharsOf(out)}

\* out has its characters in order, all those from b on behind the first b, and
\* k marks.
TextOK(out, b, k) ==
  /\ out \in Seq(Symbols) /\ b \in Nat /\ b <= Len(out)
  /\ \A i \in 1..b : out[i] = Character(i - 1)
  /\ \A i \in CharsOf(out) : i > b => out[i][2] >= b
  /\ \A i, j \in CharsOf(out) : i < j => out[i][2] < out[j][2]
  /\ IsFiniteSet(DOMAIN out \ CharsOf(out)) /\ Cardinality(DOMAIN out \ CharsOf(out)) = k

LEMMA SymbolIs ==
  /\ \A i : IsCharacter(Character(i)) /\ Character(i)[2] = i
  /\ ~IsCharacter(Mark)
  /\ \A x \in Symbols : IsCharacter(x) => x = Character(x[2]) /\ x[2] \in Nat
BY DEF IsCharacter, Character, Mark, Symbols

LEMMA Shifted ==
  ASSUME NEW S \in SUBSET Nat, IsFiniteSet(S), NEW d \in Int, NEW x \in Int,
         \A i \in S : x # i + d
  PROVE  LET U == {x} \cup {i + d : i \in S} IN
         IsFiniteSet(U) /\ Cardinality(U) = Cardinality(S) + 1
<1> DEFINE V == {i + d : i \in S}
           f == [i \in S |-> i + d]
<1>1. f \in Bijection(S, V)
  BY DEF Bijection, Injection, Surjection, IsInjective
<1> HIDE DEF V, f
<1>2. ExistsBijection(S, V)
  BY <1>1 DEF ExistsBijection
<1>3. IsFiniteSet(V) /\ Cardinality(V) = Cardinality(S)
  BY <1>2, FS_Bijection
<1>4. x \notin V
  BY DEF V
<1>5. IsFiniteSet(V \cup {x}) /\ Cardinality(V \cup {x}) = Cardinality(V) + 1
  BY <1>3, <1>4, FS_AddElement
<1>6. {x} \cup V = V \cup {x}
  OBVIOUS
<1> QED
  BY <1>3, <1>5, <1>6 DEF V

LEMMA SpliceNext ==
  ASSUME NEW out, NEW b, NEW k \in Nat, TextOK(out, b, k), NEW s, SpanOK(s), s.end <= b, NEW profile
  PROVE  LET r == Splice(out, s, profile) IN
         /\ TextOK(r, s.start, k + 1)
         /\ OffsetsOf(r) = OffsetsOf(out) \ Gone(s, profile)
<1> DEFINE a == s.start
           e == s.end
           q == KeptOf(s, profile)
           w == apply(profile, s)
           l == Len(out)
           r == Splice(out, s, profile)
           d == a + 1 + q
<1>1. /\ out \in Seq(Symbols) /\ l \in Nat /\ DOMAIN out = 1..l /\ b \in Nat /\ b <= l
      /\ a \in Nat /\ e \in Nat /\ a < e /\ e <= b /\ e <= l
  BY DEF TextOK, SpanOK
<1>2. /\ q \in Nat /\ 2 * q < e - a
      /\ w \in Seq(Symbols) /\ Len(w) = 1 + q /\ w[1] = Mark
      /\ \A j \in 1..q : w[1 + j] = Character(e - q + j - 1)
  BY ApplyIs
<1>3. Min({a, l}) = a
  BY <1>1, SmallerOf
<1>4. r = SubSeq(out, 1, a) \o w \o SubSeq(out, e + 1, l)
  BY <1>3 DEF Splice
<1> HIDE DEF a, e, q, w, l, r
<1>5. /\ r \in Seq(Symbols) /\ Len(r) = a + Len(w) + (l - e)
      /\ \A i \in 1..a : r[i] = out[i]
      /\ \A j \in 1..Len(w) : r[a + j] = w[j]
      /\ \A j \in 1..l - e : r[a + Len(w) + j] = out[e + j]
  <2>1. e <= Len(out) /\ a <= e /\ l = Len(out)
    BY <1>1 DEF l
  <2>2. Spliced(out, w, a, e, SubSeq(out, 1, a) \o w \o SubSeq(out, e + 1, Len(out)), Symbols)
    BY <1>1, <1>2, <2>1, SpliceIs
  <2> QED
    BY <1>4, <2>1, <2>2 DEF Spliced
<1>6. d \in Nat /\ Len(r) = d + (l - e) /\ DOMAIN r = 1..d + (l - e) /\ q < e - a
  BY <1>1, <1>2, <1>5
<1>7. \A i \in 1..a : r[i] = Character(i - 1)
  BY <1>1, <1>5 DEF TextOK
<1>8. r[a + 1] = Mark
  BY <1>2, <1>5
<1>9. ASSUME NEW j \in 1..q PROVE r[a + 1 + j] = Character(e - q + j - 1)
  <2>1. 1 + j \in 1..Len(w) /\ a + (1 + j) = a + 1 + j
    BY <1>1, <1>2
  <2> QED
    BY <1>2, <1>5, <2>1
<1>10. ASSUME NEW j \in 1..l - e PROVE r[d + j] = out[e + j]
  <2>1. a + Len(w) + j = d + j
    BY <1>1, <1>2
  <2> QED
    BY <1>5, <2>1
<1> HIDE DEF d
<1>11. d = a + 1 + q
  BY DEF d
<1>12. /\ \A i \in CharsOf(out) : i > e => out[i][2] >= e
       /\ \A i \in 1..e : i \in CharsOf(out) /\ out[i][2] = i - 1
       /\ \A i \in CharsOf(out) : out[i][2] \in Nat /\ i \in 1..l
       /\ \A i, j \in CharsOf(out) : i < j => out[i][2] < out[j][2]
  <2>1. \A i \in 1..b : i \in CharsOf(out) /\ out[i][2] = i - 1
    BY <1>1, SymbolIs DEF TextOK, CharsOf
  <2>2. \A i \in CharsOf(out) : out[i][2] \in Nat /\ i \in 1..l
    <3>1. \A i \in 1..l : out[i] \in Symbols
      BY <1>1
    <3> QED
      BY <1>1, <3>1, SymbolIs DEF CharsOf
  <2>3. ASSUME NEW i \in CharsOf(out), i > e PROVE out[i][2] >= e
    <3>1. CASE i <= b
      <4>1. i \in 1..b
        BY <1>1, <2>2, <3>1
      <4>2. out[i][2] = i - 1 /\ i \in Nat
        BY <2>1, <4>1
      <4> QED
        BY <1>1, <2>3, <4>2
    <3>2. CASE i > b
      <4>1. out[i][2] >= b /\ out[i][2] \in Nat
        BY <2>2, <3>2 DEF TextOK
      <4> QED
        BY <1>1, <4>1
    <3> QED
      BY <1>1, <2>2, <3>1, <3>2
  <2>4. \A i \in 1..e : i \in 1..b
    BY <1>1
  <2> QED
    BY <2>1, <2>2, <2>3, <2>4 DEF TextOK
\* Where the positions of r come from.
<1>13. ASSUME NEW i \in DOMAIN r
       PROVE  \/ i \in 1..a
              \/ i = a + 1
              \/ \E j \in 1..q : i = a + 1 + j
              \/ \E j \in 1..l - e : i = d + j
  <2>1. CASE i > a + 1 /\ i <= d
    <3>1. i - (a + 1) \in 1..q /\ i = a + 1 + (i - (a + 1))
      BY <1>1, <1>2, <1>6, <1>11, <2>1
    <3> QED
      BY <3>1
  <2>2. CASE i > d
    <3>1. i - d \in 1..l - e /\ i = d + (i - d)
      BY <1>1, <1>6, <2>2
    <3> QED
      BY <3>1
  <2> QED
    BY <1>1, <1>6, <1>11, <2>1, <2>2
<1> DEFINE Old == {j \in 1..l - e : e + j \in CharsOf(out)}
\* The characters of r: the first a, the kept ones, and those behind the span.
<1>14. /\ \A i \in 1..a : i \in CharsOf(r) /\ r[i][2] = i - 1
       /\ a + 1 \notin CharsOf(r)
       /\ \A j \in 1..q : a + 1 + j \in CharsOf(r) /\ r[a + 1 + j][2] = e - q + j - 1
       /\ \A j \in 1..l - e : d + j \in CharsOf(r) <=> j \in Old
       /\ \A j \in Old : r[d + j][2] = out[e + j][2]
  <2>1. \A i \in 1..a : i \in DOMAIN r
    BY <1>1, <1>2, <1>6, <1>11
  <2>2. \A j \in 1..q : a + 1 + j \in DOMAIN r
    BY <1>1, <1>2, <1>6, <1>11
  <2>3. \A j \in 1..l - e : d + j \in DOMAIN r /\ e + j \in DOMAIN out
    BY <1>1, <1>6
  <2>4. \A i \in 1..a : i \in CharsOf(r) /\ r[i][2] = i - 1
    BY <1>7, <2>1, SymbolIs DEF CharsOf
  <2>5. a + 1 \notin CharsOf(r)
    BY <1>8, SymbolIs DEF CharsOf
  <2>6. \A j \in 1..q : a + 1 + j \in CharsOf(r) /\ r[a + 1 + j][2] = e - q + j - 1
    BY <1>9, <2>2, SymbolIs DEF CharsOf
  <2>7. \A j \in 1..l - e : d + j \in CharsOf(r) <=> j \in Old
    BY <1>10, <2>3 DEF CharsOf
  <2>8. \A j \in Old : r[d + j][2] = out[e + j][2]
    BY <1>10
  <2> QED
    BY <2>4, <2>5, <2>6, <2>7, <2>8
<1>15. \A j \in Old : /\ j \in Nat /\ e + j \in CharsOf(out) /\ out[e + j][2] \in Nat
                      /\ out[e + j][2] >= e
  <2>1. \A j \in Old : j \in Nat /\ e + j > e /\ e + j \in CharsOf(out)
    BY <1>1
  <2> HIDE DEF Old
  <2> QED
    BY <1>12, <2>1
<1>16. ASSUME NEW i \in CharsOf(r)
       PROVE  \/ i \in 1..a
              \/ \E j \in 1..q : i = a + 1 + j
              \/ \E j \in Old : i = d + j
  <2>1. i \in DOMAIN r
    BY DEF CharsOf
  <2>2. CASE i \in 1..a
    BY <2>2
  <2>3. CASE i = a + 1
    BY <1>14, <2>3
  <2>4. CASE \E j \in 1..q : i = a + 1 + j
    BY <2>4
  <2>5. CASE \E j \in 1..l - e : i = d + j
    BY <1>14, <2>5
  <2> QED
    BY <1>13, <2>1, <2>2, <2>3, <2>4, <2>5
<1> HIDE DEF Old
<1>17. ASSUME NEW i \in CharsOf(r), i > a PROVE r[i][2] >= a
  <2>1. CASE i \in 1..a
    BY <1>1, <1>17, <2>1
  <2>2. ASSUME NEW j \in 1..q, i = a + 1 + j PROVE r[i][2] >= a
    <3>1. r[i][2] = e - q + j - 1
      BY <1>14, <2>2
    <3> QED
      BY <1>1, <1>2, <1>6, <3>1
  <2>3. ASSUME NEW j \in Old, i = d + j PROVE r[i][2] >= a
    <3>1. r[i][2] = out[e + j][2]
      BY <1>14, <2>3
    <3>2. r[i][2] \in Nat /\ r[i][2] >= e
      BY <1>15, <3>1
    <3> QED
      BY <1>1, <3>2
  <2> QED
    BY <1>16, <2>1, <2>2, <2>3
<1>18. ASSUME NEW i \in CharsOf(r), NEW j \in CharsOf(r), i < j PROVE r[i][2] < r[j][2]
  <2>1. CASE j \in 1..a
    <3>1. i \in 1..a
      BY <1>1, <1>6, <1>18, <2>1 DEF CharsOf
    <3> QED
      BY <1>1, <1>14, <1>18, <2>1, <3>1
  <2>2. ASSUME NEW y \in 1..q, j = a + 1 + y PROVE r[i][2] < r[j][2]
    <3>1. r[j][2] = e - q + y - 1
      BY <1>14, <2>2
    <3>2. CASE i \in 1..a
      <4>1. r[i][2] = i - 1
        BY <1>14, <3>2
      <4> QED
        BY <1>1, <1>2, <1>6, <3>1, <3>2, <4>1
    <3>3. ASSUME NEW x \in 1..q, i = a + 1 + x PROVE r[i][2] < r[j][2]
      <4>1. r[i][2] = e - q + x - 1
        BY <1>14, <3>3
      <4>2. x < y
        BY <1>1, <1>2, <1>18, <2>2, <3>3
      <4> QED
        BY <1>1, <1>2, <3>1, <4>1, <4>2
    <3>4. ASSUME NEW x \in Old, i = d + x PROVE FALSE
      BY <1>1, <1>2, <1>11, <1>15, <1>18, <2>2, <3>4
    <3> QED
      BY <1>16, <3>2, <3>3, <3>4
  <2>3. ASSUME NEW y \in Old, j = d + y PROVE r[i][2] < r[j][2]
    <3>1. r[j][2] = out[e + y][2] /\ r[j][2] \in Nat /\ r[j][2] >= e /\ y \in Nat
      BY <1>14, <1>15, <2>3
    <3>2. CASE i \in 1..a
      <4>1. r[i][2] = i - 1
        BY <1>14, <3>2
      <4> QED
        BY <1>1, <3>1, <3>2, <4>1
    <3>3. ASSUME NEW x \in 1..q, i = a + 1 + x PROVE r[i][2] < r[j][2]
      <4>1. r[i][2] = e - q + x - 1
        BY <1>14, <3>3
      <4> QED
        BY <1>1, <1>2, <3>1, <4>1
    <3>4. ASSUME NEW x \in Old, i = d + x PROVE r[i][2] < r[j][2]
      <4>1. r[i][2] = out[e + x][2] /\ x \in Nat /\ e + x \in CharsOf(out)
        BY <1>14, <1>15, <3>4
      <4>2. e + x < e + y
        BY <1>1, <1>6, <1>18, <2>3, <3>1, <3>4, <4>1
      <4>3. e + y \in CharsOf(out)
        BY <1>15
      <4> QED
        BY <1>12, <3>1, <4>1, <4>2, <4>3
    <3> QED
      BY <1>16, <3>2, <3>3, <3>4
  <2> QED
    BY <1>16, <2>1, <2>2, <2>3
<1> DEFINE M == DOMAIN out \ CharsOf(out)
           h == d - e
           U == {a + 1} \cup {i + h : i \in M}
<1>19. \A i \in M : i \in Nat /\ i > e /\ i \in 1..l
  BY <1>1, <1>12
<1>20. DOMAIN r \ CharsOf(r) = U
  <2>1. ASSUME NEW i \in DOMAIN r \ CharsOf(r) PROVE i \in U
    <3>1. i \notin 1..a /\ ~\E j \in 1..q : i = a + 1 + j
      BY <1>14, <2>1
    <3>2. ASSUME NEW j \in 1..l - e, i = d + j PROVE i \in U
      <4>1. j \notin Old /\ e + j \in 1..l
        BY <1>1, <1>14, <2>1, <3>2
      <4>2. e + j \in M /\ i = (e + j) + h
        BY <1>1, <1>6, <3>2, <4>1 DEF Old
      <4> QED
        BY <4>2
    <3> QED
      BY <1>13, <2>1, <3>1, <3>2
  <2>2. a + 1 \in DOMAIN r \ CharsOf(r)
    BY <1>1, <1>2, <1>6, <1>11, <1>14
  <2>3. ASSUME NEW i \in M PROVE i + h \in DOMAIN r \ CharsOf(r)
    <3> DEFINE j == i - e
    <3>0. i \in Nat /\ i > e /\ i <= l /\ h = d - e
      BY <1>1, <1>19
    <3> HIDE DEF h, M, U
    <3>1. j \in 1..l - e /\ i = e + j /\ i + h = d + j
      BY <1>1, <1>6, <3>0
    <3> HIDE DEF j
    <3>2. j \notin Old
      BY <3>1 DEF Old, M
    <3>3. d + j \in DOMAIN r
      BY <1>1, <1>6, <3>1
    <3> QED
      BY <1>14, <3>1, <3>2, <3>3
  <2> QED
    BY <2>1, <2>2, <2>3
<1>21. IsFiniteSet(DOMAIN r \ CharsOf(r)) /\ Cardinality(DOMAIN r \ CharsOf(r)) = k + 1
  <2>1. M \in SUBSET Nat /\ IsFiniteSet(M) /\ Cardinality(M) = k
    BY <1>19 DEF TextOK
  <2>2. h \in Int /\ a + 1 \in Int /\ \A i \in M : a + 1 # i + h
    BY <1>1, <1>2, <1>6, <1>11, <1>19
  <2> HIDE DEF M, h
  <2>3. IsFiniteSet(U) /\ Cardinality(U) = Cardinality(M) + 1
    BY <2>1, <2>2, Shifted
  <2> HIDE DEF U
  <2> QED
    BY <1>20, <2>1, <2>3
<1>22. TextOK(r, a, k + 1)
  <2>1. a <= Len(r)
    BY <1>1, <1>2, <1>6, <1>11
  <2> QED
    BY <1>1, <1>5, <1>7, <1>17, <1>18, <1>21, <2>1 DEF TextOK
<1> DEFINE G == (a..(e - 1)) \ ((e - q)..(e - 1))
<1>23. Gone(s, profile) = G
  BY DEF Gone, Inside, a, e, q
<1>24. ASSUME NEW i \in CharsOf(r) PROVE r[i][2] \in OffsetsOf(out) \ G
  <2>1. CASE i \in 1..a
    <3>1. i \in CharsOf(out) /\ out[i][2] = i - 1 /\ r[i][2] = i - 1
      BY <1>1, <1>12, <1>14, <2>1
    <3>2. i - 1 \notin G
      BY <1>1, <2>1
    <3> QED
      BY <3>1, <3>2 DEF OffsetsOf
  <2>2. ASSUME NEW j \in 1..q, i = a + 1 + j PROVE r[i][2] \in OffsetsOf(out) \ G
    <3> DEFINE x == e - q + j
    <3>0. r[i][2] = e - q + j - 1
      BY <1>14, <2>2
    <3>1. x \in 1..e /\ r[i][2] = x - 1 /\ x - 1 \in (e - q)..(e - 1)
      BY <1>1, <1>2, <1>6, <3>0
    <3>2. x \in CharsOf(out) /\ out[x][2] = x - 1
      BY <1>12, <3>1
    <3> HIDE DEF x
    <3>3. r[i][2] \in OffsetsOf(out)
      BY <3>1, <3>2 DEF OffsetsOf
    <3> QED
      BY <3>1, <3>3
  <2>3. ASSUME NEW j \in Old, i = d + j PROVE r[i][2] \in OffsetsOf(out) \ G
    <3>1. r[i][2] = out[e + j][2] /\ e + j \in CharsOf(out) /\ r[i][2] \in Nat /\ r[i][2] >= e
      BY <1>14, <1>15, <2>3
    <3>2. r[i][2] \notin G
      BY <1>1, <3>1
    <3> QED
      BY <3>1, <3>2 DEF OffsetsOf
  <2> QED
    BY <1>16, <2>1, <2>2, <2>3
<1>25. ASSUME NEW x \in CharsOf(out), out[x][2] \notin G PROVE out[x][2] \in OffsetsOf(r)
  <2>1. x \in 1..l /\ out[x][2] \in Nat
    BY <1>12
  <2>2. CASE x <= e
    <3>1. out[x][2] = x - 1
      BY <1>1, <1>12, <2>1, <2>2
    <3>2. CASE x <= a
      <4>1. x \in CharsOf(r) /\ r[x][2] = x - 1
        BY <1>1, <1>14, <2>1, <3>2
      <4> QED
        BY <3>1, <4>1 DEF OffsetsOf
    <3>3. CASE x > a
      <4> DEFINE j == x - e + q
      <4>1. j \in 1..q /\ e - q + j - 1 = x - 1
        BY <1>1, <1>2, <1>25, <2>1, <2>2, <3>1, <3>3
      <4> HIDE DEF j
      <4>2. a + 1 + j \in CharsOf(r) /\ r[a + 1 + j][2] = x - 1
        BY <1>14, <4>1
      <4> QED
        BY <3>1, <4>2 DEF OffsetsOf
    <3> QED
      BY <1>1, <2>1, <3>2, <3>3
  <2>3. CASE x > e
    <3> DEFINE j == x - e
    <3>1. j \in 1..l - e /\ e + j = x
      BY <1>1, <2>1, <2>3
    <3> HIDE DEF j
    <3>2. j \in Old
      BY <3>1 DEF Old
    <3>3. d + j \in CharsOf(r) /\ r[d + j][2] = out[x][2]
      BY <1>14, <3>1, <3>2
    <3> QED
      BY <3>3 DEF OffsetsOf
  <2> QED
    BY <1>1, <2>1, <2>2, <2>3
<1>26. OffsetsOf(r) = OffsetsOf(out) \ G
  <2> HIDE DEF G
  <2>1. ASSUME NEW o \in OffsetsOf(r) PROVE o \in OffsetsOf(out) \ G
    <3>1. PICK i \in CharsOf(r) : o = r[i][2]
      BY DEF OffsetsOf
    <3> QED
      BY <1>24, <3>1
  <2>2. ASSUME NEW o \in OffsetsOf(out) \ G PROVE o \in OffsetsOf(r)
    <3>1. PICK x \in CharsOf(out) : o = out[x][2]
      BY DEF OffsetsOf
    <3> QED
      BY <1>25, <2>2, <3>1
  <2> QED
    BY <2>1, <2>2
<1> QED
  BY <1>22, <1>23, <1>26 DEF r, a

LEMMA TextIsWhole ==
  /\ TextOK(Text(TextLength), TextLength, 0)
  /\ \A o : o \in OffsetsOf(Text(TextLength)) <=> o \in 0..(TextLength - 1)
<1> DEFINE N == TextLength
           x == Text(N)
<1>1. N \in Nat
  BY SpansAssumption
<1>2. \A i \in 1..N : Character(i - 1) \in Symbols
  BY <1>1 DEF Symbols
<1>3. x \in [1..N -> Symbols] /\ \A i \in 1..N : x[i] = Character(i - 1)
  BY <1>2 DEF Text
<1> HIDE DEF x, N
<1>4. x \in Seq(Symbols) /\ Len(x) = N /\ DOMAIN x = 1..N
  BY <1>1, <1>3
<1>5. \A i \in 1..N : IsCharacter(x[i]) /\ x[i][2] = i - 1
  BY <1>3, SymbolIs
<1>6. CharsOf(x) = 1..N /\ DOMAIN x \ CharsOf(x) = {}
  BY <1>4, <1>5 DEF CharsOf
<1>7. IsFiniteSet(DOMAIN x \ CharsOf(x)) /\ Cardinality(DOMAIN x \ CharsOf(x)) = 0
  BY <1>6, FS_EmptySet
<1>8. \A i, j \in 1..N : i < j => x[i][2] < x[j][2]
  <2> SUFFICES ASSUME NEW i \in 1..N, NEW j \in 1..N, i < j PROVE x[i][2] < x[j][2]
    OBVIOUS
  <2>1. x[i][2] = i - 1 /\ x[j][2] = j - 1
    BY <1>5
  <2> QED
    BY <1>1, <2>1
<1>9. \A i \in 1..N : ~(i > N)
  BY <1>1
<1>10. N <= Len(x)
  BY <1>1, <1>4
<1>11. TextOK(x, N, 0)
  BY <1>1, <1>3, <1>4, <1>6, <1>7, <1>8, <1>9, <1>10 DEF TextOK
<1>12. ASSUME NEW o \in 0..(N - 1) PROVE o \in OffsetsOf(x)
  <2>1. o + 1 \in 1..N /\ (o + 1) - 1 = o
    BY <1>1
  <2>2. o + 1 \in CharsOf(x) /\ x[o + 1][2] = o
    BY <1>5, <1>6, <2>1
  <2> QED
    BY <2>2 DEF OffsetsOf
<1>13. ASSUME NEW o \in OffsetsOf(x) PROVE o \in 0..(N - 1)
  <2>1. PICK i \in CharsOf(x) : o = x[i][2]
    BY DEF OffsetsOf
  <2>2. i \in 1..N /\ o = i - 1
    BY <1>5, <1>6, <2>1
  <2> QED
    BY <1>1, <2>2
<1> QED
  BY <1>11, <1>12, <1>13 DEF x, N

\* After the last k of the spans have been replaced.
RedactedAt(out, chosen, profile, k) ==
  LET m == Len(chosen) IN
  /\ TextOK(out, IF k = 0 THEN TextLength ELSE chosen[m - k + 1].start, k)
  /\ \A o : o \in OffsetsOf(out) <=>
       o \in 0..(TextLength - 1) /\ \A i \in (m - k + 1)..m : o \notin Gone(chosen[i], profile)

LEMMA RedactNext ==
  ASSUME NEW chosen, SpansOK(chosen),
         \A i, j \in DOMAIN chosen : i < j => chosen[i].end <= chosen[j].start,
         NEW profile, NEW k \in 1..Len(chosen), NEW out, RedactedAt(out, chosen, profile, k - 1)
  PROVE  RedactedAt(Splice(out, chosen[Len(chosen) - k + 1], profile), chosen, profile, k)
<1> DEFINE m == Len(chosen)
           p == m - k + 1
           s == chosen[p]
           b == IF k - 1 = 0 THEN TextLength ELSE chosen[m - (k - 1) + 1].start
           r == Splice(out, s, profile)
<1>1. m \in Nat /\ DOMAIN chosen = 1..m
  BY SequenceIs DEF SpansOK
<1>2. /\ p \in 1..m /\ m - (k - 1) + 1 = p + 1 /\ k - 1 \in Nat /\ (k - 1) + 1 = k /\ k # 0
      /\ k - 1 # 0 => p + 1 \in 1..m
      /\ \A i : i \in p..m <=> i = p \/ i \in (p + 1)..m
  <2>1. k \in Nat /\ k >= 1 /\ k <= m
    BY <1>1
  <2>2. p \in 1..m /\ m - (k - 1) + 1 = p + 1 /\ k - 1 \in Nat /\ (k - 1) + 1 = k /\ k # 0
    BY <1>1, <2>1
  <2>3. k - 1 # 0 => p + 1 \in 1..m
    BY <1>1, <2>1
  <2> HIDE DEF p, m
  <2>4. \A i : i \in p..m <=> i = p \/ i \in (p + 1)..m
    BY <1>1, <2>2
  <2> QED
    BY <2>2, <2>3, <2>4
<1>3. /\ TextOK(out, b, k - 1)
      /\ \A o : o \in OffsetsOf(out) <=>
           o \in 0..(TextLength - 1) /\ \A i \in (p + 1)..m : o \notin Gone(chosen[i], profile)
  BY <1>2 DEF RedactedAt
<1>4. SpanOK(s)
  BY <1>1, <1>2 DEF SpansOK
<1>5. s.end <= b
  <2>1. CASE k - 1 = 0
    BY <1>4, <2>1 DEF SpanOK
  <2>2. CASE k - 1 # 0
    <3>1. p + 1 \in DOMAIN chosen /\ p \in DOMAIN chosen /\ p < p + 1 /\ b = chosen[p + 1].start
      BY <1>1, <1>2, <2>2
    <3> HIDE DEF b, p
    <3>2. chosen[p].end <= chosen[p + 1].start
      BY <3>1
    <3> QED
      BY <3>1, <3>2
  <2> QED
    BY <2>1, <2>2
<1> HIDE DEF b, s, r, p, m
<1>6. /\ TextOK(r, s.start, (k - 1) + 1)
      /\ OffsetsOf(r) = OffsetsOf(out) \ Gone(s, profile)
  BY <1>2, <1>3, <1>4, <1>5, SpliceNext DEF r
<1>7. \A o : o \in OffsetsOf(r) <=>
           o \in 0..(TextLength - 1) /\ \A i \in p..m : o \notin Gone(chosen[i], profile)
  BY <1>2, <1>3, <1>6 DEF s
<1>8. RedactedAt(r, chosen, profile, k)
  BY <1>2, <1>6, <1>7 DEF RedactedAt, s, p, m
<1> QED
  BY <1>8 DEF r, s, p, m

\* The text when every span has been replaced.
LEMMA RedactedTextIs ==
  ASSUME NEW chosen, SpansOK(chosen),
         \A i, j \in DOMAIN chosen : i < j => chosen[i].end <= chosen[j].start, NEW profile
  PROVE  RedactedAt(redact_text(TextLength, chosen, profile), chosen, profile, Len(chosen))
<1> DEFINE m == Len(chosen)
           back == ApplyOrder(chosen)
<1>1. m \in Nat /\ DOMAIN chosen = 1..m
  BY SequenceIs DEF SpansOK
<1>2. back = [i \in 1..m |-> chosen[m - i + 1]]
  BY DEF ApplyOrder, Reverse
<1>3. Len(back) = m /\ \A i \in 1..m : back[i] = chosen[m - i + 1]
  <2>1. DOMAIN back = 1..m /\ back = [i \in 1..m |-> back[i]]
    BY <1>2
  <2> HIDE DEF back, m
  <2>2. Len(back) = m
    BY <1>1, <2>1, IsSequence
  <2> QED
    BY <1>2, <2>2
<1>4. PICK f : RedactRun(f, TextLength, chosen, profile)
  <2>1. Len(ApplyOrder(chosen)) \in Nat
    BY <1>1, <1>3
  <2> QED
    BY <2>1, RedactRuns
<1>5. /\ f[0] = Text(TextLength)
      /\ \A k \in 1..m : f[k] = Splice(f[k - 1], chosen[m - k + 1], profile)
      /\ redact_text(TextLength, chosen, profile) = f[m]
  <2> HIDE DEF m
  <2> QED
    BY <1>3, <1>4 DEF RedactRun
<1> HIDE DEF back
<1> DEFINE S == {k \in 0..m : RedactedAt(f[k], chosen, profile, k)}
<1>6. 0 \in S
  <2>1. (m - 0 + 1)..m = {}
    BY <1>1
  <2> HIDE DEF m
  <2>2. RedactedAt(f[0], chosen, profile, 0)
    BY <1>5, <2>1, TextIsWhole DEF RedactedAt, m
  <2> QED
    BY <1>1, <2>2
<1>7. ASSUME NEW k \in 1..m, k - 1 \in S PROVE k \in S
  <2>1. RedactedAt(f[k - 1], chosen, profile, k - 1)
    BY <1>7
  <2>2. RedactedAt(Splice(f[k - 1], chosen[Len(chosen) - k + 1], profile), chosen, profile, k)
    BY <2>1, RedactNext
  <2> QED
    BY <1>5, <2>2
<1> HIDE DEF S, m
<1>8. \A k \in 0..m : k \in S
  BY <1>1, <1>6, <1>7, LoopInduction
<1>9. RedactedAt(f[m], chosen, profile, m)
  BY <1>1, <1>8 DEF S
<1> QED
  BY <1>5, <1>9 DEF m

\* What is left of the text is outside every span, or in a tail that is kept.
LEMMA TextLeft ==
  ASSUME input.kind = "text", SpansOK(input.found), SpansOK(input.denied)
  PROVE  /\ SpansOK(Claims) /\ SpansOK(Chosen)
         /\ \A k \in DOMAIN Claims : Settled(Claims[k], Chosen)
         /\ TextOK(Output, IF Len(Chosen) = 0 THEN TextLength ELSE Chosen[1].start, Len(Chosen))
         /\ \A o : o \in Offsets <=>
              o \in 0..(TextLength - 1) /\ \A i \in DOMAIN Chosen : o \notin Gone(Chosen[i], input.profile)
<1> DEFINE c == Chosen
           m == Len(c)
<1>1. SpansOK(Claims)
  BY ClaimsAreSpans DEF Claims
<1>2. /\ SpansOK(c)
      /\ \A i, j \in DOMAIN c : i < j => c[i].end <= c[j].start
      /\ \A k \in DOMAIN Claims : Settled(Claims[k], c)
  <2>1. Resolved(Claims, c)
    BY <1>1, ChosenAre DEF Chosen
  <2> QED
    BY <2>1 DEF Resolved
<1> HIDE DEF c
<1>3. RedactedAt(redact_text(TextLength, c, input.profile), c, input.profile, m)
  BY <1>2, RedactedTextIs
<1>4. m \in Nat /\ DOMAIN c = 1..m
  BY <1>2, SequenceIs DEF SpansOK
<1>5. m - m + 1 = 1
  BY <1>4
<1>6. Output = redact_text(TextLength, c, input.profile)
  BY DEF Output, c
<1>7. Offsets = OffsetsOf(Output)
  BY DEF Offsets, OffsetsOf, CharsOf
<1> HIDE DEF m
<1>8. /\ TextOK(Output, IF m = 0 THEN TextLength ELSE c[1].start, m)
      /\ \A o : o \in OffsetsOf(Output) <=>
           o \in 0..(TextLength - 1) /\ \A i \in 1..m : o \notin Gone(c[i], input.profile)
  BY <1>3, <1>5, <1>6 DEF RedactedAt, m
<1> QED
  BY <1>1, <1>2, <1>4, <1>7, <1>8 DEF c, m

LEMMA TailIs ==
  ASSUME NEW s, SpanOK(s), NEW profile
  PROVE  /\ KeptOf(s, profile) \in Nat /\ 2 * KeptOf(s, profile) < s.end - s.start
         /\ \A o \in Inside(s) : o \notin Gone(s, profile) <=>
                                   o \in (s.end - KeptOf(s, profile))..(s.end - 1)
         /\ s.start \in Inside(s) /\ s.start \in Gone(s, profile)
<1> DEFINE q == KeptOf(s, profile)
<1>1. q \in Nat /\ 2 * q < s.end - s.start
  BY ApplyIs
<1>2. s.start \in Nat /\ s.end \in Nat /\ s.start < s.end
  BY DEF SpanOK
<1> HIDE DEF q
<1>3. Gone(s, profile) = Inside(s) \ ((s.end - q)..(s.end - 1))
  BY DEF Gone, q
<1>4. s.start \in Inside(s) /\ s.start \notin (s.end - q)..(s.end - 1)
  BY <1>1, <1>2 DEF Inside
<1> QED
  BY <1>1, <1>3, <1>4 DEF q

LEMMA NoValueIsLeft ==
  ASSUME input.kind = "text", SpansOK(input.found), SpansOK(input.denied)
  PROVE  NoValueSurvivesWhole
<1> DEFINE profile == input.profile
<1>1. /\ SpansOK(Claims) /\ SpansOK(Chosen)
      /\ \A k \in DOMAIN Claims : Settled(Claims[k], Chosen)
  BY TextLeft
<1>2. \A o \in Offsets : \A i \in DOMAIN Chosen : o \notin Gone(Chosen[i], profile)
  BY TextLeft
<1> HIDE DEF profile
<1>3. ASSUME NEW i \in DOMAIN Chosen
      PROVE  2 * Cardinality(Inside(Chosen[i]) \cap Offsets) < Length(Chosen[i])
  <2> DEFINE s == Chosen[i]
             q == KeptOf(s, profile)
             tail == (s.end - q)..(s.end - 1)
             left == Inside(s) \cap Offsets
  <2>1. SpanOK(s)
    BY <1>1 DEF SpansOK
  <2>2. q \in Nat /\ 2 * q < s.end - s.start /\ s.end \in Nat /\ s.start \in Nat
    BY <2>1, TailIs DEF SpanOK
  <2>3. left \subseteq tail
    BY <1>2, <2>1, TailIs
  <2> HIDE DEF q, left
  <2>4. s.end - q \in Int /\ s.end - 1 \in Int
    BY <2>2
  <2>5. IsFiniteSet(tail) /\ Cardinality(tail) = q
    <3>1. /\ IsFiniteSet(tail)
          /\ Cardinality(tail) = IF s.end - q > s.end - 1 THEN 0 ELSE (s.end - 1) - (s.end - q) + 1
      BY <2>4, FS_Interval
    <3> QED
      BY <2>2, <3>1
  <2> HIDE DEF tail
  <2>6. Cardinality(left) <= q /\ Cardinality(left) \in Nat
    BY <2>3, <2>5, FS_Subset, FS_CardinalityType
  <2>7. Length(s) = s.end - s.start
    BY DEF Length
  <2> HIDE DEF s
  <2>8. 2 * Cardinality(left) < Length(s)
    BY <2>2, <2>6, <2>7
  <2> QED
    BY <2>8 DEF left, s
<1>4. ASSUME NEW k \in DOMAIN Claims, Inside(Claims[k]) \subseteq Offsets
      PROVE  InKeptTail(Claims[k])
  <2> DEFINE s == Claims[k]
  <2>1. SpanOK(s) /\ Settled(s, Chosen) /\ s.start \in Inside(s)
    BY <1>1, TailIs DEF SpansOK
  <2>2. ASSUME NEW i \in DOMAIN Chosen PROVE Chosen[i] # s
    <3>1. CASE Chosen[i] = s
      <4>1. s.start \in Offsets /\ s.start \in Gone(Chosen[i], profile)
        BY <1>4, <2>1, <3>1, TailIs
      <4> QED
        BY <1>2, <4>1
    <3> QED
      BY <3>1
  <2>3. PICK i \in DOMAIN Chosen : Overlaps(s, Chosen[i]) /\ s.confidence <= Chosen[i].confidence
    BY <2>1, <2>2 DEF Settled
  <2> DEFINE t == Chosen[i]
             q == KeptOf(t, profile)
  <2>4. SpanOK(t) /\ t.start \in Gone(t, profile) /\ q \in Nat
    BY <1>1, TailIs DEF SpansOK
  <2>5. /\ s.start \in Nat /\ s.end \in Nat /\ t.start \in Nat /\ t.end \in Nat
        /\ s.start < t.end /\ t.start < s.end
    BY <2>1, <2>3, <2>4 DEF SpanOK, Overlaps
  <2>6. t.start < s.start
    <3>1. CASE s.start <= t.start
      <4>1. t.start \in Inside(s)
        BY <2>5, <3>1 DEF Inside
      <4> QED
        BY <1>2, <1>4, <2>4, <4>1
    <3> QED
      BY <2>5, <3>1
  <2>7. s.start \in Inside(t) /\ s.start \in Offsets
    BY <1>4, <2>1, <2>5, <2>6 DEF Inside
  <2>8. s.start \in (t.end - q)..(t.end - 1)
    BY <1>2, <2>4, <2>7, TailIs
  <2>9. q # 0
    <3> HIDE DEF q, s, t
    <3> QED
      BY <2>5, <2>8
  <2>10. q = KeepLast /\ _operator_for(profile, t.entity) = "partial_mask"
    BY <2>9 DEF KeptOf
  <2>11. profile = "strict" /\ t.entity = "CREDIT_CARD"
    BY <2>10 DEF _operator_for
  <2> QED
    BY <2>2, <2>3, <2>8, <2>10, <2>11 DEF InKeptTail, profile
<1> QED
  BY <1>3, <1>4 DEF NoValueSurvivesWhole

LEMMA RestIsLeft ==
  ASSUME input.kind = "text", SpansOK(input.found), SpansOK(input.denied)
  PROVE  RestIsUntouched
<1> DEFINE m == Len(Chosen)
           covered == UNION {Inside(Chosen[i]) : i \in DOMAIN Chosen}
           b == IF m = 0 THEN TextLength ELSE Chosen[1].start
<1>1. TextOK(Output, b, m)
  BY TextLeft
<1>2. \A o \in 0..(TextLength - 1) :
        (\A i \in DOMAIN Chosen : o \notin Gone(Chosen[i], input.profile)) => o \in Offsets
  BY TextLeft
<1>3. (0..(TextLength - 1)) \ covered \subseteq Offsets
  <2>1. \A o \in (0..(TextLength - 1)) \ covered : \A i \in DOMAIN Chosen : o \notin Gone(Chosen[i], input.profile)
    BY DEF Gone
  <2> HIDE DEF covered
  <2> QED
    BY <1>2, <2>1
<1> HIDE DEF b, m
<1>4. /\ \A i, j \in CharsOf(Output) : i < j => Output[i][2] < Output[j][2]
      /\ Cardinality(DOMAIN Output \ CharsOf(Output)) = m
  BY <1>1 DEF TextOK
<1> HIDE DEF covered
<1> QED
  BY <1>3, <1>4 DEF RestIsUntouched, CharsOf, covered, m

\* A text's claims are spans, a payload is a JSON value.
ClaimsOK ==
  /\ input.kind = "text" => /\ {"found", "denied"} \subseteq DOMAIN input
                            /\ SpansOK(input.found) /\ SpansOK(input.denied)
  /\ input.kind = "json" => input.value \in JsonValues

LEMMA ClaimsStart == Init => ClaimsOK
<1> SUFFICES ASSUME Init PROVE ClaimsOK
  OBVIOUS
<1>1. ASSUME input.kind = "text"
      PROVE  {"found", "denied"} \subseteq DOMAIN input /\ SpansOK(input.found) /\ SpansOK(input.denied)
  <2>1. \E near, p : input = [kind |-> "text", found |-> <<>>, denied |-> <<>>, near |-> near, profile |-> p]
    BY <1>1 DEF Init
  <2>2. {"found", "denied"} \subseteq DOMAIN input /\ input.found = <<>> /\ input.denied = <<>>
    BY <2>1
  <2> QED
    BY <2>2, NoSpans
<1>2. ASSUME input.kind = "json" PROVE input.value \in JsonValues
  <2>1. PICK v \in JsonValues : input = [kind |-> "json", value |-> v]
    BY <1>2 DEF Init
  <2> QED
    BY <2>1
<1> QED
  BY <1>1, <1>2 DEF ClaimsOK

LEMMA ClaimsStep == InputOK /\ ClaimsOK /\ [Next]_vars => ClaimsOK'
<1> SUFFICES ASSUME InputOK, ClaimsOK, [Next]_vars PROVE ClaimsOK'
  OBVIOUS
<1>1. ASSUME NEW p \in PolicyPatterns, NEW rule \in PolicyRules, AddRule(p, rule)
      PROVE  ClaimsOK'
  <2>1. "kind" \in DOMAIN input /\ input.kind = "policy"
    BY <1>1 DEF AddRule, InputOK
  <2>2. input'.kind = "policy"
    BY <1>1, <2>1 DEF AddRule
  <2> QED
    BY <2>2 DEF ClaimsOK
<1>2. ASSUME AddLayer PROVE ClaimsOK'
  <2>1. "kind" \in DOMAIN input /\ input.kind = "policy"
    BY <1>2 DEF AddLayer, InputOK
  <2>2. input'.kind = "policy"
    BY <1>2, <2>1 DEF AddLayer
  <2> QED
    BY <2>2 DEF ClaimsOK
<1>3. ASSUME NEW s \in Settings, AddSettings(s) PROVE ClaimsOK'
  <2>1. "kind" \in DOMAIN input /\ input.kind = "settings"
    BY <1>3 DEF AddSettings, InputOK
  <2>2. input'.kind = "settings"
    BY <1>3, <2>1 DEF AddSettings
  <2> QED
    BY <2>2 DEF ClaimsOK
<1>4. ASSUME NEW side \in {"base", "head"}, NEW p \in DiffPatterns, NEW rule \in DiffRules,
             AddSideRule(side, p, rule)
      PROVE  ClaimsOK'
  <2>1. "kind" \in DOMAIN input /\ input.kind = "diff"
    BY <1>4 DEF AddSideRule, InputOK
  <2>2. input'.kind = "diff"
    BY <1>4, <2>1 DEF AddSideRule
  <2> QED
    BY <2>2 DEF ClaimsOK
<1>5. ASSUME NEW s \in Spans, AddSpan(s) PROVE ClaimsOK'
  <2> DEFINE found == Append(input.found, s)
             denied == Append(input.denied, s)
  <2>1. /\ "kind" \in DOMAIN input /\ input.kind = "text" /\ {"found", "denied"} \subseteq DOMAIN input
        /\ SpansOK(input.found) /\ SpansOK(input.denied)
    BY <1>5 DEF AddSpan, InputOK, ClaimsOK
  <2>2. SpanOK(s)
    BY SpansAssumption DEF SpanOK
  <2>3. SpansOK(found) /\ SpansOK(denied)
    BY <2>1, <2>2, SpansAppend
  <2>4. input' = [input EXCEPT !.denied = denied] \/ input' = [input EXCEPT !.found = found]
    BY <1>5 DEF AddSpan
  <2> HIDE DEF found, denied
  <2> QED
    BY <2>1, <2>3, <2>4 DEF ClaimsOK
<1>6. ASSUME NEW up \in Upstreams, AddUpstream(up) PROVE ClaimsOK'
  <2>1. "kind" \in DOMAIN input /\ input.kind = "central"
    BY <1>6 DEF AddUpstream, InputOK
  <2>2. input'.kind = "central"
    BY <1>6, <2>1 DEF AddUpstream
  <2> QED
    BY <2>2 DEF ClaimsOK
<1>7. CASE UNCHANGED vars
  BY <1>7 DEF vars, ClaimsOK
<1> QED
  BY <1>1, <1>2, <1>3, <1>4, <1>5, <1>6, <1>7 DEF Next

-----------------------------------------------------------------------------
(* The walk over a payload.                                                   *)

Parts(v) ==
  IF v.t = "list" THEN {v.items[i] : i \in DOMAIN v.items}
  ELSE IF v.t = "dict" THEN {v.fields[k] : k \in DOMAIN v.fields} ELSE {}

LEMMA WalkOfParts ==
  ASSUME NEW f, NEW g, NEW v, \A x \in Parts(v) : f[x] = g[x]
  PROVE  WalkOf(f, v) = WalkOf(g, v)
<1>1. CASE v.t = "list"
  <2>1. \A i \in DOMAIN v.items : f[v.items[i]] = g[v.items[i]]
    BY <1>1 DEF Parts
  <2>2. [i \in DOMAIN v.items |-> f[v.items[i]]] = [i \in DOMAIN v.items |-> g[v.items[i]]]
    BY <2>1
  <2>3. \A h : WalkOf(h, v) = [v EXCEPT !.items = [i \in DOMAIN v.items |-> h[v.items[i]]]]
    BY <1>1 DEF WalkOf
  <2> QED
    BY <2>2, <2>3
<1>2. CASE v.t = "dict"
  <2>1. \A k \in DOMAIN v.fields : f[v.fields[k]] = g[v.fields[k]]
    BY <1>2 DEF Parts
  <2>2. [k \in DOMAIN v.fields |-> _walk_field(k, v.fields[k], f[v.fields[k]])]
          = [k \in DOMAIN v.fields |-> _walk_field(k, v.fields[k], g[v.fields[k]])]
    BY <2>1
  <2>3. \A h : WalkOf(h, v) = [v EXCEPT !.fields = [k \in DOMAIN v.fields |->
                                                     _walk_field(k, v.fields[k], h[v.fields[k]])]]
    BY <1>2 DEF WalkOf
  <2> QED
    BY <2>2, <2>3
<1>3. CASE v.t # "list" /\ v.t # "dict"
  BY <1>3 DEF WalkOf
<1> QED
  BY <1>1, <1>2, <1>3

Shallower(n) == {v \in JsonValues : Depth[v] < n}

LEMMA LevelsAre ==
  /\ MaxDepth + 1 \in Nat
  /\ Shallower(MaxDepth + 1) = JsonValues
  /\ \A n \in 1..(MaxDepth + 1) : \A v \in Shallower(n) : Parts(v) \subseteq Shallower(n - 1)
  /\ Shallower(0) = {}
<1>1. MaxDepth \in Nat /\ \A v \in JsonValues : Depth[v] \in 0..MaxDepth
  BY JsonAssumption
<1>2. Shallower(MaxDepth + 1) = JsonValues /\ Shallower(0) = {}
  BY <1>1 DEF Shallower
<1>3. ASSUME NEW n \in 1..(MaxDepth + 1), NEW v \in Shallower(n), NEW x \in Parts(v)
      PROVE  x \in Shallower(n - 1)
  <2>1. v \in JsonValues /\ Depth[v] < n
    BY DEF Shallower
  <2>2. x \in JsonValues /\ Depth[x] < Depth[v]
    <3>1. CASE v.t = "list"
      <4>1. PICK i \in DOMAIN v.items : x = v.items[i]
        BY <3>1 DEF Parts
      <4> QED
        BY <2>1, <3>1, <4>1, JsonAssumption
    <3>2. CASE v.t = "dict"
      <4>1. PICK k \in DOMAIN v.fields : x = v.fields[k]
        BY <3>2 DEF Parts
      <4> QED
        BY <2>1, <3>2, <4>1, JsonAssumption
    <3> QED
      BY <3>1, <3>2 DEF Parts
  <2>3. Depth[x] \in Int /\ Depth[v] \in Int /\ n \in Int
    BY <1>1, <2>1, <2>2
  <2>4. Depth[x] < n - 1
    BY <2>1, <2>2, <2>3
  <2> QED
    BY <2>2, <2>4 DEF Shallower
<1> QED
  BY <1>1, <1>2, <1>3

LEMMA WalkIs == \A v \in JsonValues : _walk[v] = WalkOf(_walk, v)
<1> DEFINE M == MaxDepth + 1
           Loop(f, D) == f = [v \in D |-> WalkOf(f, v)]
           S == {n \in 0..M : \E f : Loop(f, Shallower(n))}
<1>1. M \in Nat
  BY LevelsAre
<1>2. _walk = CHOOSE f : Loop(f, JsonValues)
  BY DEF _walk
<1>3. 0 \in S
  <2> DEFINE E == Shallower(0)
             g == [v \in E |-> v]
  <2>1. E = {}
    BY LevelsAre
  <2>2. g = [v \in E |-> WalkOf(g, v)]
    BY <2>1
  <2>3. \E f : Loop(f, E)
    <3> HIDE DEF g, E
    <3> QED
      BY <2>2
  <2>4. 0 \in 0..M
    BY <1>1
  <2> QED
    BY <2>3, <2>4
<1>4. ASSUME NEW n \in 1..M, n - 1 \in S PROVE n \in S
  <2>1. PICK f : Loop(f, Shallower(n - 1))
    BY <1>4
  <2> DEFINE g == [v \in Shallower(n) |-> WalkOf(f, v)]
  <2>2. \A v \in Shallower(n - 1) : f[v] = WalkOf(f, v)
    BY <2>1
  <2>3. \A v \in Shallower(n) : g[v] = WalkOf(f, v)
    OBVIOUS
  <2>4. Shallower(n - 1) \subseteq Shallower(n)
    <3>1. n \in Int /\ \A v \in JsonValues : Depth[v] \in Int
      BY <1>1, JsonAssumption
    <3> QED
      BY <3>1 DEF Shallower
  <2>5. g = [v \in Shallower(n) |-> g[v]]
    OBVIOUS
  <2> HIDE DEF g
  <2>6. ASSUME NEW v \in Shallower(n) PROVE g[v] = WalkOf(g, v)
    <3>1. \A x \in Parts(v) : f[x] = g[x]
      BY <1>1, <2>2, <2>3, <2>4, LevelsAre
    <3>2. WalkOf(f, v) = WalkOf(g, v)
      BY <3>1, WalkOfParts
    <3> QED
      BY <2>3, <3>2
  <2>7. Loop(g, Shallower(n))
    BY <2>5, <2>6
  <2> QED
    BY <2>7
<1> HIDE DEF S, M
<1>5. \A n \in 0..M : n \in S
  BY <1>1, <1>3, <1>4, LoopInduction
<1>6. \E f : Loop(f, Shallower(M))
  BY <1>1, <1>5 DEF S
<1>7. Loop(_walk, JsonValues)
  BY <1>2, <1>6, LevelsAre DEF M
<1> QED
  BY <1>7

\* What _walk makes of each kind of value.
WalkedAs(v) ==
  /\ v.t = "str" => _walk[v] = IF v.c = "secret" THEN Redacted ELSE v
  /\ v.t = "list" => /\ _walk[v].t = "list" /\ DOMAIN _walk[v].items = DOMAIN v.items
                     /\ \A i \in DOMAIN v.items : _walk[v].items[i] = _walk[v.items[i]]
  /\ v.t = "dict" => /\ _walk[v].t = "dict" /\ DOMAIN _walk[v].fields = DOMAIN v.fields
                     /\ \A k \in DOMAIN v.fields :
                          _walk[v].fields[k] = _walk_field(k, v.fields[k], _walk[v.fields[k]])
  /\ v.t \notin {"str", "list", "dict"} => _walk[v] = v

LEMMA WalkedIs == ASSUME NEW v \in JsonValues PROVE WalkedAs(v)
<1>1. _walk[v] = WalkOf(_walk, v)
  BY WalkIs
<1>2. CASE v.t = "str"
  BY <1>1, <1>2 DEF WalkOf, WalkedAs
<1>3. CASE v.t = "list"
  <2> DEFINE w == [i \in DOMAIN v.items |-> _walk[v.items[i]]]
  <2>1. _walk[v] = [v EXCEPT !.items = w]
    BY <1>1, <1>3 DEF WalkOf
  <2>2. v = [t |-> "list", items |-> v.items]
    BY <1>3, JsonAssumption
  <2>3. DOMAIN w = DOMAIN v.items /\ \A i \in DOMAIN v.items : w[i] = _walk[v.items[i]]
    OBVIOUS
  <2> HIDE DEF w
  <2>4. _walk[v].t = "list" /\ _walk[v].items = w
    BY <2>1, <2>2
  <2> QED
    BY <1>3, <2>3, <2>4 DEF WalkedAs
<1>4. CASE v.t = "dict"
  <2> DEFINE w == [k \in DOMAIN v.fields |-> _walk_field(k, v.fields[k], _walk[v.fields[k]])]
  <2>1. _walk[v] = [v EXCEPT !.fields = w]
    BY <1>1, <1>4 DEF WalkOf
  <2>2. v = [t |-> "dict", fields |-> v.fields]
    BY <1>4, JsonAssumption
  <2>3. /\ DOMAIN w = DOMAIN v.fields
        /\ \A k \in DOMAIN v.fields : w[k] = _walk_field(k, v.fields[k], _walk[v.fields[k]])
    OBVIOUS
  <2> HIDE DEF w
  <2>4. _walk[v].t = "dict" /\ _walk[v].fields = w
    BY <2>1, <2>2
  <2> QED
    BY <1>4, <2>3, <2>4 DEF WalkedAs
<1>5. CASE v.t \notin {"str", "list", "dict"}
  BY <1>1, <1>5 DEF WalkOf, WalkedAs
<1> QED
  BY <1>2, <1>3, <1>4, <1>5

LEMMA StringsOfParts ==
  ASSUME NEW f, NEW g, NEW u, \A x \in Parts(u) : f[x] = g[x]
  PROVE  StringsOf(f, u) = StringsOf(g, u)
<1>1. CASE u.t = "list"
  <2>1. \A i \in DOMAIN u.items : f[u.items[i]] = g[u.items[i]]
    BY <1>1 DEF Parts
  <2>2. {Below("[]", f[u.items[i]]) : i \in DOMAIN u.items} = {Below("[]", g[u.items[i]]) : i \in DOMAIN u.items}
    BY <2>1
  <2>3. \A h : StringsOf(h, u) = UNION {Below("[]", h[u.items[i]]) : i \in DOMAIN u.items}
    BY <1>1 DEF StringsOf
  <2> QED
    BY <2>2, <2>3
<1>2. CASE u.t = "dict"
  <2>1. \A k \in DOMAIN u.fields : f[u.fields[k]] = g[u.fields[k]]
    BY <1>2 DEF Parts
  <2>2. {Below(k, f[u.fields[k]]) : k \in DOMAIN u.fields} = {Below(k, g[u.fields[k]]) : k \in DOMAIN u.fields}
    BY <2>1
  <2>3. \A h : StringsOf(h, u) = UNION {Below(k, h[u.fields[k]]) : k \in DOMAIN u.fields}
    BY <1>2 DEF StringsOf
  <2> QED
    BY <2>2, <2>3
<1>3. CASE u.t # "list" /\ u.t # "dict"
  BY <1>3 DEF StringsOf
<1> QED
  BY <1>1, <1>2, <1>3

\* The values of depth less than n, and what _walk makes of them.
Level(n) == Shallower(n) \cup {Redacted} \cup {_walk[v] : v \in Shallower(n)}

LEMMA PartsOfLevel ==
  ASSUME NEW n \in 1..(MaxDepth + 1), NEW u \in Level(n), NEW x \in Parts(u)
  PROVE  x \in Level(n - 1)
<1>1. CASE u \in Shallower(n)
  BY <1>1, LevelsAre DEF Level
<1>2. CASE u = Redacted
  BY <1>2 DEF Redacted, Parts
<1>3. ASSUME NEW v \in Shallower(n), u = _walk[v] PROVE x \in Level(n - 1)
  <2>1. v \in JsonValues /\ WalkedAs(v) /\ Parts(v) \subseteq Shallower(n - 1)
    BY LevelsAre, WalkedIs DEF Shallower
  <2>2. CASE v.t = "list"
    <3>1. u.t = "list" /\ DOMAIN u.items = DOMAIN v.items /\ \A i \in DOMAIN v.items : u.items[i] = _walk[v.items[i]]
      BY <1>3, <2>1, <2>2 DEF WalkedAs
    <3>2. PICK i \in DOMAIN v.items : x = _walk[v.items[i]]
      BY <3>1 DEF Parts
    <3>3. v.items[i] \in Shallower(n - 1)
      BY <2>1, <2>2 DEF Parts
    <3> QED
      BY <3>2, <3>3 DEF Level
  <2>3. CASE v.t = "dict"
    <3>1. /\ u.t = "dict" /\ DOMAIN u.fields = DOMAIN v.fields
          /\ \A k \in DOMAIN v.fields : u.fields[k] = _walk_field(k, v.fields[k], _walk[v.fields[k]])
      BY <1>3, <2>1, <2>3 DEF WalkedAs
    <3>2. PICK k \in DOMAIN v.fields : x = _walk_field(k, v.fields[k], _walk[v.fields[k]])
      BY <3>1 DEF Parts
    <3>3. v.fields[k] \in Shallower(n - 1)
      BY <2>1, <2>3 DEF Parts
    <3>4. x \in {v.fields[k], Redacted, _walk[v.fields[k]]}
      BY <3>2 DEF _walk_field
    <3> QED
      BY <3>3, <3>4 DEF Level
  <2>4. CASE v.t = "str"
    <3>1. u = Redacted \/ u = v
      BY <1>3, <2>1, <2>4 DEF WalkedAs
    <3> QED
      BY <2>4, <3>1 DEF Redacted, Parts
  <2>5. CASE v.t \notin {"str", "list", "dict"}
    <3>1. u = v
      BY <1>3, <2>1, <2>5 DEF WalkedAs
    <3> QED
      BY <2>5, <3>1 DEF Parts
  <2> QED
    BY <2>2, <2>3, <2>4, <2>5
<1> QED
  BY <1>1, <1>2, <1>3 DEF Level

LEMMA StringsIs == \A u \in JsonValues \cup Outputs : Strings[u] = StringsOf(Strings, u)
<1> DEFINE M == MaxDepth + 1
           Loop(f, D) == f = [u \in D |-> StringsOf(f, u)]
           S == {n \in 0..M : \E f : Loop(f, Level(n))}
<1>1. M \in Nat /\ Level(M) = JsonValues \cup Outputs
  BY LevelsAre DEF Level, Outputs
<1>2. Strings = CHOOSE f : Loop(f, JsonValues \cup Outputs)
  BY DEF Strings
<1>3. 0 \in S
  <2> DEFINE g == [u \in {Redacted} |-> {<<<<>>, u.c>>}]
  <2>1. g = [u \in {Redacted} |-> StringsOf(g, u)]
    BY DEF StringsOf, Redacted
  <2> HIDE DEF g
  <2>2. Level(0) = {Redacted}
    BY LevelsAre DEF Level
  <2> QED
    BY <1>1, <2>1, <2>2
<1>4. ASSUME NEW n \in 1..M, n - 1 \in S PROVE n \in S
  <2>1. PICK f : Loop(f, Level(n - 1))
    BY <1>4
  <2> DEFINE g == [u \in Level(n) |-> StringsOf(f, u)]
  <2>2. \A u \in Level(n - 1) : f[u] = StringsOf(f, u)
    BY <2>1
  <2>3. \A u \in Level(n) : g[u] = StringsOf(f, u)
    OBVIOUS
  <2>4. Level(n - 1) \subseteq Level(n)
    <3>1. n \in Int /\ \A v \in JsonValues : Depth[v] \in Int
      BY <1>1, JsonAssumption
    <3>2. Shallower(n - 1) \subseteq Shallower(n)
      BY <3>1 DEF Shallower
    <3> QED
      BY <3>2 DEF Level
  <2>5. g = [u \in Level(n) |-> g[u]]
    OBVIOUS
  <2> HIDE DEF g
  <2>6. ASSUME NEW u \in Level(n) PROVE g[u] = StringsOf(g, u)
    <3>1. \A x \in Parts(u) : f[x] = g[x]
      BY <1>1, <2>2, <2>3, <2>4, PartsOfLevel
    <3>2. StringsOf(f, u) = StringsOf(g, u)
      BY <3>1, StringsOfParts
    <3> QED
      BY <2>3, <3>2
  <2>7. Loop(g, Level(n))
    BY <2>5, <2>6
  <2> QED
    BY <2>7
<1> HIDE DEF S, M
<1>5. \A n \in 0..M : n \in S
  BY <1>1, <1>3, <1>4, LoopInduction
<1>6. \E f : Loop(f, Level(M))
  BY <1>1, <1>5 DEF S
<1>7. Loop(Strings, JsonValues \cup Outputs)
  BY <1>1, <1>2, <1>6
<1> QED
  BY <1>7

Keys == {"[]"} \cup UNION {DOMAIN v.fields : v \in JsonValues}

Excluded(path) == \E i \in DOMAIN path : path[i] \in ExcludedKeys

\* q is the path p below the key k.
PathBelow(k, p, q) ==
  /\ q \in Seq(Keys) /\ q # <<>>
  /\ Excluded(q) <=> k \in ExcludedKeys \/ Excluded(p)
  /\ Last(q) = IF p = <<>> THEN k ELSE Last(p)

LEMMA PathIs ==
  ASSUME NEW k \in Keys, NEW p \in Seq(Keys)
  PROVE  PathBelow(k, p, <<k>> \o p)
<1> DEFINE e == <<k>>
           q == e \o p
           n == Len(p)
<1>1. e \in Seq(Keys) /\ Len(e) = 1 /\ e[1] = k
  OBVIOUS
<1> HIDE DEF e
<1>2. Joined(e, p, q, Keys)
  BY <1>1, JoinedIs
<1> HIDE DEF q
<1>3. n \in Nat /\ DOMAIN p = 1..n /\ (p = <<>> <=> n = 0)
  OBVIOUS
<1>4. q \in Seq(Keys) /\ Len(q) = 1 + n /\ q[1] = k /\ \A j \in 1..n : q[1 + j] = p[j]
  <2>1. 1 \in 1..Len(e)
    BY <1>1
  <2> QED
    BY <1>1, <1>2, <2>1 DEF Joined
<1>5. DOMAIN q = 1..(1 + n) /\ q # <<>>
  BY <1>3, <1>4
<1>6. Excluded(q) <=> k \in ExcludedKeys \/ Excluded(p)
  <2>1. ASSUME NEW i \in DOMAIN q, q[i] \in ExcludedKeys PROVE k \in ExcludedKeys \/ Excluded(p)
    <3>1. CASE i = 1
      BY <1>4, <2>1, <3>1
    <3>2. CASE i # 1
      <4>1. i - 1 \in 1..n /\ 1 + (i - 1) = i
        BY <1>3, <1>5, <3>2
      <4>2. p[i - 1] = q[i]
        BY <1>4, <4>1
      <4> QED
        BY <1>3, <2>1, <4>1, <4>2 DEF Excluded
    <3> QED
      BY <3>1, <3>2
  <2>2. ASSUME k \in ExcludedKeys PROVE Excluded(q)
    <3>1. 1 \in DOMAIN q
      BY <1>3, <1>5
    <3> QED
      BY <1>4, <2>2, <3>1 DEF Excluded
  <2>3. ASSUME NEW i \in DOMAIN p, p[i] \in ExcludedKeys PROVE Excluded(q)
    <3>1. 1 + i \in DOMAIN q
      BY <1>3, <1>5
    <3> QED
      BY <1>3, <1>4, <2>3, <3>1 DEF Excluded
  <2> QED
    BY <2>1, <2>2, <2>3 DEF Excluded
<1>7. Last(q) = IF p = <<>> THEN k ELSE Last(p)
  <2>1. Last(q) = q[1 + n] /\ Last(p) = p[n]
    BY <1>4 DEF Last
  <2>2. CASE n = 0
    BY <1>3, <1>4, <2>1, <2>2
  <2>3. CASE n # 0
    <3>1. n \in 1..n
      BY <1>3, <2>3
    <3> QED
      BY <1>3, <1>4, <2>1, <2>3, <3>1
  <2> QED
    BY <2>2, <2>3
<1>8. PathBelow(k, p, q)
  BY <1>4, <1>5, <1>6, <1>7 DEF PathBelow
<1> QED
  BY <1>8 DEF q, e

\* A string at a path, not empty unless the value is a string.
PathsOK(v) ==
  \A s \in Strings[v] : s = <<s[1], s[2]>> /\ s[1] \in Seq(Keys) /\ (v.t # "str" => s[1] # <<>>)

LEMMA StringsAre ==
  ASSUME NEW v \in JsonValues \cup Outputs
  PROVE  /\ v.t = "str" => Strings[v] = {<<<<>>, v.c>>}
         /\ v.t = "list" => Strings[v] = UNION {Below("[]", Strings[v.items[i]]) : i \in DOMAIN v.items}
         /\ v.t = "dict" => Strings[v] = UNION {Below(k, Strings[v.fields[k]]) : k \in DOMAIN v.fields}
         /\ v.t \notin {"str", "list", "dict"} => Strings[v] = {}
<1>1. Strings[v] = StringsOf(Strings, v)
  BY StringsIs
<1>2. v.t = "str" => Strings[v] = {<<<<>>, v.c>>}
  BY <1>1 DEF StringsOf
<1>3. v.t = "list" => Strings[v] = UNION {Below("[]", Strings[v.items[i]]) : i \in DOMAIN v.items}
  BY <1>1 DEF StringsOf
<1>4. v.t = "dict" => Strings[v] = UNION {Below(k, Strings[v.fields[k]]) : k \in DOMAIN v.fields}
  BY <1>1 DEF StringsOf
<1>5. v.t \notin {"str", "list", "dict"} => Strings[v] = {}
  BY <1>1 DEF StringsOf
<1> QED
  BY <1>2, <1>3, <1>4, <1>5

LEMMA BelowIs ==
  ASSUME NEW k \in Keys, NEW x, PathsOK(x), NEW s \in Below(k, Strings[x])
  PROVE  s = <<s[1], s[2]>> /\ s[1] \in Seq(Keys) /\ s[1] # <<>>
<1>1. PICK r \in Strings[x] : s = <<<<k>> \o r[1], r[2]>>
  BY DEF Below
<1>2. r[1] \in Seq(Keys)
  BY DEF PathsOK
<1>3. PathBelow(k, r[1], <<k>> \o r[1])
  BY <1>2, PathIs
<1> DEFINE q == <<k>> \o r[1]
<1> HIDE DEF q
<1>4. s = <<q, r[2]>> /\ q \in Seq(Keys) /\ q # <<>>
  BY <1>1, <1>3 DEF PathBelow, q
<1> QED
  BY <1>4

LEMMA PathsAre == \A v \in JsonValues : PathsOK(v)
<1> DEFINE M == MaxDepth + 1
           S == {n \in 0..M : \A v \in Shallower(n) : PathsOK(v)}
<1>1. M \in Nat
  BY LevelsAre
<1>2. 0 \in S
  BY <1>1, LevelsAre
<1>3. ASSUME NEW n \in 1..M, n - 1 \in S PROVE n \in S
  <2>1. ASSUME NEW v \in Shallower(n) PROVE PathsOK(v)
    <3>1. v \in JsonValues /\ \A x \in Parts(v) : PathsOK(x)
      BY <1>3, LevelsAre DEF Shallower
    <3>2. CASE v.t = "str"
      <4> DEFINE e == <<>>
      <4>1. Strings[v] = {<<e, v.c>>}
        BY <3>1, <3>2, StringsAre
      <4>2. e \in Seq(Keys)
        OBVIOUS
      <4> HIDE DEF e
      <4>3. \A s \in Strings[v] : s = <<s[1], s[2]>> /\ s[1] \in Seq(Keys)
        BY <4>1, <4>2
      <4> QED
        BY <3>2, <4>3 DEF PathsOK
    <3>3. CASE v.t = "list"
      <4>1. Strings[v] = UNION {Below("[]", Strings[v.items[i]]) : i \in DOMAIN v.items}
        BY <3>1, <3>3, StringsAre
      <4>2. ASSUME NEW s \in Strings[v] PROVE s = <<s[1], s[2]>> /\ s[1] \in Seq(Keys) /\ s[1] # <<>>
        <5>1. PICK i \in DOMAIN v.items : s \in Below("[]", Strings[v.items[i]])
          BY <4>1
        <5>2. PathsOK(v.items[i]) /\ "[]" \in Keys
          BY <3>1, <3>3 DEF Parts, Keys
        <5> QED
          BY <5>1, <5>2, BelowIs
      <4> QED
        BY <4>2 DEF PathsOK
    <3>4. CASE v.t = "dict"
      <4>1. Strings[v] = UNION {Below(k, Strings[v.fields[k]]) : k \in DOMAIN v.fields}
        BY <3>1, <3>4, StringsAre
      <4>2. ASSUME NEW s \in Strings[v] PROVE s = <<s[1], s[2]>> /\ s[1] \in Seq(Keys) /\ s[1] # <<>>
        <5>1. PICK k \in DOMAIN v.fields : s \in Below(k, Strings[v.fields[k]])
          BY <4>1
        <5>2. PathsOK(v.fields[k]) /\ k \in Keys
          BY <3>1, <3>4 DEF Parts, Keys
        <5> QED
          BY <5>1, <5>2, BelowIs
      <4> QED
        BY <4>2 DEF PathsOK
    <3>5. CASE v.t \notin {"str", "list", "dict"}
      BY <3>1, <3>5, StringsAre DEF PathsOK
    <3> QED
      BY <3>2, <3>3, <3>4, <3>5
  <2> QED
    BY <2>1
<1> HIDE DEF S, M
<1>4. \A n \in 0..M : n \in S
  BY <1>1, <1>2, <1>3, LoopInduction
<1>5. \A v \in Shallower(M) : PathsOK(v)
  BY <1>1, <1>4 DEF S
<1> QED
  BY <1>5, LevelsAre DEF M

\* The content a string at a path is to have.
Content(path, c) ==
  IF Excluded(path) THEN c
  ELSE IF c = "secret" \/ (path # <<>> /\ Last(path) \in SensitiveKeys /\ c # "empty")
       THEN "redacted" ELSE c

\* The strings of w are those of v with the content they are to have.
Rewritten(strings, w) ==
  /\ \A s \in strings : <<s[1], Content(s[1], s[2])>> \in w
  /\ \A r \in w : \E s \in strings : r = <<s[1], Content(s[1], s[2])>>

\* A part x below the key k became y.
LEMMA RewrittenBelow ==
  ASSUME NEW k \in Keys, NEW x, PathsOK(x), NEW w,
         \A s \in Strings[x] : <<s[1], Content(<<k>> \o s[1], s[2])>> \in w,
         \A r \in w : \E s \in Strings[x] : r = <<s[1], Content(<<k>> \o s[1], s[2])>>
  PROVE  Rewritten(Below(k, Strings[x]), Below(k, w))
<1>1. ASSUME NEW s \in Below(k, Strings[x]) PROVE <<s[1], Content(s[1], s[2])>> \in Below(k, w)
  <2>1. PICK r \in Strings[x] : s = <<<<k>> \o r[1], r[2]>>
    BY DEF Below
  <2> DEFINE q == <<k>> \o r[1]
             c == Content(q, r[2])
  <2>2. <<r[1], c>> \in w
    OBVIOUS
  <2>3. <<q, c>> \in Below(k, w)
    <3>1. <<r[1], c>>[1] = r[1] /\ <<r[1], c>>[2] = c
      OBVIOUS
    <3> HIDE DEF c
    <3> QED
      BY <2>2, <3>1 DEF Below
  <2>4. s[1] = q /\ s[2] = r[2]
    BY <2>1
  <2> HIDE DEF q
  <2> QED
    BY <2>3, <2>4
<1>2. ASSUME NEW t \in Below(k, w)
      PROVE  \E s \in Below(k, Strings[x]) : t = <<s[1], Content(s[1], s[2])>>
  <2>1. PICK u \in w : t = <<<<k>> \o u[1], u[2]>>
    BY DEF Below
  <2>2. PICK r \in Strings[x] : u = <<r[1], Content(<<k>> \o r[1], r[2])>>
    OBVIOUS
  <2> DEFINE q == <<k>> \o r[1]
             c == Content(q, r[2])
             s == <<q, r[2]>>
  <2>3. u[1] = r[1] /\ u[2] = c
    BY <2>2
  <2>4. s \in Below(k, Strings[x])
    BY DEF Below
  <2>5. s[1] = q /\ s[2] = r[2]
    OBVIOUS
  <2>6. t = <<q, c>>
    BY <2>1, <2>3
  <2> HIDE DEF q, s
  <2>7. t = <<s[1], Content(s[1], s[2])>>
    BY <2>5, <2>6
  <2> QED
    BY <2>4, <2>7
<1> QED
  BY <1>1, <1>2 DEF Rewritten

\* Below a key that is neither excluded nor, at the end, sensitive nothing is
\* different.
LEMMA ContentBelow ==
  ASSUME NEW k \in Keys, NEW p \in Seq(Keys), NEW c
  PROVE  /\ k \in ExcludedKeys => Content(<<k>> \o p, c) = c
         /\ k \notin ExcludedKeys /\ (k \notin SensitiveKeys \/ p # <<>> \/ c = "empty") =>
              Content(<<k>> \o p, c) = Content(p, c)
<1> DEFINE q == <<k>> \o p
<1>1. PathBelow(k, p, q)
  BY PathIs
<1> HIDE DEF q
<1>2. /\ q # <<>> /\ (Excluded(q) <=> k \in ExcludedKeys \/ Excluded(p))
      /\ Last(q) = IF p = <<>> THEN k ELSE Last(p)
  BY <1>1 DEF PathBelow
<1>4. k \in ExcludedKeys => Content(q, c) = c
  BY <1>2 DEF Content
<1>5. ASSUME k \notin ExcludedKeys, k \notin SensitiveKeys \/ p # <<>> \/ c = "empty"
      PROVE  Content(q, c) = Content(p, c)
  BY <1>2, <1>5 DEF Content
<1> QED
  BY <1>4, <1>5 DEF q

\* The value of a sensitive key goes, unless it is empty.
LEMMA MaskedBelow ==
  ASSUME NEW k \in Keys, k \notin ExcludedKeys, k \in SensitiveKeys,
         NEW p \in Seq(Keys), p = <<>>, NEW c, c # "empty"
  PROVE  Content(<<k>> \o p, c) = "redacted"
<1> DEFINE q == <<k>> \o p
<1>1. PathBelow(k, p, q)
  BY PathIs
<1> HIDE DEF q
<1>2. ~Excluded(p)
  BY DEF Excluded
<1>3. ~Excluded(q) /\ q # <<>> /\ Last(q) = k
  BY <1>1, <1>2 DEF PathBelow
<1>4. Content(q, c) = "redacted"
  BY <1>3 DEF Content
<1> QED
  BY <1>4 DEF q

\* What a part became is the same whatever it is below, but for a sensitive key.
LEMMA SameBelow ==
  ASSUME NEW k \in Keys, k \notin ExcludedKeys, NEW x, PathsOK(x), NEW w, Rewritten(Strings[x], w),
         \A s \in Strings[x] : k \notin SensitiveKeys \/ s[1] # <<>> \/ s[2] = "empty"
  PROVE  Rewritten(Below(k, Strings[x]), Below(k, w))
<1>1. ASSUME NEW s \in Strings[x] PROVE Content(<<k>> \o s[1], s[2]) = Content(s[1], s[2])
  <2>1. s[1] \in Seq(Keys)
    BY DEF PathsOK
  <2> QED
    BY <2>1, ContentBelow
<1>2. \A s \in Strings[x] : <<s[1], Content(<<k>> \o s[1], s[2])>> \in w
  BY <1>1 DEF Rewritten
<1>3. \A r \in w : \E s \in Strings[x] : r = <<s[1], Content(<<k>> \o s[1], s[2])>>
  BY <1>1 DEF Rewritten
<1> QED
  BY <1>2, <1>3, RewrittenBelow

LEMMA FieldRewritten ==
  ASSUME NEW k \in Keys, NEW x \in JsonValues, Rewritten(Strings[x], Strings[_walk[x]])
  PROVE  Rewritten(Below(k, Strings[x]), Below(k, Strings[_walk_field(k, x, _walk[x])]))
<1> DEFINE y == _walk_field(k, x, _walk[x])
           empty == [t |-> "str", c |-> "empty"]
<1>1. PathsOK(x)
  BY PathsAre
<1>2. CASE k \in ExcludedKeys
  <2>1. y = x
    BY <1>2 DEF _walk_field
  <2>2. ASSUME NEW s \in Strings[x] PROVE s = <<s[1], Content(<<k>> \o s[1], s[2])>>
    <3>1. s = <<s[1], s[2]>> /\ s[1] \in Seq(Keys)
      BY <1>1 DEF PathsOK
    <3>2. Content(<<k>> \o s[1], s[2]) = s[2]
      BY <1>2, <3>1, ContentBelow
    <3> QED
      BY <3>1, <3>2
  <2>3. Rewritten(Below(k, Strings[x]), Below(k, Strings[x]))
    BY <1>1, <2>2, RewrittenBelow
  <2> QED
    BY <2>1, <2>3
<1>3. CASE k \notin ExcludedKeys /\ k \in SensitiveKeys /\ x.t = "str" /\ x # empty
  <2> DEFINE e == <<>>
             w == Strings[Redacted]
  <2>1. y = Redacted
    BY <1>3 DEF _walk_field
  <2>2. Redacted \in Outputs /\ Redacted.t = "str" /\ Redacted.c = "redacted"
    BY DEF Outputs, Redacted
  <2>3. w = {<<e, "redacted">>}
    BY <2>2, StringsAre
  <2>4. Strings[x] = {<<e, x.c>>}
    BY <1>3, StringsAre
  <2>5. x.c # "empty"
    BY <1>3, JsonAssumption
  <2>6. Content(<<k>> \o e, x.c) = "redacted"
    <3> DEFINE c == x.c
    <3>1. e \in Seq(Keys) /\ e = <<>> /\ c # "empty"
      BY <2>5
    <3> HIDE DEF e, c
    <3>2. Content(<<k>> \o e, c) = "redacted"
      BY <1>3, <3>1, MaskedBelow
    <3> QED
      BY <3>2 DEF c
  <2> HIDE DEF e
  <2>7. \A s \in Strings[x] : s[1] = e /\ s[2] = x.c
    BY <2>4
  <2>8. \A s \in Strings[x] : <<s[1], Content(<<k>> \o s[1], s[2])>> \in w
    BY <2>3, <2>6, <2>7
  <2>9. \A r \in w : \E s \in Strings[x] : r = <<s[1], Content(<<k>> \o s[1], s[2])>>
    <3>1. PICK s \in Strings[x] : TRUE
      BY <2>4
    <3> QED
      BY <2>3, <2>6, <2>7, <3>1
  <2> HIDE DEF w
  <2>10. Rewritten(Below(k, Strings[x]), Below(k, w))
    BY <1>1, <2>8, <2>9, RewrittenBelow
  <2> QED
    BY <2>1, <2>10 DEF w
<1>4. CASE k \notin ExcludedKeys /\ ~(k \in SensitiveKeys /\ x.t = "str" /\ x # empty)
  <2>1. y = _walk[x]
    BY <1>4 DEF _walk_field
  <2>2. ASSUME NEW s \in Strings[x], k \in SensitiveKeys, s[1] = <<>> PROVE s[2] = "empty"
    <3>1. x.t = "str"
      BY <1>1, <2>2 DEF PathsOK
    <3>2. x = empty
      BY <1>4, <2>2, <3>1
    <3>3. Strings[x] = {<<<<>>, x.c>>}
      BY <3>1, StringsAre
    <3> QED
      BY <3>2, <3>3
  <2>3. Rewritten(Below(k, Strings[x]), Below(k, Strings[_walk[x]]))
    BY <1>1, <1>4, <2>2, SameBelow
  <2> QED
    BY <2>1, <2>3
<1> QED
  BY <1>2, <1>3, <1>4

LEMMA ValueRewritten ==
  ASSUME NEW v \in JsonValues, \A x \in Parts(v) : x \in JsonValues /\ Rewritten(Strings[x], Strings[_walk[x]])
  PROVE  Rewritten(Strings[v], Strings[_walk[v]])
<1> DEFINE w == _walk[v]
<1>1. w \in JsonValues \cup Outputs /\ WalkedAs(v)
  BY WalkedIs DEF Outputs
<1>2. CASE v.t = "str"
  <2> DEFINE e == <<>>
  <2>1. Strings[v] = {<<e, v.c>>}
    BY <1>2, StringsAre
  <2>2. w.t = "str" /\ w.c = IF v.c = "secret" THEN "redacted" ELSE v.c
    BY <1>1, <1>2 DEF WalkedAs, Redacted
  <2>3. Strings[w] = {<<e, w.c>>}
    BY <1>1, <2>2, StringsAre
  <2>4. Content(e, v.c) = w.c
    BY <2>2 DEF Content, Excluded
  <2> HIDE DEF e, w
  <2>5. Rewritten(Strings[v], Strings[w])
    BY <2>1, <2>3, <2>4 DEF Rewritten
  <2> QED
    BY <2>5 DEF w
<1>3. CASE v.t = "list"
  <2>1. w.t = "list" /\ DOMAIN w.items = DOMAIN v.items /\ \A i \in DOMAIN v.items : w.items[i] = _walk[v.items[i]]
    BY <1>1, <1>3 DEF WalkedAs
  <2>2. /\ Strings[v] = UNION {Below("[]", Strings[v.items[i]]) : i \in DOMAIN v.items}
        /\ Strings[w] = UNION {Below("[]", Strings[w.items[i]]) : i \in DOMAIN w.items}
    BY <1>1, <1>3, <2>1, StringsAre
  <2>3. ASSUME NEW i \in DOMAIN v.items
        PROVE  Rewritten(Below("[]", Strings[v.items[i]]), Below("[]", Strings[w.items[i]]))
    <3> DEFINE x == v.items[i]
    <3>1. x \in JsonValues /\ Rewritten(Strings[x], Strings[_walk[x]]) /\ PathsOK(x)
      BY <1>3, PathsAre DEF Parts
    <3>2. "[]" \in Keys /\ "[]" \notin ExcludedKeys /\ "[]" \notin SensitiveKeys
      BY JsonAssumption DEF Keys
    <3>3. Rewritten(Below("[]", Strings[x]), Below("[]", Strings[_walk[x]]))
      BY <3>1, <3>2, SameBelow
    <3> QED
      BY <2>1, <3>3
  <2> HIDE DEF w
  <2>4. Rewritten(Strings[v], Strings[w])
    BY <2>1, <2>2, <2>3 DEF Rewritten
  <2> QED
    BY <2>4 DEF w
<1>4. CASE v.t = "dict"
  <2>1. /\ w.t = "dict" /\ DOMAIN w.fields = DOMAIN v.fields
        /\ \A k \in DOMAIN v.fields : w.fields[k] = _walk_field(k, v.fields[k], _walk[v.fields[k]])
    BY <1>1, <1>4 DEF WalkedAs
  <2>2. /\ Strings[v] = UNION {Below(k, Strings[v.fields[k]]) : k \in DOMAIN v.fields}
        /\ Strings[w] = UNION {Below(k, Strings[w.fields[k]]) : k \in DOMAIN w.fields}
    BY <1>1, <1>4, <2>1, StringsAre
  <2>3. ASSUME NEW k \in DOMAIN v.fields
        PROVE  Rewritten(Below(k, Strings[v.fields[k]]), Below(k, Strings[w.fields[k]]))
    <3> DEFINE x == v.fields[k]
    <3>1. x \in JsonValues /\ Rewritten(Strings[x], Strings[_walk[x]]) /\ k \in Keys
      BY <1>4 DEF Parts, Keys
    <3>2. Rewritten(Below(k, Strings[x]), Below(k, Strings[_walk_field(k, x, _walk[x])]))
      BY <3>1, FieldRewritten
    <3> QED
      BY <2>1, <3>2
  <2> HIDE DEF w
  <2>4. Rewritten(Strings[v], Strings[w])
    BY <2>1, <2>2, <2>3 DEF Rewritten
  <2> QED
    BY <2>4 DEF w
<1>5. CASE v.t \notin {"str", "list", "dict"}
  <2>1. w = v /\ Strings[v] = {}
    BY <1>1, <1>5, StringsAre DEF WalkedAs
  <2> QED
    BY <2>1 DEF Rewritten
<1> QED
  BY <1>2, <1>3, <1>4, <1>5

LEMMA ValuesRewritten == \A v \in JsonValues : Rewritten(Strings[v], Strings[_walk[v]])
<1> DEFINE M == MaxDepth + 1
           S == {n \in 0..M : \A v \in Shallower(n) : Rewritten(Strings[v], Strings[_walk[v]])}
<1>1. M \in Nat
  BY LevelsAre
<1>2. 0 \in S
  BY <1>1, LevelsAre
<1>3. ASSUME NEW n \in 1..M, n - 1 \in S PROVE n \in S
  <2>1. ASSUME NEW v \in Shallower(n) PROVE Rewritten(Strings[v], Strings[_walk[v]])
    <3>1. v \in JsonValues /\ \A x \in Parts(v) : x \in JsonValues /\ Rewritten(Strings[x], Strings[_walk[x]])
      BY <1>3, LevelsAre DEF Shallower
    <3> QED
      BY <3>1, ValueRewritten
  <2> QED
    BY <2>1
<1> HIDE DEF S, M
<1>4. \A n \in 0..M : n \in S
  BY <1>1, <1>2, <1>3, LoopInduction
<1>5. \A v \in Shallower(M) : Rewritten(Strings[v], Strings[_walk[v]])
  BY <1>1, <1>4 DEF S
<1> QED
  BY <1>5, LevelsAre DEF M

LEMMA WalkIsExact == ClaimsOK => WalkReachesEveryString
<1> SUFFICES ASSUME input.kind = "json", input.value \in JsonValues PROVE WalkReachesEveryString
  BY DEF ClaimsOK, WalkReachesEveryString
<1> DEFINE v == input.value
           expected(s) ==
             LET path == s[1] IN
             IF \E i \in DOMAIN path : path[i] \in ExcludedKeys THEN s
             ELSE IF \/ s[2] = "secret"
                     \/ path # <<>> /\ Last(path) \in SensitiveKeys /\ s[2] # "empty"
                  THEN <<path, "redacted">> ELSE s
<1>1. ASSUME NEW s \in Strings[v] PROVE expected(s) = <<s[1], Content(s[1], s[2])>>
  <2>1. s = <<s[1], s[2]>>
    BY PathsAre DEF PathsOK
  <2> QED
    BY <2>1 DEF Content, Excluded
<1> HIDE DEF expected
<1>2. Rewritten(Strings[v], Strings[_walk[v]])
  BY ValuesRewritten
<1>3. Strings[_walk[v]] = {expected(s) : s \in Strings[v]}
  BY <1>1, <1>2 DEF Rewritten
<1> QED
  BY <1>3 DEF WalkReachesEveryString, expected

(* Redaction takes what it should and nothing else, for texts of every length, *)
(* any number of overlapping claims and payloads of every shape: no claim      *)
(* above the floor survives whole outside a kept tail, the rest of the text    *)
(* stays as it was, and exactly the claimed and the sensitive strings of a     *)
(* payload are replaced (engine.py redact_text, _walk, _walk_field, spans.py   *)
(* resolve_overlaps).                                                          *)
THEOREM RedactionAlwaysExact == Spec => []RedactionIsExact
<1>1. Init => InputOK /\ ClaimsOK
  BY InputsStart, ClaimsStart
<1>2. InputOK /\ ClaimsOK /\ [Next]_vars => (InputOK /\ ClaimsOK)'
  BY InputsStep, ClaimsStep
<1>3. InputOK /\ ClaimsOK => RedactionIsExact
  <2> SUFFICES ASSUME ClaimsOK PROVE RedactionIsExact
    OBVIOUS
  <2>1. NoValueSurvivesWhole
    BY NoValueIsLeft DEF ClaimsOK, NoValueSurvivesWhole
  <2>2. RestIsUntouched
    BY RestIsLeft DEF ClaimsOK, RestIsUntouched
  <2>3. WalkReachesEveryString
    BY WalkIsExact
  <2> QED
    BY <2>1, <2>2, <2>3 DEF RedactionIsExact
<1> QED
  BY <1>1, <1>2, <1>3, PTL DEF Spec
=============================================================================
