----------------------------- MODULE Redaction -----------------------------
(* The redaction algorithms: which of the detectors' overlapping claims on a  *)
(* text are acted on (redaction/engine.py, redaction/spans.py), what each     *)
(* replaced span becomes (redaction/operators), and which strings of a JSON   *)
(* value are reached (redaction/structured.py).                               *)
(*                                                                            *)
(* A text is the sequence of its offsets, so an output shows which characters *)
(* survived and where.  Confidences are in tenths.  Spans are not empty: a    *)
(* custom recogniser that matches the empty string is left out.               *)
EXTENDS Naturals, FiniteSets, SequencesExt

CONSTANTS KeepLast,         \* PartialMaskOperator.keep_last
          ContextBoost,     \* DetectionContext.context_boost
          SensitiveKeys,    \* keys structured.key_is_sensitive accepts
          ExcludedKeys,     \* the rule's exclude_keys
          JsonValues,       \* payloads and their parts
          Depth,            \* how deep a value nests
          MaxDepth          \* as deep as _walk can recurse

Character(i) == <<"char", i>>
Mark == <<"mark", 0>>
Text(n) == [i \in 1..n |-> Character(i - 1)]

\* The profiles: the confidence floor and the operator of an entity.
MIN_CONFIDENCE(profile) == IF profile = "strict" THEN 4 ELSE 6
_operator_for(profile, entity) ==
  IF profile = "strict" /\ entity = "CREDIT_CARD" THEN "partial_mask" ELSE "mask"

Length(s) == s.end - s.start
Overlaps(s, t) == s.start < t.end /\ t.start < s.end

\* A context word before the span lifts it, to 10 at most.  near holds the
\* starts a context word precedes within the window.
_apply_context_boost(s, near) ==
  IF s.start \in near THEN [s EXCEPT !.confidence = Min({10, @ + ContextBoost})] ELSE s

\* Higher confidence, then the longer span, then the earlier start; a stable
\* sort leaves the rest in the order the detectors gave.
Priority(spans, i, j) ==
  LET s == spans[i]
      t == spans[j]
  IN \/ s.confidence > t.confidence
     \/ /\ s.confidence = t.confidence
        /\ \/ Length(s) > Length(t)
           \/ Length(s) = Length(t) /\ \/ s.start < t.start
                                       \/ s.start = t.start /\ i < j

ByStart(spans, i, j) == spans[i].start < spans[j].start

\* The numbers 1..n as a sort by the strict total order R puts them.
Sorted(n, R) ==
  CHOOSE p \in [1..n -> 1..n] :
    /\ \A i \in 1..n : \E k \in 1..n : p[k] = i
    /\ \A i, j \in 1..n : i < j => <<p[i], p[j]>> \in R

\* Mutant of Blocked: spans that merely touch are taken to overlap.
BlockedByTouching(s, chosen) ==
  \E i \in DOMAIN chosen : s.start <= chosen[i].end /\ chosen[i].start <= s.end

Blocked(s, chosen) == \E i \in DOMAIN chosen : Overlaps(s, chosen[i])

Take(chosen, s) == IF Blocked(s, chosen) THEN chosen ELSE Append(chosen, s)

PriorityOrder(spans) ==
  {pr \in (DOMAIN spans) \X (DOMAIN spans) : Priority(spans, pr[1], pr[2])}

StartOrder(spans) ==
  {pr \in (DOMAIN spans) \X (DOMAIN spans) : ByStart(spans, pr[1], pr[2])}

\* The spans that win, in the order they are taken.
Winners(spans) ==
  LET order == Sorted(Len(spans), PriorityOrder(spans))
      chosen[k \in 0..Len(spans)] ==
        IF k = 0 THEN <<>> ELSE Take(chosen[k - 1], spans[order[k]])
  IN chosen[Len(spans)]

resolve_overlaps(spans) ==
  LET won   == Winners(spans)
      place == Sorted(Len(won), StartOrder(won))
  IN [i \in 1..Len(won) |-> won[place[i]]]

\* A span that reaches the floor, with its boost, joins those kept before it.
Keep(kept, s, near, profile) ==
  LET boosted == _apply_context_boost(s, near) IN
  IF boosted.confidence >= MIN_CONFIDENCE(profile) THEN Append(kept, boosted) ELSE kept

\* What the floor lets through, with the denylisted literals after it.
Qualified(found, denied, near, profile) ==
  LET kept[n \in 0..Len(found)] ==
        IF n = 0 THEN <<>> ELSE Keep(kept[n - 1], found[n], near, profile)
  IN kept[Len(found)] \o denied

detect_spans(found, denied, near, profile) ==
  resolve_overlaps(Qualified(found, denied, near, profile))

\* Operator.apply, by what it leaves of the value: a partial mask keeps the
\* last characters of a value more than twice as long.
apply(profile, s) ==
  IF _operator_for(profile, s.entity) = "partial_mask" /\ Length(s) > 2 * KeepLast
    THEN <<Mark>> \o [i \in 1..KeepLast |-> Character(s.end - KeepLast + i - 1)]
    ELSE <<Mark>>

\* Mutant of ApplyOrder: the spans are replaced from the left.
ApplyLeftToRight(chosen) == chosen

ApplyOrder(chosen) == Reverse(chosen)

\* The slices of out around s, with its replacement between them.
Splice(out, s, profile) ==
  SubSeq(out, 1, Min({s.start, Len(out)})) \o apply(profile, s) \o SubSeq(out, s.end + 1, Len(out))

redact_text(n, chosen, profile) ==
  LET spans == ApplyOrder(chosen)
      out[k \in 0..Len(spans)] ==
        IF k = 0 THEN Text(n) ELSE Splice(out[k - 1], spans[k], profile)
  IN out[Len(spans)]

-----------------------------------------------------------------------------
(* JSON values: [t |-> "str", c], [t |-> "num"], [t |-> "list", items] and    *)
(* [t |-> "dict", fields].  A string's content c is "secret" when a detector  *)
(* claims it, "plain" when none does, "empty" when there is nothing in it.    *)

Redacted == [t |-> "str", c |-> "redacted"]

\* Mutant of _walk_field: the sensitive key is looked at before the exclusion.
WalkFieldSensitiveFirst(key, v, walked) ==
  IF key \in SensitiveKeys /\ v.t = "str" /\ v # [t |-> "str", c |-> "empty"] THEN Redacted
  ELSE IF key \in ExcludedKeys THEN v ELSE walked

\* walked is what _walk makes of the value.
_walk_field(key, v, walked) ==
  IF key \in ExcludedKeys THEN v
  ELSE IF key \in SensitiveKeys /\ v.t = "str" /\ v # [t |-> "str", c |-> "empty"] THEN Redacted
  ELSE walked

\* What _walk makes of a value, walk being what it makes of the parts.
WalkOf(walk, v) ==
  CASE v.t = "str"  -> IF v.c = "secret" THEN Redacted ELSE v
    [] v.t = "list" -> [v EXCEPT !.items = [i \in DOMAIN v.items |-> walk[v.items[i]]]]
    [] v.t = "dict" -> [v EXCEPT !.fields = [k \in DOMAIN v.fields |->
                                               _walk_field(k, v.fields[k], walk[v.fields[k]])]]
    [] OTHER        -> v

_walk[v \in JsonValues] == WalkOf(_walk, v)
=============================================================================
