---------------------------- MODULE SchemaRules ----------------------------
(***************************************************************************)
(* How the loader reads one section rule of a schema: its matcher, id,     *)
(* cardinality, captures and order, each with the faults it reports        *)
(* (loader/rules.rs).  A schema reaches this module as a value whose YAML  *)
(* has been read and whose shape has been checked.                         *)
(*                                                                         *)
(* A schema's rules are a function from rule paths to rules: the rule      *)
(* <<2, 1>> is the first rule below the second top-level one, and the      *)
(* scope of a rule's children carries the rule's own path; <<>> is the     *)
(* top level.  Spellings are abstracted to what the loader tells apart:    *)
(*   - a matcher is [kind, slug, groups]: its form ("bad" when it does not *)
(*     compile), the id an exact text slugs to, and what encloses each     *)
(*     named group of a regex;                                             *)
(*   - `required` is "absent", "true", "false" or "bad"; `repeat` is <<>>  *)
(*     when absent, <<lo, hi>> for `lo..hi`, anything else when it is not  *)
(*     two decimal numbers.                                                *)
(***************************************************************************)
EXTENDS Integers, Sequences, FiniteSets, SequencesExt

CONSTANTS
    None,       \* what an Option holds when it holds nothing
    Malformed,  \* an id or a capture name outside its grammar
    Widest      \* the largest count a cardinality can hold (u32::MAX)

ASSUME WidestAssumption == Widest \in Nat \ {0}

Unbounded == -1

Reserved == {"fm", "linkdefs"}

Place(path, part, index) == [path |-> path, part |-> part, index |-> index]
Nowhere == Place(<<>>, "", <<>>)
Error(kind, place) == [kind |-> kind, at |-> place, first |-> Nowhere]
ErrorIf(condition, kind, place) ==
    IF condition THEN <<Error(kind, place)>> ELSE <<>>
ForEach(entries, Report(_, _)) ==
    FlattenSeq([k \in DOMAIN entries |-> Report(k, entries[k])])

ParentScope(path) == Front(path)
PositionIn(path) == Last(path)

----------------------------------------------------------------------------
(* Matchers and ids                                                        *)

Compiles(matcher) == matcher.kind # "bad"
IsExact(matcher) == matcher.kind = "exact"
MatcherFaults(matcher, place) ==
    ErrorIf(~Compiles(matcher), "invalid-matcher", place)

(* An explicit id, or the slug of an exact text.                           *)
RuleId(rule) ==
    IF rule.id # None
    THEN IF rule.id = Malformed THEN None ELSE rule.id
    ELSE IF IsExact(rule.match) THEN rule.match.slug ELSE None
IsReservedAt(path, id) == Len(path) = 1 /\ id \in Reserved
IdPlace(path, rule) ==
    Place(path, IF rule.id # None THEN "id" ELSE "match", <<>>)
IdFaults(path, rule) ==
    ErrorIf(rule.id = Malformed, "invalid-document-shape", IdPlace(path, rule))
    \o ErrorIf(IsReservedAt(path, RuleId(rule)), "reserved-id", IdPlace(path, rule))

----------------------------------------------------------------------------
(* Cardinalities                                                           *)

Fits(count) == count \in 0..Widest
RepeatParses(repeat) ==
    /\ Len(repeat) = 2
    /\ Fits(repeat[1])
    /\ repeat[2] = Unbounded \/ (Fits(repeat[2]) /\ repeat[2] >= repeat[1] /\ repeat[2] # 0)

(* <<minimum, maximum>>, or None when the declaration is at fault.         *)
BuildCardinality(required, repeat, exact) ==
    IF required # "absent" /\ repeat # <<>> THEN None
    ELSE IF repeat # <<>> THEN IF RepeatParses(repeat) THEN repeat ELSE None
    ELSE IF required = "false" THEN <<0, 1>>
    ELSE IF required = "true" \/ exact THEN <<1, 1>>
    ELSE None
CardinalityPlace(path, index, required, repeat) ==
    Place(path, IF repeat # <<>> THEN "repeat"
                ELSE IF required # "absent" THEN "required" ELSE "match", index)
CardinalityFaults(required, repeat, exact, place) ==
    IF BuildCardinality(required, repeat, exact) # None THEN <<>>
    ELSE <<Error(IF required # "absent" /\ repeat # <<>> THEN "conflicting-cardinality"
                 ELSE IF repeat # <<>> THEN "invalid-repeat"
                 ELSE "missing-cardinality", place)>>
RuleCardinality(rule) == BuildCardinality(rule.required, rule.repeat, IsExact(rule.match))

IsSingular(maximum) == maximum \in {0, 1}

(* Maxima multiply; infinity absorbs and so does a product too wide.       *)
EffectiveMaximum(left, right) ==
    IF Unbounded \in {left, right} \/ left * right > Widest THEN Unbounded ELSE left * right

----------------------------------------------------------------------------
(* Captures: "absent", "bad" (null, empty or no mapping) or "given" with    *)
(* entries [name, typed], in source order.                                 *)

(* What is said of one declaration: "fine", "fault", or "unsaid" when the  *)
(* matcher it needs never compiled.                                        *)
CaptureVerdict(entry, matcher) ==
    IF entry.name = Malformed \/ ~entry.typed THEN "fault"
    ELSE IF ~Compiles(matcher) THEN "unsaid"
    ELSE IF matcher.kind # "regex" \/ entry.name \notin DOMAIN matcher.groups THEN "fault"
    ELSE IF matcher.groups[entry.name] = "always" THEN "fine" ELSE "fault"

CapturePlace(path, k) == Place(path, "captures", <<k>>)
CaptureFaultsOfEntries(path, rule) ==
    ForEach(rule.captures.entries, LAMBDA k, entry :
        ErrorIf(CaptureVerdict(entry, rule.match) = "fault", "invalid-capture", CapturePlace(path, k)))
CaptureFaults(path, rule) ==
    IF rule.captures.spelled = "given"
    THEN ForEach(rule.captures.entries, LAMBDA k, entry :
             ErrorIf(CaptureVerdict(entry, rule.match) = "fault",
                     "invalid-capture", CapturePlace(path, k)))
    ELSE ErrorIf(rule.captures.spelled = "bad", "invalid-capture",
                 Place(path, "captures", <<>>))

(* Captures become a collection only as a whole.                           *)
CapturesKnown(rule) ==
    /\ rule.captures.spelled # "bad"
    /\ \A k \in DOMAIN rule.captures.entries :
           CaptureVerdict(rule.captures.entries[k], rule.match) = "fine"
CaptureNames(rule) ==
    IF CapturesKnown(rule)
    THEN {rule.captures.entries[k].name : k \in DOMAIN rule.captures.entries}
    ELSE {}

----------------------------------------------------------------------------
(* Orders: entries [by, descending, strict, formed].  Only the entry's own *)
(* form gates the three checks after it, which are independent.            *)

OrderRepeats(entries, k) ==
    \E j \in 1..(k - 1) : entries[j].formed /\ entries[j] = entries[k]
OrderUndeclaredAnyway(rule, entry) == entry.by \notin CaptureNames(rule)
OrderUndeclared(rule, entry) ==
    CapturesKnown(rule) /\ entry.by \notin CaptureNames(rule)
OrderPointless(rule) ==
    RuleCardinality(rule) # None /\ IsSingular(RuleCardinality(rule)[2])

OrderEntryFaults(path, rule, k) ==
    LET entry == rule.order.entries[k]
        place == Place(path, "order", <<k>>)
    IN  IF ~entry.formed THEN <<Error("invalid-order", place)>>
        ELSE ErrorIf(OrderRepeats(rule.order.entries, k), "invalid-order", place)
             \o ErrorIf(OrderUndeclared(rule, entry), "invalid-order", place)
             \o ErrorIf(OrderPointless(rule), "invalid-order", place)
OrderFaults(path, rule) ==
    IF rule.order.spelled = "given"
    THEN ForEach(rule.order.entries, LAMBDA k, entry : OrderEntryFaults(path, rule, k))
    ELSE ErrorIf(rule.order.spelled = "bad", "invalid-order", Place(path, "order", <<>>))
OrderKnown(path, rule) ==
    \/ rule.order.spelled = "absent"
    \/ CapturesKnown(rule) /\ OrderFaults(path, rule) = <<>>

----------------------------------------------------------------------------
(* Reachability: in an unordered scope the first wildcard takes all.       *)

ShadowedBy(rules, path) ==
    {k \in 1..(PositionIn(path) - 1) : rules[Append(ParentScope(path), k)].match.kind = "any"}
UnreachableFaults(rules, path, unordered) ==
    ErrorIf(unordered /\ Compiles(rules[path].match) /\ ShadowedBy(rules, path) # {},
            "unreachable-rule", Place(path, "match", <<>>))

(* What makes a rule of a spelling, and what is reported on the way.       *)
RuleBuilds(path, rule) ==
    /\ Compiles(rule.match)
    /\ RuleCardinality(rule) # None
    /\ CapturesKnown(rule)
    /\ OrderKnown(path, rule)
RuleHeadFaults(rules, path, unordered) ==
    LET rule == rules[path]
    IN  MatcherFaults(rule.match, Place(path, "match", <<>>))
        \o UnreachableFaults(rules, path, unordered)
        \o IdFaults(path, rule)
        \o CardinalityFaults(rule.required, rule.repeat, IsExact(rule.match),
                             CardinalityPlace(path, <<>>, rule.required, rule.repeat))
RuleValueFaults(path, rule) == CaptureFaults(path, rule) \o OrderFaults(path, rule)

GuardFaults(path, guards) ==
    ForEach(guards, LAMBDA k, guard : MatcherFaults(guard, Place(path, "guard", <<k>>)))
=============================================================================
