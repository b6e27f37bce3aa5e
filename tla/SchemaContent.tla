--------------------------- MODULE SchemaContent ---------------------------
(***************************************************************************)
(* How the loader reads the content of a title, a document or a section    *)
(* rule: its block rules and the item rules of its lists, with the faults  *)
(* it reports, and the names both declare (loader/content.rs).             *)
(*                                                                         *)
(* Content is [spelled, entries]: "absent", "bad" (not a sequence) or      *)
(* "given".  A content rule's form is "p", "list", "any", "choice", or     *)
(* how it fails to be one: "neither", "both", "unknown".  `stray` says     *)
(* that it spells a field nobody knows, `misfit` that it spells a list's   *)
(* field while it is no list.  A matcher of kind "absent" is missing or no *)
(* string, and a repeat of <<Malformed>> is no string.  An owner is the    *)
(* path of a section rule, or <<>> for the content at the top.             *)
(***************************************************************************)
EXTENDS SchemaRules

ContentPlace(owner, i) == Place(owner, "content", <<i>>)
ItemPlace(owner, i, j) == Place(owner, "item", <<i, j>>)
Wrong(condition, place) == ErrorIf(condition, "invalid-content-rule", place)
Misshapen(condition, place) == ErrorIf(condition, "invalid-document-shape", place)

(* An explicit id; `outermost` says that it lands in the top-level scope.  *)
ExplicitIdFaults(id, outermost, place) ==
    Misshapen(id = Malformed, place)
    \o ErrorIf(outermost /\ id \in Reserved, "reserved-id", place)

(* A cardinality whose fields must first be a bool and a string.           *)
CountFaults(entry, exact, place) ==
    LET shape == Misshapen(entry.required = "bad", place)
                 \o Misshapen(entry.repeat = <<Malformed>>, place)
    IN  IF shape # <<>> THEN shape
        ELSE CardinalityFaults(entry.required, entry.repeat, exact, place)

----------------------------------------------------------------------------
(* Item rules                                                              *)

ItemFaults(owner, i, j, item, outermost) ==
    LET place == ItemPlace(owner, i, j)
        missing == item.match.kind = "absent"
        judged == \/ ~missing /\ Compiles(item.match)
                  \/ item.required # "absent" \/ item.repeat # <<>>
    IN  Misshapen(item.stray, place)
        \o ExplicitIdFaults(item.id, outermost, place)
        \o (IF missing THEN Misshapen(TRUE, place) ELSE MatcherFaults(item.match, place))
        \o (IF judged THEN CountFaults(item, IsExact(item.match), place) ELSE <<>>)

ItemsFaults(owner, i, rule) ==
    Wrong(rule.items.spelled = "bad", ContentPlace(owner, i))
    \o ForEach(rule.items.entries, LAMBDA j, item :
           ItemFaults(owner, i, j, item, owner = <<>> /\ rule.id = None))

----------------------------------------------------------------------------
(* Alternatives of a choice: [form, kind, stray, misfit]; `kind` is a      *)
(* list's, and `misfit` says that it spells a content rule's field.        *)

AlternativeClean(alternative) ==
    /\ alternative.form \in {"p", "list", "any"}
    /\ ~alternative.stray /\ ~alternative.misfit
    /\ alternative.kind = "absent" \/ (alternative.form = "list" /\ alternative.kind # "bad")
SameAlternative(left, right) ==
    /\ left.form = right.form
    /\ {left.kind, right.kind} \subseteq {"absent", "any"} \/ left.kind = right.kind

AlternativeFaults(alternatives, k, place) ==
    LET alternative == alternatives[k]
        clean == AlternativeClean(alternative)
        blocky == alternative.form \in {"p", "list", "any"}
        earlier == \E j \in 1..(k - 1) :
                       /\ AlternativeClean(alternatives[j])
                       /\ SameAlternative(alternatives[j], alternative)
    IN  Wrong(~blocky, place)
        \o Misshapen(alternative.stray, place)
        \o Wrong(blocky /\ alternative.misfit, place)
        \o Wrong(blocky /\ alternative.kind # "absent"
                        /\ (alternative.form # "list" \/ alternative.kind = "bad"), place)
        \o Wrong(clean /\ earlier, place)
ChoiceFaults(rule, place) ==
    IF Len(rule.alternatives) < 2 THEN Wrong(TRUE, place)
    ELSE ForEach(rule.alternatives, LAMBDA k, alternative :
             AlternativeFaults(rule.alternatives, k, place))

----------------------------------------------------------------------------
(* Content rules                                                           *)

ContentRuleFaults(owner, i, rule) ==
    LET place == ContentPlace(owner, i)
        formed == rule.form \in {"p", "list", "any", "choice"}
    IN  Misshapen(rule.stray, place)
        \o (IF ~formed THEN Wrong(TRUE, place)
            ELSE Wrong(rule.form # "list" /\ rule.misfit, place)
                 \o ExplicitIdFaults(rule.id, owner = <<>>, place)
                 \o CountFaults(rule, TRUE, place)
                 \o Wrong(rule.form = "list" /\ rule.kind = "bad", place)
                 \o (IF rule.form = "list" THEN ItemsFaults(owner, i, rule) ELSE <<>>)
                 \o (IF rule.form = "choice" THEN ChoiceFaults(rule, place) ELSE <<>>))

ContentRuleBuilds(owner, i, rule) == ContentRuleFaults(owner, i, rule) = <<>>

ContentMaximum(rule) == BuildCardinality(rule.required, rule.repeat, TRUE)[2]
ItemMaximum(item) == BuildCardinality(item.required, item.repeat, IsExact(item.match))[2]

----------------------------------------------------------------------------
(* Named scopes.  Section rules, captures and content share the scope of   *)
(* their owner; a named content rule and a named item open their own.      *)

SectionsScope(path) == Place(path, "sections", <<>>)
ContentScope(owner, i) == Place(owner, "content", <<i>>)
ItemScope(owner, i, j) == Place(owner, "item", <<i, j>>)

(* A name where it is declared, what it declares and how many nodes of the *)
(* enclosing scope it may denote.                                          *)
Declaration(scope, name, kind, place, maximum) ==
    [scope |-> scope, name |-> name, kind |-> kind, at |-> place, maximum |-> maximum]

(* An anonymous list hands its items' names up and multiplies their        *)
(* maxima; a named one keeps them.                                         *)
ItemDeclarationsKept(owner, i, rule) ==
    ForEach(rule.items.entries, LAMBDA j, item :
        IF item.id = None THEN <<>>
        ELSE <<Declaration(ContentScope(owner, i), item.id, "item", ItemPlace(owner, i, j),
                           ItemMaximum(item))>>)
ItemDeclarations(owner, i, rule) ==
    LET receiving == IF rule.id # None THEN ContentScope(owner, i) ELSE SectionsScope(owner)
        inherited == IF rule.id # None THEN 1 ELSE ContentMaximum(rule)
    IN  ForEach(rule.items.entries, LAMBDA j, item :
            IF item.id = None THEN <<>>
            ELSE <<Declaration(receiving, item.id, "item", ItemPlace(owner, i, j),
                               EffectiveMaximum(inherited, ItemMaximum(item)))>>)
ContentRuleDeclarations(owner, i, rule) ==
    (IF rule.id = None THEN <<>>
     ELSE <<Declaration(SectionsScope(owner), rule.id, "content", ContentPlace(owner, i),
                        ContentMaximum(rule))>>)
    \o (IF rule.form = "list" THEN ItemDeclarations(owner, i, rule) ELSE <<>>)

(* Only the rules that were built declare anything.                        *)
ContentDeclarations(owner, content) ==
    IF content.spelled # "given" THEN <<>>
    ELSE ForEach(content.entries, LAMBDA i, rule :
             IF ContentRuleBuilds(owner, i, rule)
             THEN ContentRuleDeclarations(owner, i, rule) ELSE <<>>)

CaptureDeclarations(path, rule) ==
    IF ~CapturesKnown(rule) THEN <<>>
    ELSE ForEach(rule.captures.entries, LAMBDA k, entry :
             <<Declaration(SectionsScope(path), entry.name, "capture",
                           CapturePlace(path, k), 0)>>)

(* A section rule needs its id and its cardinality to be admitted, and a   *)
(* reserved id is not admitted at the top.                                 *)
SectionDeclarations(path, rule) ==
    IF RuleId(rule) = None \/ RuleCardinality(rule) = None \/ IsReservedAt(path, RuleId(rule))
    THEN <<>>
    ELSE <<Declaration(SectionsScope(ParentScope(path)), RuleId(rule), "section",
                       IdPlace(path, rule), RuleCardinality(rule)[2])>>

----------------------------------------------------------------------------
(* Collisions: of the declarations of one name in one scope, the first in  *)
(* the source is the one the others are told of.                           *)

(* Where the source spells a place: `captures`, `content` and `sections`   *)
(* come in the order the author wrote these keys.                          *)
Groups == <<"captures", "content", "sections">>
GroupOf(place) ==
    IF place.part = "captures" THEN 1
    ELSE IF place.part \in {"content", "item"} THEN 2 ELSE 3
Rank(place, keys) ==
    <<SelectInSeq(keys, LAMBDA key : key = Groups[GroupOf(place)])>>
    \o (IF GroupOf(place) = 3 THEN <<PositionIn(place.path)>> ELSE place.index)
Precedes(left, right) ==
    \E k \in 1..(IF Len(left) < Len(right) THEN Len(right) ELSE Len(left)) :
        /\ \A j \in 1..(k - 1) : j <= Len(left) /\ j <= Len(right) /\ left[j] = right[j]
        /\ k > Len(left) \/ (k <= Len(right) /\ left[k] < right[k])
        /\ k <= Len(right)

CollisionFaults(declared, scope, keys) ==
    LET here == SelectSeq(declared, LAMBDA declaration : declaration.scope = scope)
        Spelled(k) == Rank(here[k].at, keys)
        Before(k) == {j \in DOMAIN here :
                          here[j].name = here[k].name /\ Precedes(Spelled(j), Spelled(k))}
        First(k) == CHOOSE j \in Before(k) :
                        \A other \in Before(k) : other = j \/ Precedes(Spelled(j), Spelled(other))
    IN  ForEach(here, LAMBDA k, declaration :
            IF Before(k) = {} THEN <<>>
            ELSE <<[kind |-> "duplicate-id", at |-> declaration.at, first |-> here[First(k)].at]>>)
=============================================================================
