---------------------------- MODULE SchemaBinder ----------------------------
(***************************************************************************)
(* How the loader binds the locators of a constraint to the rules of a     *)
(* schema whose rules were all built (loader/constraints.rs).              *)
(*                                                                         *)
(* A locator is [form, absolute, steps, structure, text, query]:           *)
(*   - form "outline": name steps [name, at], then structural steps        *)
(*     [kind, at], then possibly the `/text` intrinsic; `at` is Whole when *)
(*     no `[i]` is written.  `absolute` says that it starts at the root;   *)
(*   - form "query" (`fm[...]`) and "capture" (`fm.x`): `query` is the     *)
(*     query with its equality, or the capture's name;                     *)
(*   - form "malformed".                                                   *)
(* A constraint is [keyword, refs, then]; `then` is empty but for the      *)
(* implications, whose condition is refs[1].                               *)
(***************************************************************************)
EXTENDS SchemaContent

Whole == -1
CurrentOccurrence == -2

Implications == {"requires", "conflicts"}
Lists == {"one_of", "any_of", "at_most_one", "all_or_none"}
Keywords == Implications \cup Lists \cup {"ordered"}

SchemaRule(schema, path) == schema.rules[path]
IsStaticallySingular(schema, path) == IsSingular(RuleCardinality(SchemaRule(schema, path))[2])

(* The prefix a relative locator inherits from the place of its constraint.*)
AttachmentIdentity(schema, path) ==
    [k \in DOMAIN path |->
        [index |-> path[k],
         selector |-> IF IsStaticallySingular(schema, SubSeq(path, 1, k))
                      THEN Whole ELSE CurrentOccurrence]]

(* `[0]` on a rule that occurs at most once says nothing.                  *)
ScopeEquivalent(selector, singular) ==
    IF selector = 0 /\ singular THEN Whole ELSE selector

----------------------------------------------------------------------------
(* What a cursor may step into                                             *)

ContentAt(schema, owner) ==
    IF owner = <<>> THEN schema.content ELSE SchemaRule(schema, owner).content
ContentRulesOf(schema, path) == SchemaRule(schema, path).content.entries
Offers(rule, form) ==
    \/ rule.form = form
    \/ rule.form = "choice" /\ \E k \in DOMAIN rule.alternatives : rule.alternatives[k].form = form
HasItems(rule) == rule.form = "list" /\ rule.items.entries # <<>>

Cursor(kind, scope, lists) == [kind |-> kind, scope |-> scope, lists |-> lists]
NoCursor == Cursor("none", Nowhere, {})

BindParagraphStep(schema, cursor) ==
    IF /\ cursor.kind = "section"
       /\ \E i \in DOMAIN ContentRulesOf(schema, cursor.scope.path) :
              Offers(ContentRulesOf(schema, cursor.scope.path)[i], "p")
    THEN Cursor("paragraphs", Nowhere, {}) ELSE NoCursor
BindListStep(schema, cursor) ==
    IF cursor.kind # "section" THEN NoCursor
    ELSE LET rules == ContentRulesOf(schema, cursor.scope.path)
         IN  IF \E i \in DOMAIN rules : Offers(rules[i], "list")
             THEN Cursor("lists", Nowhere, {<<cursor.scope.path, i>> :
                                                i \in {j \in DOMAIN rules : rules[j].form = "list"}})
             ELSE NoCursor
BindItemStep(schema, cursor) ==
    LET listed == IF cursor.kind = "content"
                  THEN {<<cursor.scope.path, cursor.scope.index[1]>>}
                  ELSE cursor.lists
    IN  IF \E list \in listed : HasItems(ContentAt(schema, list[1]).entries[list[2]])
        THEN Cursor("items", Nowhere, {}) ELSE NoCursor
BindStructuralStep(schema, cursor, kind) ==
    CASE kind = "p" -> BindParagraphStep(schema, cursor)
      [] kind = "list" -> BindListStep(schema, cursor)
      [] kind = "item" -> BindItemStep(schema, cursor)
      [] OTHER -> NoCursor

----------------------------------------------------------------------------
(* Name steps: each resolves in the one scope the locator has reached.     *)

Lookup(declared, scope, name) ==
    {k \in DOMAIN declared :
        /\ declared[k].scope = scope /\ declared[k].name = name
        /\ \A j \in 1..(k - 1) : ~(declared[j].scope = scope /\ declared[j].name = name)}

Start(schema, here, locator) ==
    LET prefix == IF locator.absolute THEN <<>> ELSE AttachmentIdentity(schema, here)
    IN  [cursor |-> Cursor("scope", SectionsScope(IF locator.absolute THEN <<>> ELSE here), {}),
         identity |-> prefix, key |-> prefix, singular |-> <<>>, matcher |-> "none"]

(* The reading after one more name step.  A capture ends the descent.      *)
NameStep(schema, declared, reading, step) ==
    IF reading.cursor.kind \in {"none", "capture"} THEN [reading EXCEPT !.cursor = NoCursor]
    ELSE LET found == Lookup(declared, reading.cursor.scope, step.name)
         IN IF found = {} THEN [reading EXCEPT !.cursor = NoCursor]
            ELSE LET entry == declared[CHOOSE k \in found : TRUE]
                     path == entry.at.path
                     section == entry.kind = "section"
                     selected(selector) == [index |-> PositionIn(path), selector |-> selector]
                 IN [cursor |-> Cursor(entry.kind,
                                       IF section THEN SectionsScope(path)
                                       ELSE Place(path, entry.kind, entry.at.index), {}),
                     identity |-> IF section THEN Append(reading.identity, selected(step.at))
                                  ELSE reading.identity,
                     key |-> IF section
                             THEN Append(reading.key, selected(ScopeEquivalent(step.at,
                                                      IsStaticallySingular(schema, path))))
                             ELSE reading.key,
                     singular |-> Append(reading.singular,
                         step.at # Whole \/ (entry.kind # "capture" /\ IsSingular(entry.maximum))),
                     matcher |-> IF entry.kind = "item"
                                 THEN ContentAt(schema, path).entries[entry.at.index[1]]
                                          .items.entries[entry.at.index[2]].match.kind
                                 ELSE "none"]
(* The readings at the start and after each of the name steps.             *)
Readings(schema, declared, here, locator) ==
    FoldLeft(LAMBDA readings, step :
                 Append(readings, NameStep(schema, declared, Last(readings), step)),
             <<Start(schema, here, locator)>>, locator.steps)

----------------------------------------------------------------------------
(* Outline locators                                                        *)

Bound(kind, fault, identity, key) ==
    [kind |-> kind, fault |-> fault, identity |-> identity, key |-> key, query |-> None]
Refused(fault) == Bound("refused", fault, <<>>, <<>>)
Continues(locator) == locator.structure # <<>> \/ locator.text

DescendsThroughPluralParent(locator, reading, cursor) ==
    \E k \in 1..(Len(locator.steps) - 2) : ~reading.singular[k]
(* Plurality is judged only on a locator that binds otherwise.             *)
DescendsThroughPlural(locator, reading, cursor) ==
    LET last == Len(locator.steps)
        itemText == locator.structure = <<>> /\ locator.text /\ reading.cursor.kind = "item"
        judged == IF Continues(locator) /\ ~itemText THEN last ELSE last - 1
    IN  \/ \E k \in 1..judged : ~reading.singular[k]
        \/ \E k \in DOMAIN locator.structure :
               /\ k < Len(locator.structure) \/ locator.text
               /\ locator.structure[k].at = Whole

(* The `/text` intrinsic of a heading or of one named, written item rule.  *)
BindText(reading, cursor) ==
    IF cursor.kind = "section" THEN Bound("text", "", <<>>, <<>>)
    ELSE IF cursor.kind = "item" /\ reading.matcher # "any" /\ Last(reading.singular)
         THEN Bound("itemText", "", <<>>, <<>>)
         ELSE Refused("invalid-document-shape")

(* What a locator denotes whose names read so, and whose kinds lead there.  *)
Denoted(locator, reading, cursor, plural) ==
    IF reading.cursor.kind = "none" \/ cursor.kind = "none" THEN Refused("unresolved-ref")
    ELSE IF DescendsThroughPlural(locator, reading, cursor) THEN Refused(plural)
    ELSE IF locator.text THEN BindText(reading, cursor)
    ELSE IF cursor.kind = "section" THEN Bound("rule", "", reading.identity, reading.key)
    ELSE IF cursor.kind = "capture" THEN Bound("value", "", <<>>, <<>>)
    ELSE Bound("structure", "", <<>>, <<>>)

(* A capture ends the descent: nothing may follow it.                       *)
Overruns(locator, readings) ==
    \E k \in DOMAIN readings :
        readings[k].cursor.kind = "capture" /\ (k < Len(readings) \/ Continues(locator))
BindReadings(schema, locator, readings, plural) ==
    IF Overruns(locator, readings) THEN Refused("invalid-document-shape")
    ELSE Denoted(locator, Last(readings),
                 FoldLeft(LAMBDA at, step : BindStructuralStep(schema, at, step.kind),
                          Last(readings).cursor, locator.structure),
                 plural)
BindOutline(schema, declared, here, locator, plural) ==
    BindReadings(schema, locator, Readings(schema, declared, here, locator), plural)

BindOperand(schema, declared, here, locator, plural) ==
    CASE locator.form = "malformed" -> Refused("invalid-document-shape")
      [] locator.form = "outline" -> BindOutline(schema, declared, here, locator, plural)
      [] locator.form = "query" ->
            [Bound("query", "", <<>>, <<>>) EXCEPT !.query = locator.query]
      [] locator.form = "capture" ->
            IF locator.query \in schema.frontmatterNames
            THEN [Bound("fmCapture", "", <<>>, <<>>) EXCEPT !.query = locator.query]
            ELSE Refused("unresolved-ref")

----------------------------------------------------------------------------
(* Constraints                                                             *)

IsProposition(operand) == operand.kind \in {"rule", "query", "fmCapture"}
ParseProposition(schema, declared, here, locator) ==
    LET operand == BindOperand(schema, declared, here, locator, "invalid-document-shape")
    IN  IF operand.kind = "refused" \/ IsProposition(operand) THEN operand
        ELSE Refused("invalid-document-shape")

Identity(operand) == <<operand.kind, operand.identity, operand.query>>
Repeats(operands, k) ==
    operands[k].kind # "refused" /\ \E j \in 1..(k - 1) :
        operands[j].kind # "refused" /\ Identity(operands[j]) = Identity(operands[k])

PropositionFaults(operands) ==
    ForEach(operands, LAMBDA k, operand :
        (IF operand.kind = "refused" THEN <<operand.fault>> ELSE <<>>)
        \o (IF Repeats(operands, k) THEN <<"duplicate-ref">> ELSE <<>>))
PropositionKinds(schema, declared, here, refs) ==
    PropositionFaults([k \in DOMAIN refs |-> ParseProposition(schema, declared, here, refs[k])])

(* The declared scope that a key's parent names, and whether its rule list *)
(* already orders it.                                                      *)
ScopeIsOrdered(schema, parent) ==
    LET scope == schema.scopes[[k \in DOMAIN parent |-> parent[k].index]]
    IN  ~(scope.declared /\ scope.unordered = "true")

OrderedFaults(schema, operands) ==
    LET rules == {k \in DOMAIN operands : operands[k].kind = "rule"}
        Parent(k) == Front(operands[k].key)
        first == CHOOSE k \in rules : \A j \in rules : k <= j
        mixed == {k \in rules : Parent(k) # Parent(first)}
    IN  ForEach(operands, LAMBDA k, operand :
            IF operand.kind = "refused" THEN <<operand.fault>>
            ELSE IF k \notin rules THEN <<"ordered-scope-mismatch">>
            ELSE (IF k \in mixed THEN <<"ordered-scope-mismatch">> ELSE <<>>)
                 \o (IF \E j \in rules : j < k /\ Identity(operands[j]) = Identity(operand)
                     THEN <<"duplicate-ref">> ELSE <<>>))
        \o (IF rules = DOMAIN operands /\ mixed = {} /\ ScopeIsOrdered(schema, Parent(first))
            THEN <<"ordered-scope-mismatch">> ELSE <<>>)
OrderedKinds(schema, declared, here, refs) ==
    OrderedFaults(schema, [k \in DOMAIN refs |->
        BindOperand(schema, declared, here, refs[k], "ordered-scope-mismatch")])

(* The kinds of the errors a constraint meets, in order; none binds it.    *)
ConstraintKinds(schema, declared, here, constraint) ==
    IF constraint.keyword = "ordered"
    THEN OrderedKinds(schema, declared, here, constraint.refs)
    ELSE PropositionKinds(schema, declared, here, constraint.refs \o constraint.then)

(* Without rules only the syntax of a locator can be judged.               *)
LexicalKinds(constraint) ==
    ForEach(constraint.refs \o constraint.then, LAMBDA k, locator :
        IF locator.form = "malformed" THEN <<"invalid-document-shape">> ELSE <<>>)
=============================================================================
