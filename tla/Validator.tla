------------------------------ MODULE Validator ------------------------------
(***************************************************************************)
(* The validation walk (crates/outlint-core/src/validator/engine.rs): one  *)
(* parsed document against one loaded schema.  It reports on frontmatter   *)
(* and skipped levels, chooses what the root stands for, and then binds    *)
(* scope after scope: prohibition guards, extras, assignment, cardinality, *)
(* and for every assigned heading its captures, its preamble, the items of *)
(* the lists in it and its child scope, before the order of the captured   *)
(* values is checked.  When a root scope is bound all the way down, the    *)
(* constraints of it and of the scopes below it are evaluated.             *)
(*                                                                         *)
(* A heading is its number in document order, and its text the name that   *)
(* matchers tell apart and the value a capture reads.  Matchers accept     *)
(* sets of names.  The assignment engine is used through its specification *)
(* (module Assignments, which module Sequence implements).  `agenda`   *)
(* is the call stack: what the recursion of the code still has to visit.   *)
(*                                                                         *)
(* Rules, blocks and items are numbered from 1.  Grammars and Contents are *)
(* all the scopes and all the content and item grammars that the schemas   *)
(* are made of; QueryRefused says which queries may exceed the budget.     *)
(***************************************************************************)
EXTENDS Constraints

Lists == INSTANCE SequencesExt

CONSTANTS
    Cases,          \* documents, the schemas they are held against, and the option
    Unparsable,     \* the value a capture of a heading cannot parse
    Unbounded,
    Grammars, Contents,
    QueryRefused(_, _)

IsSeq(s) == s \in Seq(Lists!ToSet(s))
Kinds == {"specific", "wildcard", "one_of_any"}

ASSUME NoneIsApart == None \notin Int /\ None \notin Seq(Nat)
ASSUME GrammarsNest ==
    /\ \A scope \in Grammars :
          /\ IsSeq(scope.rules) /\ IsSeq(scope.constraints)
          /\ \A c \in DOMAIN scope.rules : /\ scope.rules[c].kind \in Kinds
                                          /\ scope.rules[c].children \in Grammars \union {None}
                                          /\ scope.rules[c].content \in Contents \union {None}
          /\ \A k \in DOMAIN scope.constraints : IsSeq(scope.constraints[k].refs)
    /\ \A rules \in Contents :
          /\ IsSeq(rules)
          /\ \A c \in DOMAIN rules : rules[c].kind \in Kinds /\ rules[c].items \in Contents \union {None}
ASSUME CasesFit ==
    \A case \in Cases :
        /\ \A document \in case.documents :
              /\ document.level \in Seq(Nat \ {0})
              /\ \A h \in 0 .. Len(document.level) :
                    /\ IsSeq(document.preamble[h])
                    /\ \A i \in DOMAIN document.preamble[h] :
                          document.preamble[h][i].items = None \/ IsSeq(document.preamble[h][i].items)
        /\ \A schema1 \in case.schemas :
              /\ schema1.shape \in {"outline", "untitled", "titled"}
              /\ schema1.scope \in Grammars \union {None} /\ schema1.content \in Contents \union {None}
              /\ IsSeq(schema1.captures)
        /\ case.skipping \subseteq BOOLEAN

MappingBlocks == UNION {{d.frontmatter : d \in {e \in case.documents : e.frontmatter.is = "mapping"}} : case \in Cases}
ASSUME QueriesFindFinitelyMany ==
    \A scope \in Grammars, root \in {block.root : block \in MappingBlocks} :
        \A k \in DOMAIN scope.constraints : \A p \in Lists!ToSet(Operands(scope.constraints[k])) :
            p.is = "query" => IsFiniteSet(QueryResult(p.query, root))

VARIABLES
    level, text, preamble, frontmatter, disabled,   \* the document
    schema, allowSkipped,                           \* the schema and its option
    agenda, pending, bound, captured,               \* the walk
    values,                                         \* the frontmatter's captures
    outcome

input == <<level, text, preamble, frontmatter, disabled, schema, allowSkipped>>
vars  == <<input, agenda, pending, bound, captured, values, outcome>>

Heading == DOMAIN level

(* The elements of a sequence that are in a set: SelectSeq, in a form that  *)
(* can be reasoned about.                                                   *)
Only(s, S) ==
    LET kept[i \in 0 .. Len(s)] ==
            IF i = 0 THEN <<>> ELSE IF s[i] \in S THEN Append(kept[i - 1], s[i]) ELSE kept[i - 1]
    IN  kept[Len(s)]

-----------------------------------------------------------------------------
(* The document: headings nest under the nearest earlier one of lower level. *)

Parent(h) ==
    LET above == {g \in 1 .. h - 1 : level[g] < level[h]}
    IN  IF above = {} THEN 0 ELSE CHOOSE g \in above : \A k \in above : k <= g
Under(h)  == Only([i \in Heading |-> i], {g \in Heading : Parent(g) = h})
HasTitle  == \E h \in Heading : level[h] = 1

(* What a heading, or the root standing in for one, of this level admits    *)
(* into its scope.                                                          *)
Admits(base, h) == level[h] = base + 1 \/ (allowSkipped /\ level[h] > base + 1)
AdmittedAtRoot(base) == Only(Under(0), {h \in Heading : Admits(base, h)})
(* Bug: children that skip levels are admitted. *)
ChildSectionsAll(h) == Under(h)
ChildSections(h) == Only(Under(h), {g \in Heading : Admits(level[h], g)})

(* The level the root stands in at. *)
RootLevel ==
    CASE schema.shape = "outline"  -> 0
      [] schema.shape = "untitled" -> 1
      [] schema.shape = "titled"   -> IF HasTitle THEN 0 ELSE 1

-----------------------------------------------------------------------------
(* Diagnostics: what, about what kind of node, anchored at which node, and  *)
(* attributed to which node of the schema.  Anchors are <<>> for the root,  *)
(* <<h>>, <<h, block>> and <<h, block, item>>, with h = 0 before the first  *)
(* heading.  The path of a schema node gives the rules it is nested in.     *)
(* `about` has the entry of the frontmatter, the entry whose position is    *)
(* shown and the query that read it, or the headings involved.              *)

By(node, path) == [node |-> node, path |-> path]
Diagnostic(what, kind, at, by) == [id |-> <<what, kind>>, at |-> at, by |-> by, about |-> <<>>]
EntryDiagnostic(what, pointer, anchor, query, by) ==
    [Diagnostic(what, "frontmatter", <<>>, by) EXCEPT
       !.about = <<pointer, EnclosingAnchor(frontmatter.anchors, anchor), query>>]

(* Inline comments hide diagnostics about nodes that are present; the file's *)
(* hide any.                                                                 *)
Absences == {"missing", "too-few"}
IsHidden(d) ==
    \/ <<None, d.id>> \in disabled
    \/ /\ d.id[1] \notin Absences /\ d.id[2] # "frontmatter"
       /\ <<d.at, d.id>> \in disabled

Emit(ds) == pending' = pending \o Lists!SetToSeq({[diagnostic |-> d, hidden |-> IsHidden(d)] : d \in ds})

-----------------------------------------------------------------------------
(* One consuming sequence: headings of a scope, blocks of a preamble or     *)
(* items of a list.                                                         *)

EdgeCost(rule, name) ==
    CASE rule.kind = "wildcard"   -> 1
      [] rule.kind = "specific"   -> IF name \in rule.accepts THEN 0 ELSE None
      [] rule.kind = "one_of_any" -> IF name \in rule.accepts THEN 0 ELSE 1
Accepts(rule, name) == EdgeCost(rule, name) # None

Engine == INSTANCE Assignments

Problem(rules, names) ==
    [nodes   |-> Len(names),
     columns |-> Len(rules),
     kinds   |-> [c \in 0 .. Len(rules) - 1 |-> rules[c + 1].kind],
     cards   |-> [c \in 0 .. Len(rules) - 1 |-> [min |-> rules[c + 1].min, max |-> rules[c + 1].max]],
     edges   |-> [c \in 0 .. Len(rules) - 1 |->
                    [i \in 0 .. Len(names) - 1 |-> EdgeCost(rules[c + 1], names[i + 1])]]]

AssignInOrder(rules, names) ==
    LET assigned == Engine!Verdict(Problem(rules, names)).assigned
    IN  [i \in 1 .. Len(names) |-> IF assigned[i - 1] = None THEN None ELSE assigned[i - 1] + 1]

FirstAccepting(rules, name) ==
    LET accepting == {c \in 1 .. Len(rules) : Accepts(rules[c], name)}
    IN  IF accepting = {} THEN None ELSE CHOOSE c \in accepting : \A d \in accepting : c <= d

AssignFirst(rules, names) == [i \in 1 .. Len(names) |-> FirstAccepting(rules, names[i])]

Taking(assigned, c) == {i \in DOMAIN assigned : assigned[i] = c}

(* Bug: a node some rule accepts is not reported as misplaced. *)
LeftOverUnexpected(kind, rules, names, assigned, anchors, by) ==
    {Diagnostic("unexpected", kind, anchors[i], by) :
        i \in {j \in Taking(assigned, None) : FirstAccepting(rules, names[j]) = None}}

(* Nodes without a rule. *)
LeftOver(kind, rules, names, assigned, anchors, by) ==
    {Diagnostic(IF FirstAccepting(rules, names[i]) = None THEN "unexpected" ELSE "misplaced",
                kind, anchors[i], by) : i \in Taking(assigned, None)}


(* emit_sequence_cardinality: absence is anchored at the parent, an excess  *)
(* at the first node beyond the maximum.                                    *)
Surplus(rules, assigned, c) ==
    {i \in Taking(assigned, c) :
        Cardinality({j \in Taking(assigned, c) : j < i}) = rules[c].max}

CardinalityOf(kind, rules, assigned, anchors, parent, node, path) ==
    UNION {
        LET count == Cardinality(Taking(assigned, c))
            by    == By(node, Append(path, c))
        IN  (IF count < rules[c].min
             THEN {Diagnostic(IF count = 0 THEN "missing" ELSE "too-few", kind, parent, by)}
             ELSE {})
            \union
            (IF rules[c].max = Unbounded THEN {}
             ELSE {Diagnostic("too-many", kind, anchors[i], by) : i \in Surplus(rules, assigned, c)})
        : c \in 1 .. Len(rules)}

-----------------------------------------------------------------------------
(* Tasks of the walk. *)
Task(do) == [do |-> do]
ContentTask(h, rules, path, absence) ==
    [do |-> "content", of |-> h, rules |-> rules, path |-> path, absence |-> absence]
ItemsTask(h, block, rules, path) ==
    [do |-> "items", of |-> h, block |-> block, rules |-> rules, path |-> path]
ScopeTask(sections, scope, path, parent) ==
    [do |-> "scope", sections |-> sections, scope |-> scope, path |-> path, parent |-> parent]
BoundScope(sections, scope, path) == [sections |-> sections, scope |-> scope, path |-> path]
ConstraintsTask(current, root, parent) ==
    [do |-> "constraints", current |-> current, root |-> root, parent |-> parent]
CaptureTask(h, rule, path) == [do |-> "capture", of |-> h, rule |-> rule, path |-> path]
OrderTask(sections, rules, path) ==
    [do |-> "order", sections |-> sections, rules |-> rules, path |-> path]

Doing(do) == outcome = "running" /\ agenda # <<>> /\ Head(agenda).do = do
Now  == Head(agenda)
Continue(tasks) == agenda' = tasks \o Tail(agenda)

Init ==
    /\ \E case \in Cases :
          /\ \E document \in case.documents :
                /\ level = document.level /\ text = document.text /\ preamble = document.preamble
                /\ frontmatter = document.frontmatter /\ disabled = document.disabled
          /\ schema \in case.schemas /\ allowSkipped \in case.skipping
    /\ agenda = <<Task("frontmatter"), Task("captures"), Task("levels"), Task("root")>>
    /\ pending = <<>>
    /\ bound = [h \in Heading |-> None]
    /\ captured = [h \in Heading |-> "unevaluated"]
    /\ values = <<>>
    /\ outcome = "running"

ValidateFrontmatter ==
    /\ Doing("frontmatter")
    /\ Emit((IF frontmatter.is = "absent" /\ schema.frontmatter = "required"
             THEN {Diagnostic("missing", "frontmatter", <<>>, By("frontmatter", <<>>))} ELSE {})
            \union
            (IF frontmatter.is # "absent" /\ schema.frontmatter = "forbidden"
             THEN {Diagnostic("forbidden", "frontmatter", <<>>, By("frontmatter", <<>>))} ELSE {})
            \union
            (IF frontmatter.is = "invalid"
             THEN {Diagnostic("invalid", "frontmatter", <<>>, By("frontmatter", <<>>))} ELSE {})
            \union
            (IF frontmatter.is = "mapping" /\ ~frontmatter.accepted /\ schema.linked
             THEN {Diagnostic("schema", "frontmatter", <<>>, By("frontmatter_schema", <<>>))} ELSE {}))
    /\ Continue(<<>>)
    /\ UNCHANGED <<input, bound, captured, values, outcome>>

(* evaluate_frontmatter_captures: each declared capture once; whether a     *)
(* problem is shown changes nothing about what is kept.                     *)
EvaluateCaptures ==
    /\ Doing("captures")
    /\ LET all == [c \in DOMAIN schema.captures |-> EvaluateCapture(frontmatter, schema.captures[c])]
       IN  /\ values' = [c \in DOMAIN all |-> all[c].state]
           /\ Emit({EntryDiagnostic(all[c].problem, all[c].pointer, all[c].anchor, None,
                                    By("frontmatter_capture", <<schema.captures[c].name>>)) :
                      c \in {k \in DOMAIN all : all[k].problem # None}})
    /\ Continue(<<>>)
    /\ UNCHANGED <<input, bound, captured, outcome>>

Skips(h) == level[h] > (IF Parent(h) = 0 THEN RootLevel ELSE level[Parent(h)]) + 1

ValidateSkippedLevels ==
    /\ Doing("levels")
    /\ Emit(IF allowSkipped THEN {}
            ELSE {Diagnostic("skipped-level", "section", <<h>>, By("none", <<>>)) : h \in {g \in Heading : Skips(g)}})
    /\ Continue(<<>>)
    /\ UNCHANGED <<input, bound, captured, values, outcome>>

RootTasks(sections, parent) ==
    LET root == BoundScope(sections, schema.scope, <<>>)
    IN  <<ScopeTask(sections, schema.scope, <<>>, parent), ConstraintsTask(root, root, parent)>>

EnterOutline ==
    /\ Doing("root") /\ schema.shape = "outline"
    /\ Continue(<<ContentTask(0, schema.content, <<>>, <<>>)>> \o RootTasks(AdmittedAtRoot(0), <<>>))
    /\ UNCHANGED <<input, pending, bound, captured, values, outcome>>

(* `title: null`: the preamble first, then every h1 is refused. *)
EnterUntitled ==
    /\ Doing("root") /\ schema.shape = "untitled"
    /\ Continue(<<ContentTask(0, schema.content, <<>>, <<>>), Task("refuse_titles")>>
                \o RootTasks(AdmittedAtRoot(1), <<>>))
    /\ UNCHANGED <<input, pending, bound, captured, values, outcome>>

RefuseTitles ==
    /\ Doing("refuse_titles")
    /\ Emit({Diagnostic("not-allowed", "section", <<h>>, By("title", <<>>)) :
               h \in {g \in Heading : level[g] = 1}})
    /\ Continue(<<>>)
    /\ UNCHANGED <<input, bound, captured, values, outcome>>

MissTitle ==
    /\ Doing("root") /\ schema.shape = "titled" /\ ~HasTitle
    /\ Emit({Diagnostic("missing", "title", <<>>, By("title", <<>>))})
    /\ Continue(RootTasks(AdmittedAtRoot(1), <<>>))
    /\ UNCHANGED <<input, bound, captured, values, outcome>>

(* Every h1 is the title; deeper headings before the first one join its     *)
(* sections.  With more than one, each speaks for itself.                   *)
Titles == Only(Under(0), {h \in Heading : level[h] = 1})
Strays == Only(AdmittedAtRoot(0), {h \in Heading : level[h] # 1})
(* Bug: however many titles there are, what is missing is said of the root. *)
VoiceOfRoot(h) == <<>>
Voice(h) == IF Len(Titles) > 1 THEN <<h>> ELSE <<>>

VisitTitle(i) ==
    LET h == Titles[i] IN
    <<ContentTask(h, schema.content, <<>>, Voice(h))>>
      \o RootTasks((IF i = 1 THEN Strays ELSE <<>>) \o ChildSections(h), Voice(h))

EnterTitled ==
    /\ Doing("root") /\ schema.shape = "titled" /\ HasTitle
    /\ Emit({Diagnostic("not-allowed", "section", <<h>>, By("title", <<>>)) :
                h \in {g \in Lists!ToSet(Titles) :
                         schema.title # None /\ text[g].name \notin schema.title}}
            \union
            (IF Len(Titles) > 1 THEN {Diagnostic("too-many", "section", <<Titles[2]>>, By("title", <<>>))}
             ELSE {}))
    /\ Continue(Lists!FlattenSeq([i \in 1 .. Len(Titles) |-> VisitTitle(i)]))
    /\ UNCHANGED <<input, bound, captured, values, outcome>>

(* visit_content and visit_assigned_lists; None is an omitted grammar. *)
VisitContent ==
    /\ Doing("content")
    /\ LET blocks   == preamble[Now.of]
           names    == [i \in 1 .. Len(blocks) |-> blocks[i].name]
           anchors  == [i \in 1 .. Len(blocks) |-> <<Now.of, i>>]
           assigned == AssignInOrder(Now.rules, names)
           lists    == Only([i \in 1 .. Len(blocks) |-> i],
                            {i \in 1 .. Len(blocks) : /\ assigned[i] # None /\ blocks[i].items # None
                                                      /\ Now.rules[assigned[i]].items # None})
       IN  IF Now.rules = None
           THEN Continue(<<>>) /\ UNCHANGED pending
           ELSE /\ Emit(LeftOver("block", Now.rules, names, assigned, anchors, By("rule", Now.path))
                        \union CardinalityOf("block", Now.rules, assigned, anchors, Now.absence,
                                             "content", Now.path))
                /\ Continue([i \in 1 .. Len(lists) |->
                            ItemsTask(Now.of, lists[i], Now.rules[assigned[lists[i]]].items,
                                      Append(Now.path, assigned[lists[i]]))])
    /\ UNCHANGED <<input, bound, captured, values, outcome>>

VisitItems ==
    /\ Doing("items")
    /\ LET names    == preamble[Now.of][Now.block].items
           list     == <<Now.of, Now.block>>
           anchors  == [i \in 1 .. Len(names) |-> Append(list, i)]
           assigned == AssignInOrder(Now.rules, names)
       IN  Emit(LeftOver("item", Now.rules, names, assigned, anchors, By("content", Now.path))
                \union CardinalityOf("item", Now.rules, assigned, anchors, list,
                                     "item", Now.path))
    /\ Continue(<<>>)
    /\ UNCHANGED <<input, bound, captured, values, outcome>>

(* bind_scope and bind_child_scope. *)
Guards(scope, h) == {g \in 1 .. Len(scope.guards) : text[h].name \in scope.guards[g]}
Guarded(scope, h) == Guards(scope, h) # {}

RefusedByGuard(scope, sections, path) ==
    {Diagnostic("not-allowed", "section", <<h>>,
                By("guard", Append(path, CHOOSE g \in Guards(scope, h) : \A k \in Guards(scope, h) : g <= k))) :
        h \in {k \in Lists!ToSet(sections) : Guarded(scope, k)}}

(* Bug: refused headings stay in the scope. *)
RetainedWithGuarded(scope, sections) ==
    Only(sections, {h \in Heading :
        scope.extras = "anywhere" => FirstAccepting(scope.rules, text[h].name) # None})

(* `extras: anywhere` drops every heading no rule accepts. *)
Retained(scope, sections) ==
    Only(sections, {h \in Heading :
        /\ ~Guarded(scope, h)
        /\ scope.extras = "anywhere" => FirstAccepting(scope.rules, text[h].name) # None})

Names(sections) == [i \in 1 .. Len(sections) |-> text[sections[i]].name]

AssignScope(scope, names) ==
    IF scope.mode = "ordered" THEN AssignInOrder(scope.rules, names)
    ELSE AssignFirst(scope.rules, names)

VisitSection(h, rule, path) ==
    <<CaptureTask(h, rule, path),
      ContentTask(h, rule.content, path, <<h>>),
      ScopeTask(ChildSections(h), rule.children, path, <<h>>)>>

BindScope ==
    /\ Doing("scope")
    /\ LET scope    == Now.scope
           kept     == Retained(scope, Now.sections)
           names    == Names(kept)
           assigned == AssignScope(scope, names)
           anchors  == [i \in 1 .. Len(kept) |-> <<kept[i]>>]
           occupied == Only([i \in 1 .. Len(kept) |-> i], {i \in 1 .. Len(kept) : assigned[i] # None})
       IN  IF scope = None
           THEN Continue(<<>>) /\ UNCHANGED <<pending, bound>>
           ELSE IF scope.mode = "guards_only"
           THEN /\ Emit(RefusedByGuard(scope, Now.sections, Now.path))
                /\ Continue(<<>>)
                /\ UNCHANGED bound
           ELSE /\ Emit(RefusedByGuard(scope, Now.sections, Now.path)
                        \union LeftOver("section", scope.rules, names, assigned, anchors,
                                        By("rule", Now.path))
                        \union CardinalityOf("section", scope.rules, assigned, anchors, Now.parent,
                                             "rule", Now.path))
                /\ bound' = [h \in Heading |->
                               IF \E i \in 1 .. Len(kept) : kept[i] = h /\ assigned[i] # None
                               THEN Append(Now.path, assigned[CHOOSE i \in 1 .. Len(kept) : kept[i] = h])
                               ELSE bound[h]]
                /\ Continue(Lists!FlattenSeq(
                            [k \in 1 .. Len(occupied) |->
                                LET i == occupied[k] IN
                                VisitSection(kept[i], scope.rules[assigned[i]],
                                             Append(Now.path, assigned[i]))])
                         \o <<OrderTask(kept, scope.rules, Now.path)>>)
    /\ UNCHANGED <<input, captured, values, outcome>>

(* bind_rule_captures: the state is kept whether or not the diagnostic is   *)
(* hidden.                                                                  *)
BindRuleCaptures ==
    /\ Doing("capture")
    /\ LET h == Now.of IN
       IF ~Now.rule.captures
       THEN UNCHANGED <<captured, pending>>
       ELSE IF text[h].value = Unparsable
       THEN /\ captured' = [captured EXCEPT ![h] = "invalid"]
            /\ Emit({Diagnostic("invalid-value", "section", <<h>>, By("capture", Now.path))})
       ELSE /\ captured' = [captured EXCEPT ![h] = "valid"]
            /\ UNCHANGED pending
    /\ Continue(<<>>)
    /\ UNCHANGED <<input, bound, values, outcome>>

(* value_order::violations: adjacent pairs of the occurrences of one rule,  *)
(* unless one of their values is not valid.                                 *)
Occurrences(sections, by) == Only(sections, {h \in Heading : bound[h] = by})

Satisfies(order, first, second) ==
    CASE order = "ascending"  -> first <= second
      [] order = "strict"     -> first < second
      [] order = "descending" -> first >= second

(* Bug: a value counts as valid unless a visible diagnostic says otherwise. *)
ComparableByReport(hs) ==
    \A i \in 1 .. Len(hs), j \in DOMAIN pending :
        /\ pending[j].diagnostic.id = <<"invalid-value", "section">>
        /\ pending[j].diagnostic.at = <<hs[i]>>
        => pending[j].hidden
Comparable(hs) == \A i \in 1 .. Len(hs) : captured[hs[i]] = "valid"

ValidateValueOrder ==
    /\ Doing("order")
    /\ Emit(UNION {
           LET hs == Occurrences(Now.sections, Append(Now.path, c)) IN
           IF Now.rules[c].order = None \/ ~Comparable(hs) THEN {}
           ELSE {Diagnostic("order-violation", "section", <<hs[i + 1]>>, By("order", Append(Now.path, c))) :
                   i \in {j \in 1 .. Len(hs) - 1 :
                            ~Satisfies(Now.rules[c].order, text[hs[j]].value, text[hs[j + 1]].value)}}
           : c \in 1 .. Len(Now.rules)})
    /\ Continue(<<>>)
    /\ UNCHANGED <<input, bound, captured, values, outcome>>

(* validate_constraints: the constraints of one bound scope, and then of    *)
(* the scopes of its headings.                                              *)
Matched(at, c) ==
    IF c > Len(Rules(at.scope)) THEN <<>> ELSE Only(at.sections, {h \in Heading : bound[h] = Append(at.path, c)})
ChildOf(at, c, h) == BoundScope(ChildSections(h), Rules(at.scope)[c].children, Append(at.path, c))

(* resolve_occurrences: the headings a locator names, or None if it goes    *)
(* through a rule that should match one heading and matched several.        *)
Locate(current, rootScope, locator) ==
    LET steps == locator.steps
        Narrowed(hs, position) ==
            IF position = None THEN hs ELSE IF position < Len(hs) THEN <<hs[position + 1]>> ELSE <<>>
        OneDown(at, k) ==
            LET rule   == steps[k].rule
                plural == \E s \in DOMAIN at.scopes : Len(Matched(at.scopes[s], rule)) > 1
                taken  == Lists!FlattenSeq([s \in DOMAIN at.scopes |->
                            LET hs == Narrowed(Matched(at.scopes[s], rule), steps[k].position) IN
                            [i \in DOMAIN hs |-> <<at.scopes[s], hs[i]>>]])
            IN  [scopes |-> [t \in DOMAIN taken |-> ChildOf(taken[t][1], rule, taken[t][2])],
                 found  |-> [t \in DOMAIN taken |-> taken[t][2]],
                 suspended |-> at.suspended \/ (plural /\ k < Len(steps) /\ steps[k].position = None)]
        start == IF locator.anchor = "root" THEN rootScope ELSE current
        end   == Lists!FoldLeft(OneDown, [scopes |-> <<start>>, found |-> <<>>, suspended |-> FALSE],
                                [k \in DOMAIN steps |-> k])
    IN  IF end.suspended THEN None ELSE end.found

CaptureNamed(name) == CHOOSE c \in DOMAIN schema.captures : schema.captures[c].name = name
TruthOf(p) ==
    IF p.is = "query" THEN QueryTruth(frontmatter, p.query, p.literal)
    ELSE LET c == CaptureNamed(p.name)
         IN  CaptureTruth(values[c], schema.captures[c], frontmatter, schema.frontmatter = "required")

QueriesOf(constraint) == {p \in Lists!ToSet(Operands(constraint)) : p.is = "query"}
TooCostly(constraint) ==
    frontmatter.is = "mapping" /\ \E p \in QueriesOf(constraint) : QueryRefused(p.query, frontmatter.root)

(* A bare query reports every value that is no boolean. *)
InvalidReads(constraint, by) ==
    UNION {{EntryDiagnostic("invalid-value", node[1], node[1], p.query, [by EXCEPT !.node = "read"]) :
              node \in Unreadable(QueryNodes(frontmatter, p.query))} :
           p \in {q \in QueriesOf(constraint) : q.literal = None}}

(* Resolved::proposition, of every operand. *)
ResolveAll(operands) ==
    [i \in DOMAIN operands |-> IF operands[i].is = "rule" THEN OfRule(Locate(Now.current, Now.root, operands[i]))
                               ELSE OfFrontmatter(TruthOf(operands[i]))]

Violation(constraint, by) ==
    LET resolved == ResolveAll(Operands(constraint)) IN
    IF Evaluate(constraint, resolved) # "unsatisfied" THEN {}
    ELSE {[Diagnostic(constraint.is, "constraint", Now.parent, by) EXCEPT !.about = <<Involved(resolved)>>]}

ValidateConstraints ==
    /\ Doing("constraints")
    /\ LET declared == ConstraintsOf(Now.current.scope)
           By1(k)   == By("constraint", Append(Now.current.path, k))
           under    == Only(Now.current.sections, {h \in Heading : \E c \in DOMAIN Rules(Now.current.scope) :
                                                                     h \in Lists!ToSet(Matched(Now.current, c))})
       IN  /\ \A k \in DOMAIN declared : ~TooCostly(declared[k])
           /\ Emit(UNION {InvalidReads(declared[k], By1(k)) \cup Violation(declared[k], By1(k)) : k \in DOMAIN declared})
           /\ Continue([i \in DOMAIN under |->
                         ConstraintsTask(ChildOf(Now.current, Lists!Last(bound[under[i]]), under[i]), Now.root, <<under[i]>>)])
    /\ UNCHANGED <<input, bound, captured, values, outcome>>

(* A query that may exceed the budget ends the walk without a verdict.      *)
RefuseQuery ==
    /\ Doing("constraints")
    /\ \E constraint \in Lists!ToSet(ConstraintsOf(Now.current.scope)) : TooCostly(constraint)
    /\ outcome' = "refused"
    /\ pending' = <<>>
    /\ agenda' = <<>>
    /\ UNCHANGED <<input, bound, captured, values>>

(* A table of the assignment that cannot be allocated ends the walk without *)
(* a verdict.                                                               *)
Exhaust ==
    /\ \/ Doing("scope") /\ Now.scope # None
       \/ Doing("content") /\ Now.rules # None
       \/ Doing("items")
    /\ outcome' = "failed"
    /\ pending' = <<>>
    /\ agenda' = <<>>
    /\ UNCHANGED <<input, bound, captured, values>>

Finish ==
    /\ outcome = "running" /\ agenda = <<>>
    /\ outcome' = "reported"
    /\ UNCHANGED <<input, agenda, pending, bound, captured, values>>

Next ==
    \/ ValidateFrontmatter \/ EvaluateCaptures \/ ValidateSkippedLevels
    \/ EnterOutline \/ EnterUntitled \/ RefuseTitles \/ MissTitle \/ EnterTitled
    \/ VisitContent \/ VisitItems \/ BindScope \/ BindRuleCaptures \/ ValidateValueOrder
    \/ ValidateConstraints \/ RefuseQuery
    \/ Exhaust \/ Finish

Spec == Init /\ [][Next]_vars

-----------------------------------------------------------------------------
(* Every variable keeps its type, and a heading is bound to one rule at     *)
(* most, for the rest of the walk.                                          *)
TypeOK ==
    /\ outcome \in {"running", "reported", "failed", "refused"}
    /\ \A i \in DOMAIN pending : pending[i].hidden \in BOOLEAN
    /\ captured \in [Heading -> {"unevaluated", "valid", "invalid"}]
    /\ \A h \in Heading : captured[h] # "unevaluated" => bound[h] # None
    /\ \A i \in DOMAIN agenda :
          agenda[i].do = "scope" => \A h \in Lists!ToSet(agenda[i].sections) : bound[h] = None

Judgements(h) ==
    {i \in DOMAIN pending : /\ pending[i].diagnostic.at = <<h>>
                            /\ pending[i].diagnostic.id \in
                                 {<<what, "section">> : what \in {"not-allowed", "misplaced", "unexpected"}}}

(* Whether the walk may have an opinion of a heading: it is where its       *)
(* parent admits it, and its parent is the root, a title or a bound heading. *)
Reached(h) ==
    IF Parent(h) = 0 THEN level[h] = 1 \/ Admits(RootLevel, h)
    ELSE /\ Admits(level[Parent(h)], h)
         /\ bound[Parent(h)] # None \/ (schema.shape = "titled" /\ level[Parent(h)] = 1)

(* A heading is judged once: no heading that is bound to a rule is also     *)
(* refused, misplaced or unexpected, none is so twice, and below a heading  *)
(* that is not bound nothing is bound or judged.                            *)
OneJudgement ==
    \A h \in Heading :
        /\ Cardinality(Judgements(h)) + (IF bound[h] # None THEN 1 ELSE 0) <= 1
        /\ Judgements(h) # {} \/ bound[h] # None => Reached(h)
JudgedOnce == TypeOK /\ OneJudgement

(* Nothing is said twice, however the scopes of the walk overlap; only what *)
(* a query reads is, when several titles or several headings of a rule ask  *)
(* it again.                                                                *)
SaidOnce ==
    \A i, j \in DOMAIN pending :
        i # j /\ pending[i].diagnostic = pending[j].diagnostic => pending[i].diagnostic.by.node = "read"

(* Outline spec 3.1: no scope sees a subtree that skips a level, unless     *)
(* skipping is allowed; only the skipped level itself is reported there.    *)
SkippedSubtreesSilent ==
    \A h \in Heading, i \in DOMAIN pending :
        /\ ~allowSkipped /\ outcome = "reported"
        /\ Skips(h) \/ (Parent(h) # 0 /\ Skips(Parent(h)))
        /\ pending[i].diagnostic.at # <<>> /\ Head(pending[i].diagnostic.at) = h
        => pending[i].diagnostic.id = <<"skipped-level", "section">>

(* Outline spec 3.8 and 6.3: an invalid value among the headings of a rule  *)
(* suspends its order in that scope, even when a comment hides the          *)
(* diagnostic about the value.                                              *)
InvalidValueSuspendsOrder ==
    \A i \in DOMAIN pending, g, h \in Heading :
        /\ pending[i].diagnostic.id = <<"order-violation", "section">>
        /\ pending[i].diagnostic.at = <<h>>
        /\ Parent(g) = Parent(h) /\ bound[g] = bound[h]
        => text[g].value # Unparsable
=============================================================================
