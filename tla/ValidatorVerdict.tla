-------------------------- MODULE ValidatorVerdict --------------------------
(***************************************************************************)
(* When a document conforms to a schema, by recursion over both and with   *)
(* no walk: what a validation without a single diagnostic means.           *)
(***************************************************************************)
EXTENDS Validator, JsonPath

LOCAL SetOf == INSTANCE FiniteSetsExt

(* A sequence satisfies ordered rules if the engine can partition it. *)
Partition(rules, names) == Engine!Verdict(Problem(rules, names))
RuleOf(rules, names, i) == rules[Partition(rules, names).assigned[i - 1] + 1]

ContentConforms(blocks, rules) ==
    LET names == [i \in 1 .. Len(blocks) |-> blocks[i].name] IN
    rules # None =>
        /\ Partition(rules, names).accepted
        /\ \A i \in 1 .. Len(blocks) :
              LET items == RuleOf(rules, names, i).items IN
              blocks[i].items # None /\ items # None => Partition(items, blocks[i].items).accepted

Unguarded(scope, h) == \A accepts \in Lists!ToSet(scope.guards) : text[h].name \notin accepts

ValuesOrdered(order, hs) ==
    order # None => \A i, j \in 1 .. Len(hs) : i < j => Satisfies(order, text[hs[i]].value, text[hs[j]].value)

(* The headings a scope keeps, and those of them each rule takes: what the  *)
(* partition says in an ordered scope, the first that accepts in another.   *)
Accepted(scope, h) == FirstAccepting(scope.rules, text[h].name) # None
Members(sections, scope) ==
    SelectSeq(sections, LAMBDA h : scope.extras = "anywhere" => Accepted(scope, h))
TakenBy(sections, scope, c) ==
    LET members == Members(sections, scope)
        place(h) == CHOOSE i \in DOMAIN members : members[i] = h
    IN  SelectSeq(members, LAMBDA h :
            IF scope.mode = "ordered"
            THEN Partition(scope.rules, Names(members)).assigned[place(h) - 1] = c - 1
            ELSE FirstAccepting(scope.rules, text[h].name) = c)

RECURSIVE ScopeConforms(_, _)
SectionConforms(h, rule) ==
    /\ rule.captures => text[h].value # Unparsable
    /\ ContentConforms(preamble[h], rule.content)
    /\ ScopeConforms(ChildSections(h), rule.children)

ScopeConforms(sections, scope) ==
    scope # None =>
        /\ \A h \in Lists!ToSet(sections) : Unguarded(scope, h)
        /\ scope.mode = "ordered" => Partition(scope.rules, Names(Members(sections, scope))).accepted
        /\ scope.mode = "unordered" =>
              /\ \A h \in Lists!ToSet(Members(sections, scope)) : Accepted(scope, h)
              /\ \A c \in DOMAIN scope.rules :
                    Engine!WithinBounds(Len(TakenBy(sections, scope, c)), scope.rules[c])
        /\ scope.mode # "guards_only" =>
              \A c \in DOMAIN scope.rules :
                 LET taken == TakenBy(sections, scope, c) IN
                 /\ \A h \in Lists!ToSet(taken) : SectionConforms(h, scope.rules[c])
                 /\ ValuesOrdered(scope.rules[c].order, taken)

-----------------------------------------------------------------------------
(* Frontmatter: the block, and every capture a value of its type.           *)
CaptureConforms(declaration) ==
    LET v == Select(frontmatter.root, declaration.components).node IN
    IF v = None THEN ~declaration.required
    ELSE IF v.is = "null" THEN ~declaration.required ELSE Parses(declaration.type, v)

FrontmatterConforms ==
    CASE frontmatter.is = "absent"  -> schema.frontmatter # "required"
      [] frontmatter.is = "invalid" -> FALSE
      [] frontmatter.is = "mapping" -> /\ schema.frontmatter # "forbidden"
                                       /\ schema.linked => frontmatter.accepted
                                       /\ \A c \in DOMAIN schema.captures : CaptureConforms(schema.captures[c])

-----------------------------------------------------------------------------
(* Constraints, each a sentence about the headings its locators name and    *)
(* the values its queries find.                                             *)
RECURSIVE LocatedBy(_, _, _)
LocatedBy(sections, scope, steps) ==
    IF Head(steps).rule > Len(Rules(scope)) THEN {}
    ELSE LET taken == TakenBy(sections, scope, Head(steps).rule)
             at    == Head(steps).position
             named == {taken[i] : i \in {k \in DOMAIN taken : at = None \/ k = at + 1}}
         IN  IF Len(steps) = 1 THEN named
             ELSE UNION {LocatedBy(ChildSections(h), scope.rules[Head(steps).rule].children, Tail(steps)) : h \in named}

Named(p, sections, scope, root) ==
    IF p.anchor = "root" THEN LocatedBy(root, schema.scope, p.steps) ELSE LocatedBy(sections, scope, p.steps)

(* A proposition and a constraint over headings found by `Names1`. *)
Holds(p, Headings(_)) ==
    CASE p.is = "rule"    -> Headings(p) # {}
      [] p.is = "query"   ->
            \E node \in QueryNodes(frontmatter, p.query) :
                IF p.literal = None THEN <<node[2].is, node[2].text>> = <<"bool", "true">>
                ELSE <<node[2].is, node[2].text>> = <<p.literal.is, p.literal.text>>
      [] p.is = "capture" ->
            LET v == Select(frontmatter.root, schema.captures[CaptureNamed(p.name)].components).node
            IN  frontmatter.is = "mapping" /\ v # None /\ v.is # "null" /\ <<v.is, v.text>> # <<"bool", "false">>

ConstraintHolds(k, Headings(_)) ==
    LET true  == {i \in DOMAIN k.refs : Holds(k.refs[i], Headings)} IN
    CASE k.is = "one_of"      -> \E i \in true : true = {i}
      [] k.is = "any_of"      -> true # {}
      [] k.is = "at_most_one" -> \A i, j \in true : i = j
      [] k.is = "all_or_none" -> true = {} \/ true = DOMAIN k.refs
      [] k.is = "requires"    -> Holds(k.condition, Headings) => true = DOMAIN k.refs
      [] k.is = "conflicts"   -> Holds(k.condition, Headings) => true = {}
      [] k.is = "ordered"     -> \A i, j \in DOMAIN k.refs : \A g \in Headings(k.refs[i]), h \in Headings(k.refs[j]) :
                                    i < j => g < h

(* A query that reads booleans finds nothing else. *)
ReadsConform(k) ==
    \A p \in QueriesOf(k) : p.literal = None => Unreadable(QueryNodes(frontmatter, p.query)) = {}

RECURSIVE ConstraintsConform(_, _, _)
ConstraintsConform(sections, scope, root) ==
    /\ \A k \in Lists!ToSet(ConstraintsOf(scope)) :
          ReadsConform(k) /\ ConstraintHolds(k, LAMBDA p : Named(p, sections, scope, root))
    /\ \A c \in DOMAIN Rules(scope) : \A h \in Lists!ToSet(TakenBy(sections, scope, c)) :
          ConstraintsConform(ChildSections(h), scope.rules[c].children, root)

-----------------------------------------------------------------------------
RootConforms(sections) ==
    ScopeConforms(sections, schema.scope) /\ ConstraintsConform(sections, schema.scope, sections)

(* A titled schema wants one title; without `h1` rules the root stands in   *)
(* for it.                                                                  *)
TopConforms ==
    CASE schema.shape = "outline" ->
           ContentConforms(preamble[0], schema.content) /\ RootConforms(AdmittedAtRoot(0))
      [] schema.shape = "untitled" ->
           /\ ~HasTitle
           /\ ContentConforms(preamble[0], schema.content)
           /\ RootConforms(AdmittedAtRoot(1))
      [] schema.shape = "titled" ->
           /\ Len(Titles) = 1
           /\ schema.title # None => text[Titles[1]].name \in schema.title
           /\ ContentConforms(preamble[Titles[1]], schema.content)
           /\ RootConforms(Strays \o ChildSections(Titles[1]))

Conforms ==
    /\ FrontmatterConforms
    /\ allowSkipped \/ \A h \in Heading : ~Skips(h)
    /\ TopConforms

(* The walk reports nothing exactly when the document conforms, constraints *)
(* included, and what it reports after a failure or a refused query is      *)
(* nothing at all.                                                          *)
CleanMeansConforming ==
    /\ outcome = "reported" => (pending = <<>> <=> Conforms)
    /\ outcome \in {"failed", "refused"} => pending = <<>>

-----------------------------------------------------------------------------
(* Whether a proposition is a fair question, from what was reported: no     *)
(* value it rests on is invalid or missing, and its descent singles out one *)
(* heading wherever it must.                                                *)
CaptureReported(name) ==
    \E i \in DOMAIN pending : /\ pending[i].diagnostic.by = By("frontmatter_capture", <<name>>)
                              /\ pending[i].diagnostic.id[1] \in {"invalid-value", "missing-value"}
BlockReported ==
    \E i \in DOMAIN pending : pending[i].diagnostic.id \in {<<"invalid", "frontmatter">>, <<"missing", "frontmatter">>}

RECURSIVE Singled(_, _)
Singled(at, steps) ==
    Len(steps) > 1 =>
        LET found == Matched(at, Head(steps).rule) IN
        /\ Head(steps).position = None => Len(found) <= 1
        /\ \A i \in DOMAIN found : Head(steps).position \in {None, i - 1} =>
              Singled(ChildOf(at, Head(steps).rule, found[i]), Tail(steps))

Fair(p, at, root) ==
    CASE p.is = "rule"    -> Singled(IF p.anchor = "root" THEN root ELSE at, p.steps)
      [] p.is = "capture" -> ~CaptureReported(p.name) /\ ~BlockReported
      [] p.is = "query"   -> /\ frontmatter.is # "invalid"
                             /\ p.literal = None => Unreadable(QueryNodes(frontmatter, p.query)) = {}

RECURSIVE LocatedAmong(_, _)
LocatedAmong(at, steps) ==
    LET found == Matched(at, Head(steps).rule)
        named == {found[i] : i \in {n \in DOMAIN found : Head(steps).position \in {None, n - 1}}}
    IN  IF Len(steps) = 1 THEN named
        ELSE UNION {LocatedAmong(ChildOf(at, Head(steps).rule, h), Tail(steps)) : h \in named}

(* The bound scopes: what each root holds, and below it.                    *)
Roots ==
    CASE schema.shape = "titled" /\ HasTitle ->
            {[sections |-> (IF i = 1 THEN Strays ELSE <<>>) \o ChildSections(Titles[i]), parent |-> Voice(Titles[i])] :
               i \in DOMAIN Titles}
      [] OTHER -> {[sections |-> AdmittedAtRoot(RootLevel), parent |-> <<>>]}
RECURSIVE Instances(_, _, _)
Instances(at, root, parent) ==
    {[at |-> at, root |-> root, parent |-> parent]} \cup
    UNION {UNION {Instances(ChildOf(at, c, h), root, <<h>>) : h \in Lists!ToSet(Matched(at, c))} :
           c \in DOMAIN Rules(at.scope)}
AllInstances ==
    UNION {LET at == BoundScope(r.sections, schema.scope, <<>>) IN Instances(at, at, r.parent) : r \in Roots}

(* Outline spec 3.8 and 4.4: in every scope a constraint is found violated  *)
(* exactly when it does not hold and every operand of it is fair ground: no *)
(* operand that decides hides one that is not, no comment that hides the    *)
(* diagnostic about the ground brings the constraint back, and no operand   *)
(* that is fair is taken for one that is not.                               *)
ViolatedOnFairGround ==
    outcome = "reported" =>
    \A scope \in AllInstances : \A k \in DOMAIN ConstraintsOf(scope.at.scope) :
        LET constraint == ConstraintsOf(scope.at.scope)[k]
            Among(p) == LocatedAmong(IF p.anchor = "root" THEN scope.root ELSE scope.at, p.steps)
            reported == \E i \in DOMAIN pending :
                           /\ pending[i].diagnostic.id = <<constraint.is, "constraint">>
                           /\ pending[i].diagnostic.at = scope.parent
                           /\ pending[i].diagnostic.by = By("constraint", Append(scope.at.path, k))
        IN  reported <=> /\ \A p \in Lists!ToSet(Operands(constraint)) : Fair(p, scope.at, scope.root)
                         /\ ~ConstraintHolds(constraint, Among)

-----------------------------------------------------------------------------
(* Outline spec 2.3 and 6.2: what is said of an entry of the frontmatter    *)
(* leads there: an invalid value is at its pointer, a missing one is not,   *)
(* and the position shown is the nearest entry above it that has one.       *)
EntriesAreWhereTheySay ==
    \A i \in DOMAIN pending :
        LET d == pending[i].diagnostic IN
        /\ d.by.node \in {"frontmatter_capture", "read"} /\ d.about[1] # None
        => /\ d.id[1] = "invalid-value" => At(frontmatter.root, d.about[1]) # None
           /\ d.id[1] = "missing-value" =>
                 LET v == At(frontmatter.root, d.about[1]) IN v = None \/ v.is = "null"
           /\ LET there == {n \in 0 .. Len(d.about[1]) : At(frontmatter.root, SubSeq(d.about[1], 1, n)) # None}
                  shown == {n \in there : n > 0 /\ SubSeq(d.about[1], 1, n) \in frontmatter.anchors}
              IN  d.about[2] = IF shown = {} THEN None ELSE SubSeq(d.about[1], 1, SetOf!Max(shown))

(* Outline spec 4.6: what a query may cost is bounded before it is run: no  *)
(* step of its evaluation produces more nodes than the estimate read off    *)
(* its spelling, and a query of the guaranteed core is never refused.       *)
EstimateIsSound ==
    Doing("frontmatter") /\ frontmatter.is = "mapping" =>
    \A k \in Lists!ToSet(ConstraintsOf(schema.scope)) : \A p \in QueriesOf(k) :
        /\ LargestStep(p.query, frontmatter.root) <= EstimatedNodes(Fanout(Source(p.query)), frontmatter.root)
        /\ IsCore(p.query) => ~Refused(p.query, frontmatter.root)
=============================================================================
