---------------------------- MODULE MCValidator -----------------------------
(* Schemas and documents for TLC. *)
EXTENDS ValidatorVerdict, TLC

(* --- schemas --- *)
Rule(kind, accepts, min, max, children) ==
    [kind |-> kind, accepts |-> accepts, min |-> min, max |-> max, captures |-> FALSE,
     order |-> None, content |-> None, items |-> None, children |-> children]
Specific(accepts, min, max) == Rule("specific", accepts, min, max, None)
Wildcard(min, max) == Rule("wildcard", {}, min, max, None)
OneOfAny(accepts, min, max) == Rule("one_of_any", accepts, min, max, None)
OrderedBy(order, rule) == [rule EXCEPT !.captures = TRUE, !.order = order]
Containing(content, rule) == [rule EXCEPT !.content = content]
Listing(items, rule) == [rule EXCEPT !.items = items]

Scope(mode, extras, guards, rules) ==
    [mode |-> mode, extras |-> extras, guards |-> guards, rules |-> rules, constraints |-> <<>>]
GuardsOnly(guards) == Scope("guards_only", "none", guards, <<>>)

Schema(shape, title, content, scope) ==
    [shape |-> shape, title |-> title, content |-> content, scope |-> scope,
     frontmatter |-> "optional", linked |-> FALSE, captures |-> <<>>]

(* --- documents --- *)
Header(name, value) == [name |-> name, value |-> value]
Block(name, items) == [name |-> name, items |-> items]
NoFrontmatter == [is |-> "absent", root |-> None, accepted |-> FALSE, anchors |-> {}]
Document(levels, texts) ==
    [level |-> levels, text |-> texts, preamble |-> [h \in 0 .. Len(levels) |-> <<>>],
     frontmatter |-> NoFrontmatter, disabled |-> {}]
Case(documents, schemas, skipping) == [documents |-> documents, schemas |-> schemas, skipping |-> skipping]

(* ----- Headings: three of them, against every way to bind a scope. *)
Sections == Scope("ordered", "none", <<{"x"}>>,
                  <<OrderedBy("ascending", Specific({"a", "b"}, 1, 2)), Wildcard(0, 1)>>)
Nested == Scope("ordered", "anywhere", <<>>, <<Rule("specific", {"a"}, 1, 1, Sections), Specific({"b"}, 0, 1)>>)
Loose  == Scope("unordered", "anywhere", <<{"b"}, {"x"}>>,
                <<OrderedBy("strict", Rule("specific", {"a"}, 0, 2, GuardsOnly(<<{"x"}>>))), Specific({"b"}, 1, 1)>>)
Closed == Scope("unordered", "none", <<>>,
                <<OrderedBy("descending", Rule("specific", {"a", "b"}, 0, 1, Nested)), Specific({"a"}, 0, 1)>>)
Flat == Scope("ordered", "anywhere", <<>>, <<Specific({"a"}, 0, 1), Specific({"b"}, 0, 1)>>)

HeadingSchemas ==
    {Schema("outline", None, None, Flat), Schema("outline", None, None, Nested),
     Schema("outline", None, None, Closed),
     Schema("titled", {"a"}, None, Sections), Schema("titled", None, None, Closed),
     Schema("untitled", None, None, Loose)}

HeadingTexts == {Header("a", 2), Header("a", 1), Header("b", 0), Header("x", 1)}
HiddenValue == {<<<<2>>, <<"invalid-value", "section">>>>}
HeadingCases ==
    Case({[Document(levels, texts) EXCEPT !.disabled = hidden] :
            levels \in [1 .. 3 -> 1 .. 3], texts \in [1 .. 3 -> HeadingTexts], hidden \in {{}, HiddenValue}},
         HeadingSchemas, BOOLEAN)

(* ----- Content: the preambles of the root and of one heading. *)
Paragraph == Specific({"p"}, 1, 1)
List == Listing(<<Specific({"i"}, 1, 1), Wildcard(0, 1)>>, Specific({"list"}, 0, Unbounded))
Body == <<Paragraph, List, OneOfAny({"p"}, 0, 1)>>
BodySchema(shape, content, rule) ==
    Schema(shape, None, content, Scope("ordered", "none", <<>>, <<Containing(rule, Wildcard(0, Unbounded))>>))
ContentSchemas ==
    {BodySchema("outline", <<>>, Body),
     BodySchema("untitled", Body, <<>>),
     BodySchema("titled", Body, None),
     BodySchema("outline", <<Wildcard(0, 1), Paragraph>>, <<Specific({"p"}, 0, 1), List>>)}
Blocks == {Block("p", None), Block("list", <<"i">>), Block("list", <<None, "i">>)}
Preambles == UNION {[1 .. n -> Blocks] : n \in 0 .. 2}
ContentCases ==
    Case({[Document(<<l>>, <<Header("a", 1)>>) EXCEPT !.preamble = (0 :> before) @@ (1 :> after)] :
            l \in {1, 2}, before \in Preambles, after \in Preambles}, ContentSchemas, {FALSE})

(* ----- Frontmatter: blocks, and the captures of it. *)
Scalar(is, text1) == [is |-> is, text |-> text1, items |-> <<>>, members |-> <<>>]
Object(members) == [Scalar("object", None) EXCEPT !.members = members]
Array(items) == [Scalar("array", None) EXCEPT !.items = items]
True == Scalar("bool", "true")
False == Scalar("bool", "false")
Null == Scalar("null", None)
Date == Scalar("string", "2024-02-29")
Mapping(root, accepted, anchors) == [is |-> "mapping", root |-> root, accepted |-> accepted, anchors |-> anchors]

Roots1 ==
    {Object(<<>>), Object(<<<<"flag", True>>>>), Object(<<<<"flag", Date>>, <<"list", Null>>>>),
     Object(<<<<"flag", False>>, <<"list", Array(<<Date, True>>)>>>>),
     Object(<<<<"list", Array(<<Object(<<<<"flag", True>>>>)>>)>>>>), Object(<<<<"flag", Null>>, <<"list", True>>>>)}
Blocks1 ==
    {NoFrontmatter, [NoFrontmatter EXCEPT !.is = "invalid"]} \cup
    {Mapping(root, accepted, anchors) : root \in Roots1, accepted \in BOOLEAN,
                                        anchors \in {{}, {<<"flag">>, <<"list">>, <<"list", "0">>}}}
Mappings == {block \in Blocks1 : block.is # "mapping" \/ (block.accepted /\ block.anchors # {})}

Member1(name) == [name |-> name, index |-> 0]
Element(index) == [name |-> None, index |-> index]
Declared(name, type, required, components) ==
    [name |-> name, type |-> type, required |-> required, components |-> components]
Captures ==
    {<<Declared("c", type, required, components)>> :
       type \in {"bool", "date", "text"}, required \in BOOLEAN,
       components \in {<<Member1("flag")>>, <<Member1("list"), Element(-1)>>,
                       <<Member1("list"), Element(0), Member1("flag")>>, <<Member1("list"), Element(-3), Member1("flag")>>}}
HiddenCapture == {<<None, <<problem, "frontmatter">>>> : problem \in {"invalid-value", "missing-value"}}
FrontmatterCases ==
    Case({[Document(<<>>, <<>>) EXCEPT !.frontmatter = block] : block \in Blocks1},
         {[Schema("outline", None, None, None) EXCEPT !.captures = captures, !.frontmatter = policy, !.linked = linked] :
            captures \in Captures, policy \in {"optional", "required", "forbidden"}, linked \in BOOLEAN},
         {FALSE})

(* ----- Queries: what is estimated, and what is read. *)
Selector(is) == [is |-> is, name |-> "flag", index |-> 0, tests |-> <<>>]
Segment(descendant, short, selectors) == [descendant |-> descendant, short |-> short, selectors |-> selectors]
Name(name) == Segment(FALSE, FALSE, <<[Selector("name") EXCEPT !.name = name]>>)
Flag == [Name("flag") EXCEPT !.short = TRUE]
Inner(absolute, segments) == [absolute |-> absolute, segments |-> segments]
Test(call, queries) == [call |-> call, queries |-> queries]
Filter(tests) == [Selector("filter") EXCEPT !.tests = tests]

Segments ==
    {Flag, Name("list"), Segment(FALSE, FALSE, <<Selector("wildcard")>>),
     Segment(FALSE, FALSE, <<[Selector("index") EXCEPT !.index = -1]>>),
     Segment(TRUE, FALSE, <<Selector("wildcard")>>), Segment(TRUE, TRUE, <<Selector("name")>>),
     Segment(FALSE, FALSE, <<Selector("wildcard"), Selector("wildcard")>>)}
Inners == {Inner(absolute, segments) : absolute \in BOOLEAN,
           segments \in {<<>>, <<Flag>>, <<Segment(FALSE, FALSE, <<Selector("wildcard"), Selector("wildcard")>>)>>,
                         <<Segment(TRUE, FALSE, <<Selector("wildcard")>>)>>}}
Filters ==
    {<<Segment(FALSE, FALSE, <<Filter(tests)>>)>> :
       tests \in {<<Test(FALSE, <<q>>)>> : q \in Inners} \cup {<<Test(TRUE, <<q, r>>)>> : q \in Inners, r \in Inners}}
      \cup {<<Segment(FALSE, FALSE, <<Filter(<<Test(FALSE, <<q>>)>>), Selector("wildcard"), Selector("index")>>)>> : q \in Inners}
Queries == {<<one>> : one \in Segments} \cup {<<one, two>> : one, two \in Segments} \cup Filters

Proposition(is) == [is |-> is, anchor |-> "current", steps |-> <<>>, query |-> None, literal |-> None, name |-> None]
Read(query) == [Proposition("query") EXCEPT !.query = query]
Equals(query, literal) == [Read(query) EXCEPT !.literal = literal]
Captured(name) == [Proposition("capture") EXCEPT !.name = name]
Step1(rule) == [rule |-> rule, position |-> None]
Located2(steps) == [Proposition("rule") EXCEPT !.steps = steps]
FromRoot(steps) == [Located2(steps) EXCEPT !.anchor = "root"]
Constraint(is, refs) == [is |-> is, condition |-> None, refs |-> refs]
If(is, condition, refs) == [Constraint(is, refs) EXCEPT !.condition = condition]

Asking(constraints) == [Scope("unordered", "anywhere", <<>>, <<>>) EXCEPT !.constraints = constraints]
QueryCases ==
    Case({[Document(<<>>, <<>>) EXCEPT !.frontmatter = block] : block \in Mappings},
         {Schema("outline", None, None, Asking(<<Constraint("any_of", <<Read(query), Equals(query, True)>>)>>)) :
            query \in Queries}, {FALSE})

(* ----- Constraints: of the root and of a rule's own scope. *)
TheA == Step1(1)
TheB == Step1(2)
FirstB == [TheB EXCEPT !.position = 0]
FlagQuery == <<Flag>>
(* Rules a, singular, with a scope of its own, and b, repeatable.           *)
Inside == [Scope("unordered", "none", <<>>, <<Specific({"a"}, 0, Unbounded), Specific({"b"}, 0, 1)>>)
             EXCEPT !.constraints = <<Constraint("at_most_one", <<FromRoot(<<TheB>>), Located2(<<TheA>>), Located2(<<TheB>>)>>),
                                      Constraint("ordered", <<Located2(<<TheB>>), Located2(<<TheA>>)>>)>>]
Outside(constraints) ==
    [Scope("unordered", "none", <<>>,
           <<Rule("specific", {"a"}, 0, 1, Inside), Rule("specific", {"b"}, 0, Unbounded, Inside)>>)
       EXCEPT !.constraints = constraints]
Connectives ==
    {<<Constraint("one_of", <<Located2(<<TheA>>), Located2(<<TheA, TheA>>), Captured("c")>>),
       Constraint("ordered", <<Located2(<<TheB>>), Located2(<<TheA>>)>>)>>,
     <<Constraint("all_or_none", <<Located2(<<TheA, TheB>>), Located2(<<FirstB, TheA>>), Read(FlagQuery)>>)>>,
     <<If("requires", Captured("c"), <<Located2(<<FirstB, TheB>>), Located2(<<TheA>>)>>),
       If("conflicts", Located2(<<TheB>>), <<Equals(FlagQuery, True), Located2(<<TheA, TheA>>)>>)>>}
HiddenGround == HiddenCapture \cup {<<None, <<"too-many", "section">>>>, <<None, <<"missing", "frontmatter">>>>}
ConstraintSchemas ==
    {[Schema(shape, None, None, Outside(constraints)) EXCEPT
        !.captures = <<Declared("c", "bool", policy = "required", <<Member1("flag")>>)>>, !.frontmatter = policy] :
       shape \in {"outline", "titled"}, constraints \in Connectives, policy \in {"optional", "required"}}
Heads == {Header("a", 1), Header("b", 1)}
ConstraintCases ==
    Case({[Document(levels, texts) EXCEPT !.frontmatter = block, !.disabled = HiddenGround] :
            levels \in {<<1, 1, 2>>, <<1, 2, 1>>, <<1, 2, 2>>, <<1, 2, 3>>}, texts \in [1 .. 3 -> Heads],
            block \in Mappings},
         ConstraintSchemas, {FALSE})

AllCases == {HeadingCases, ContentCases, FrontmatterCases, QueryCases, ConstraintCases}

(* The grammars the schemas are made of. *)
RECURSIVE ScopesIn(_)
ScopesIn(scope) ==
    IF scope = None THEN {}
    ELSE {scope} \cup UNION {ScopesIn(scope.rules[c].children) : c \in DOMAIN scope.rules}
RECURSIVE ContentsIn(_)
ContentsIn(rules) ==
    IF rules = None THEN {} ELSE {rules} \cup UNION {ContentsIn(rules[c].items) : c \in DOMAIN rules}

AllSchemas  == UNION {case.schemas : case \in AllCases}
AllGrammars == UNION {ScopesIn(scope) : scope \in {schema1.scope : schema1 \in AllSchemas}}
AllContents ==
    UNION {ContentsIn(schema1.content) : schema1 \in AllSchemas} \cup
    UNION {UNION {ContentsIn(scope.rules[c].content) : c \in DOMAIN scope.rules} : scope \in AllGrammars}

=============================================================================
