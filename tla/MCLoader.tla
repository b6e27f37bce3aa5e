------------------------------ MODULE MCLoader ------------------------------
(* Small schemas for SchemaLoader, in families that each vary one part.    *)
EXTENDS SchemaVerdict, TLC

Exact(slug) == [kind |-> "exact", slug |-> slug, groups |-> <<>>]
Wildcard == [kind |-> "any", slug |-> None, groups |-> <<>>]
Bad == [kind |-> "bad", slug |-> None, groups |-> <<>>]
Regex(participates) == [kind |-> "regex", slug |-> None, groups |-> [v |-> participates]]

Absent == [spelled |-> "absent", entries |-> <<>>]
Spoilt == [spelled |-> "bad", entries |-> <<>>]
Given(entries) == [spelled |-> "given", entries |-> entries]

Cap(name) == [name |-> name, typed |-> TRUE]
By(name) == [by |-> name, descending |-> FALSE, formed |-> TRUE]
Item(id, repeat) ==
    [id |-> id, match |-> Exact(None), required |-> "absent", repeat |-> repeat, stray |-> FALSE]
Block(form, id, repeat, items) ==
    [form |-> form, stray |-> FALSE, misfit |-> FALSE, id |-> id, required |-> "absent",
     repeat |-> repeat, kind |-> "absent", items |-> items, alternatives |-> <<>>]
Rule(id, match, repeat) ==
    [id |-> id, match |-> match, required |-> "absent", repeat |-> repeat, captures |-> Absent,
     order |-> Absent, content |-> Absent, stray |-> FALSE]
Scope(isDeclared, isUnordered) ==
    [declared |-> isDeclared, unordered |-> isUnordered, extras |-> FALSE, guards |-> <<>>,
     constraints |-> <<>>]

Front0 == [spelled |-> "absent", stray |-> FALSE, required |-> "absent", allow |-> "absent",
           captures |-> Absent, schema |-> "none"]
Schema(tree, fields, order) ==
    [version |-> "one", stray |-> FALSE, title |-> [spelled |-> "absent", match |-> Wildcard],
     outline |-> FALSE, sections |-> TRUE, frontmatter |-> Front0, linked |-> "none",
     content |-> Absent, rules |-> tree, scopes |-> fields, keys |-> order]
InOrder == <<"captures", "content", "sections">>
Reversed == <<"sections", "content", "captures">>
Orders == {InOrder, Reversed, <<"content", "captures", "sections">>}

Outline(steps) ==
    [form |-> "outline", absolute |-> TRUE, steps |-> steps, structure |-> <<>>, text |-> FALSE,
     query |-> None]
Step(name, index) == [name |-> name, at |-> index]
Name(name) == Outline(<<Step(name, Whole)>>)
Path(step, name) == Outline(<<Step(step[1], step[2]), Step(name, Whole)>>)
Text(locator) == [locator EXCEPT !.text = TRUE]
Here(locator) == [locator EXCEPT !.absolute = FALSE]
Under(locator, kinds) ==
    [locator EXCEPT !.structure = [k \in DOMAIN kinds |->
        [kind |-> kinds[k], at |-> IF k < Len(kinds) THEN 0 ELSE Whole]]]
Query(text) == [Outline(<<>>) EXCEPT !.form = "query", !.query = text]
Captured(name) == [Outline(<<>>) EXCEPT !.form = "capture", !.query = name]
MalformedRef == [Outline(<<>>) EXCEPT !.form = "malformed"]
Constraint(keyword, refs, then) == [keyword |-> keyword, refs |-> refs, then |-> then]

----------------------------------------------------------------------------
(* One rule with every spelling, before a second one and above a third.    *)
Matchers == {Exact("a"), Wildcard, Regex("always"), Regex("optional"), Bad}
Counts == {<<"absent", <<>>>>, <<"true", <<>>>>, <<"true", <<0, 1>>>>, <<"absent", <<0, 1>>>>,
           <<"absent", <<2, 1>>>>, <<"absent", <<0, 0>>>>, <<"absent", <<1, 4>>>>,
           <<"absent", <<1, Unbounded>>>>}
CaptureLists == {Absent, Spoilt, Given(<<Cap("v")>>), Given(<<Cap("w")>>),
                 Given(<<Cap("v"), Cap(Malformed)>>),
                 Given(<<[name |-> "v", typed |-> FALSE]>>)}
OrderLists == {Absent, Spoilt, Given(<<By("v")>>), Given(<<By("w"), By("w")>>),
               Given(<<By("v"), By("v")>>),
               Given(<<[By("v") EXCEPT !.formed = FALSE], By("v")>>)}
Surroundings ==
    {[id |-> None, mode |-> "true", below |-> Exact("c")],
     [id |-> None, mode |-> "true", below |-> Bad],
     [id |-> "fm", mode |-> "false", below |-> Exact("c")]}
RuleSchemas ==
    {LET rule == [Rule(around.id, match, count[2]) EXCEPT !.required = count[1],
                                                   !.captures = capture, !.order = order]
     IN  Schema(<<1>> :> rule @@ <<2>> :> Rule("b", Exact("b"), <<>>)
                 @@ <<1, 1>> :> Rule("fm", around.below, <<>>),
                <<>> :> [Scope(TRUE, around.mode) EXCEPT
                            !.constraints = <<Constraint("requires", <<Name("b")>>, <<Name("zz")>>)>>]
                 @@ <<1>> :> [Scope(TRUE, "absent") EXCEPT !.guards = <<Wildcard>>]
                 @@ <<2>> :> Scope(FALSE, "absent") @@ <<1, 1>> :> Scope(FALSE, "absent"), InOrder) :
     match \in Matchers, count \in Counts, capture \in CaptureLists, order \in OrderLists,
     around \in Surroundings}

----------------------------------------------------------------------------
(* Names that meet in one scope: rules, captures, content and items.       *)
NamedContent ==
    {Given(<<Block("p", paragraph, <<>>, Absent), Block("list", list, <<0, 2>>, Given(items))>>) :
        paragraph \in {None, "a"}, list \in {None, "l"},
        items \in {<<>>, <<Item("a", <<0, 1>>)>>, <<Item("a", <<0, 1>>), Item("a", <<0, 2>>)>>,
                   <<Item("a", <<0, 1>>), Item("b", <<0, 2>>)>>, <<Item("linkdefs", <<0, 1>>)>>}}
NameSchemas ==
    {[Schema(<<1>> :> [Rule("a", [Regex("always") EXCEPT !.groups = [a |-> "always"]], <<0, 1>>)
                         EXCEPT !.content = IF above THEN Absent ELSE content,
                                !.captures = capture]
             @@ <<2>> :> Rule(second, Exact("c"), <<>>)
             @@ <<1, 1>> :> Rule(None, Exact(child), <<>>),
             <<>> :> Scope(TRUE, "absent") @@ <<1>> :> Scope(TRUE, "absent")
             @@ <<2>> :> Scope(FALSE, "absent") @@ <<1, 1>> :> Scope(FALSE, "absent"), order)
        EXCEPT !.content = IF above THEN content ELSE Absent] :
     content \in NamedContent, capture \in {Absent, Given(<<Cap("a")>>)}, second \in {None, "a"},
     child \in {"a", "b"}, order \in Orders, above \in BOOLEAN}

----------------------------------------------------------------------------
(* Constraints over a small forest: `a` may repeat, its scope and the top  *)
(* may be unordered, and it has content, items and a capture.              *)
Firsts ==
    {Name("a"), Name("b"), Path(<<"a", Whole>>, "x"), Path(<<"a", 0>>, "x"), Path(<<"a", 1>>, "x"),
     Path(<<"b", Whole>>, "x"), Path(<<"a", Whole>>, "v"), Path(<<"v", Whole>>, "x"),
     Path(<<"a", Whole>>, "i"), Path(<<"a", Whole>>, "zz"), Text(Name("a")),
     Text(Path(<<"a", 0>>, "i")), Text(Path(<<"l", Whole>>, "j")), Under(Name("a"), <<"p">>),
     Under(Name("a"), <<"list", "item">>), Under(Path(<<"a", 0>>, "l"), <<"item">>),
     Under(Name("a"), <<"quote">>), Query("q"), Captured("c"), Captured("d"), MalformedRef,
     Here(Name("x")), Here(Path(<<"x", 0>>, "z")), Here(Name("v"))}
Seconds ==
    {Name("b"), Path(<<"a", Whole>>, "y"), Path(<<"a", 0>>, "y"), Path(<<"a", 1>>, "y"),
     Path(<<"b", Whole>>, "x"), Query("q"), Here(Name("y")), Here(Name("x")), Name("zz")}
LocatorContent ==
    Given(<<Block("p", None, <<0, 1>>, Absent),
            Block("list", None, <<0, 2>>, Given(<<Item("i", <<0, 2>>)>>)),
            Block("list", "l", <<>>, Given(<<Item("j", <<>>)>>))>>)
Setting(most, mode, third) == [most |-> most, mode |-> mode, third |-> third]
Settings ==
    {Setting(most, mode, Exact("y")) : most \in {1, 2}, mode \in {"absent", "true"}}
    \cup {Setting(1, "absent", Bad)}
ConstraintSchema(constraint, here, setting) ==
    [Schema(<<1>> :> [Rule("a", Regex("always"), <<0, setting.most>>) EXCEPT
                         !.captures = Given(<<Cap("v")>>), !.content = LocatorContent]
            @@ <<2>> :> Rule("b", Exact("b"), <<>>)
            @@ <<1, 1>> :> Rule("x", Regex("always"), <<0, Unbounded>>)
            @@ <<1, 2>> :> Rule("y", setting.third, <<0, 1>>)
            @@ <<2, 1>> :> Rule("x", Exact("x"), <<>>) @@ <<1, 1, 1>> :> Rule("z", Wildcard, <<0, 1>>),
            <<>> :> Scope(TRUE, setting.mode) @@ <<1>> :> Scope(TRUE, setting.mode)
            @@ <<2>> :> Scope(TRUE, "absent") @@ <<1, 1>> :> Scope(TRUE, "absent")
            @@ <<1, 2>> :> Scope(FALSE, "absent") @@ <<2, 1>> :> Scope(FALSE, "absent")
            @@ <<1, 1, 1>> :> Scope(FALSE, "absent"), InOrder)
       EXCEPT !.scopes[here].constraints = <<constraint>>,
              !.frontmatter = [Front0 EXCEPT !.spelled = "given", !.captures =
                  Given(<<[name |-> "c", typed |-> TRUE, flagged |-> TRUE, located |-> TRUE]>>)]]
Posed(keyword, first, second) ==
    IF keyword \in Implications THEN Constraint(keyword, <<first>>, <<second>>)
    ELSE Constraint(keyword, <<first, second>>, <<>>)
Settled ==
    {choice \in {"ordered", "one_of", "requires"} \X Settings :
        choice[2].mode = "true" => choice[1] = "ordered"}
ConstraintSchemas ==
    {ConstraintSchema(Posed(choice[1], first, second), here, choice[2]) :
        choice \in Settled, first \in Firsts, second \in Seconds, here \in {<<>>, <<1>>}}

----------------------------------------------------------------------------
(* Content spelled in every way, at the top and below a rule.              *)
Alternative(form, kind) == [form |-> form, kind |-> kind, stray |-> FALSE, misfit |-> FALSE]
AlternativeLists ==
    {<<>>, <<Alternative("p", "absent"), Alternative("list", "any")>>,
     <<Alternative("list", "absent"), Alternative("list", "any")>>,
     <<Alternative("p", "any"), Alternative("p", "absent")>>,
     <<Alternative("none", "absent"), Alternative("list", "bad")>>,
     <<[Alternative("p", "absent") EXCEPT !.misfit = TRUE], Alternative("p", "absent")>>}
ItemLists ==
    {Absent, Spoilt, Given(<<Item("fm", <<0, 1>>)>>),
     Given(<<[Item(None, <<>>) EXCEPT !.match = Bad], [Item("i", <<>>) EXCEPT !.match = Wildcard]>>),
     Given(<<[Item(Malformed, <<>>) EXCEPT !.required = "bad"]>>),
     Given(<<[Item("i", <<>>) EXCEPT !.match.kind = "absent"],
             [Item("j", <<2, 1>>) EXCEPT !.match.kind = "absent"]>>)}
ContentBlocks ==
    {[Block(form, id, count[2], Absent) EXCEPT !.required = count[1], !.alternatives = choice] :
        form \in {"p", "choice", "neither", "unknown"}, id \in {None, "fm", "a"},
        count \in Counts, choice \in AlternativeLists}
    \cup {[Block("list", id, count[2], items) EXCEPT !.required = count[1], !.kind = listed0] :
        id \in {None, Malformed, "a"},
        count \in Counts \cup {<<"bad", <<>>>>, <<"bad", <<Malformed>>>>, <<"absent", <<Malformed>>>>},
        items \in ItemLists, listed0 \in {"absent", "bullet", "bad"}}
ContentSchemas ==
    {[Schema(<<1>> :> [Rule("r", Exact("r"), <<>>) EXCEPT !.content = IF above THEN Absent ELSE content],
             <<>> :> Scope(TRUE, "absent") @@ <<1>> :> Scope(FALSE, "absent"), InOrder)
        EXCEPT !.content = IF above THEN content ELSE Absent] :
     content \in {Given(<<block>>) : block \in ContentBlocks} \cup {Spoilt}, above \in BOOLEAN}

----------------------------------------------------------------------------
(* The fields at the top, and frontmatter.                                 *)
Titles == {[spelled |-> how, match |-> Exact("t")] : how \in {"absent", "null", "text", "bad"}}
            \cup {[spelled |-> "text", match |-> Bad]}
TopSchemas ==
    {[Schema(<<1>> :> Rule("r", Exact("r"), <<>>), 
             <<>> :> [Scope(outlined \/ sectioned, mode) EXCEPT !.constraints = below]
             @@ <<1>> :> [Scope(FALSE, "absent") EXCEPT !.extras = extra], InOrder)
        EXCEPT !.version = number, !.title = heading, !.outline = outlined, !.sections = sectioned,
               !.rules = IF outlined \/ sectioned THEN @ ELSE <<>>,
               !.scopes = IF outlined \/ sectioned THEN @ ELSE [p \in {<<>>} |-> @[p]]] :
     number \in {"one", "other", "bad", "absent"}, heading \in Titles, outlined \in BOOLEAN,
     sectioned \in BOOLEAN, mode \in {"absent", "true"}, extra \in BOOLEAN,
     below \in {<<>>, <<Constraint("any_of", <<Name("r")>>, <<>>)>>,
                <<Constraint("sequence", <<Name("r"), Name("s")>>, <<>>)>>}}
FrontSchemas ==
    {[Schema(<<1>> :> Rule("r", Exact("r"), <<>>),
             <<>> :> Scope(TRUE, "absent") @@ <<1>> :> Scope(FALSE, "absent"), InOrder)
        EXCEPT !.frontmatter = [Front0 EXCEPT !.spelled = "given", !.required = needed,
                   !.allow = allowed, !.captures = capture, !.schema = delegated],
               !.linked = link] :
     needed \in {"absent", "true", "bad"}, allowed \in {"absent", "true", "false"},
     capture \in {Absent, Spoilt}
        \cup {Given(<<[name |-> id, typed |-> known, flagged |-> TRUE, located |-> found]>>) :
                id \in {"c", Malformed}, known \in BOOLEAN, found \in BOOLEAN},
     delegated \in {"none", "bad", "path", "inline", "inline broken"}, link \in {"none", "good"}}

MCSources == <<RuleSchemas, NameSchemas, ConstraintSchemas, ContentSchemas, TopSchemas, FrontSchemas>>
=============================================================================
