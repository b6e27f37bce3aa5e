----------------------------- MODULE MCDocument -----------------------------
(***************************************************************************)
(* Small documents for the scanner and what is built on it.                *)
(***************************************************************************)
EXTENDS Documents

T(word)    == [tag |-> "text", text |-> word]
C(word)    == [tag |-> "code_span", text |-> word]
NL         == [tag |-> "break"]
Em(kids)   == [tag |-> "emphasis", kids |-> kids]
Link(kids) == [tag |-> "link", kids |-> kids]
Ref(kids)  == [tag |-> "reference", kids |-> kids]

Line(id)    == [is |-> "comment", scope |-> "line", ids |-> {id}]
File(id)    == [is |-> "comment", scope |-> "file", ids |-> {id}]
Mark(what)  == [is |-> what]
Row(pieces) == [pieces |-> pieces, alone |-> Len(pieces) = 1]
Span(row)   == [tag |-> "html_span", row |-> row]

P(kids)        == [tag |-> "paragraph", kids |-> kids]
H(level, word) == [tag |-> "heading", level |-> level, style |-> "atx", kids |-> <<T(word)>>]
Styled(level, style, kids) == [tag |-> "heading", level |-> level, style |-> style, kids |-> kids]
HR             == [tag |-> "rule"]
Code           == [tag |-> "code", text |-> "code"]
Indented(rows) == [tag |-> "indented", rows |-> rows]
Definition     == [tag |-> "definition"]
Quote(kids)    == [tag |-> "quote", kids |-> kids]
Raw(rows)      == [tag |-> "html", rows |-> rows]
Item1(kids)    == [kids |-> kids]
Tight(items)   == [tag |-> "list", tight |-> TRUE, items |-> [i \in DOMAIN items |-> [kids |-> items[i]]]]
Loose(items)   == [tag |-> "list", tight |-> FALSE, items |-> [i \in DOMAIN items |-> [kids |-> items[i]]]]

Directive == Raw(<<Row(<<Line("x")>>)>>)

Headings == {H(1, "a"), H(2, "a"), H(2, "b"), H(3, "!")}
Oddities == {Styled(1, "tabbed", <<T("a")>>), Styled(2, "setext", <<Em(<<T("b")>>), NL, T("a")>>)}
Comments == {Directive, Raw(<<Row(<<File("y")>>)>>),
             Raw(<<Row(<<Mark("opens")>>), Row(<<Mark("closes"), Line("x")>>)>>),
             Raw(<<Row(<<Mark("markup"), Line("x")>>)>>)}
Leaves   == {P(<<T("w")>>), P(<<T("w"), NL, Span(Row(<<Line("x")>>)), NL, T("v")>>), HR, Code,
             Quote(<<H(1, "a"), P(<<T("w")>>), Raw(<<[pieces |-> <<Line("x")>>, alone |-> FALSE]>>)>>)}
Lists    == {Tight(<<<<P(<<T("w"), Em(<<T("v"), NL, C("u")>>)>>), Tight(<<<<P(<<T("t")>>)>>>>)>>, <<>>>>),
             Tight(<<<<P(<<Link(<<T("w")>>)>>), Code, P(<<T("v")>>)>>, <<H(2, "a"), P(<<T("v")>>)>>,
                    <<P(<<Em(<<Link(<<NL, T("u"), NL>>)>>), T("t")>>)>>>>),
             Tight(<<<<P(<<T("w")>>), Directive>>, <<P(<<T("v")>>), HR>>>>),
             Loose(<<<<P(<<T("w"), NL, T("v")>>), P(<<T("u")>>)>>, <<Quote(<<P(<<T("w")>>)>>), P(<<T("v")>>)>>>>),
             Loose(<<<<Code>>, <<P(<<Span(Row(<<Mark("markup")>>)), T("w")>>)>>>>)}
Blocks1  == Headings \cup Oddities \cup Comments \cup Leaves \cup Lists

(* Nothing follows a comment's line but what comes next; other blocks are    *)
(* kept apart by a blank line.                                               *)
Gap(b) == IF b.tag = "html" /\ b.rows[1].pieces[1].is # "markup" THEN {0, 1} ELSE {1}
Placed1 == UNION {{[block |-> b, gap |-> g] : g \in Gap(b)} : b \in Blocks1}
HeadingsOnly == {[block |-> b, gap |-> 1] : b \in Headings}

At(b) == [block |-> b, gap |-> 1]

MCDocuments ==
    UNION {[1 .. n -> Placed1] : n \in 0 .. 2}
      \cup {<<h, l, k>> : h \in HeadingsOnly, l \in Placed1, k \in HeadingsOnly}
MCDamaged == {<<At(b)>> : b \in Blocks1 \cup {Indented(<<<<"w">>, <<"v">>>>)}}

(* Documents to read and search: sections that share slugs, leave none or    *)
(* are numbered, lead-ins, and lists.                                        *)
Numbered(level, word) == Styled(level, "atx", <<T("1"), T(word)>>)
Tops     == {H(1, "a"), H(2, "a"), P(<<T("w"), T("c:")>>)}
Opens1   == {H(2, "a"), H(2, "b"), Numbered(3, "b"), H(2, "!"), P(<<Em(<<T("v")>>)>>)}
Contents == {P(<<T("u"), T("c:")>>),
             Tight(<<<<P(<<T("w"), T("v")>>)>>, <<P(<<T("u")>>)>>, <<>>>>),
             Tight(<<<<P(<<T("w")>>), Tight(<<<<P(<<T("v")>>)>>>>)>>, <<P(<<T("t"), T("u"), T("c:")>>)>>>>), Code}
MCReadable ==
    {[i \in 1 .. 5 |-> At(<<t, o, c, h, d>>[i])] : t \in Tops, o \in Opens1, c \in Contents,
                                                    h \in {H(2, "a"), H(3, "a"), H(4, "b"), P(<<T("u"), T("c:")>>)},
                                                    d \in {Numbered(3, "a"), Tight(<<<<P(<<T("w")>>)>>, <<P(<<T("w"), T("v")>>)>>>>)}}
      \cup [1 .. 3 -> HeadingsOnly]

(* Documents with what reads otherwise out of its context: references, whose *)
(* definition is at the end, and code that is only code where it is.         *)
Indents == {Indented(<<<<"w">>, <<"<!--", "v", "-->">>, <<"u">>>>),
            Indented(<<<<"<!--", "w">>, <<"v", "-->">>, <<"u">>>>), Indented(<<<<"<!--", "w">>, <<"v">>>>),
            Indented(<<<<"[", "r", "]:", "w">>, <<"<!--", "v", "-->">>>>)}
Refs    == {P(<<Em(<<Ref(<<T("w")>>)>>)>>), P(<<Ref(<<T("v")>>), T("c:")>>),
            Tight(<<<<P(<<T("w"), Ref(<<T("u")>>)>>)>>, <<P(<<T("w")>>)>>>>)}
MCSliced ==
    {<<At(h), At(x), At(y), At(Definition)>> :
         h \in {H(1, "a"), H(2, "b"), P(<<T("w"), T("c:")>>)}, x \in Indents \cup Refs, y \in Refs \cup {H(2, "a"), Code}}
      \cup {<<At(x)>> : x \in Indents}

(* Links with a line break at either end.                                  *)
MCLinks == {<<At(Tight(<<<<P(kids)>>>>))>> : kids \in {<<Link(<<T("w"), NL>>)>>, <<Link(<<NL, T("w")>>), T("v")>>}}

MCAll == MCDocuments \cup MCReadable \cup MCSliced \cup MCLinks

MCSlugs == [word \in {"a", "b", "1"} |-> CASE word = "a" -> <<"x", "y">> [] word = "b" -> <<"x", "z", "z">> [] word = "1" -> <<"1">>]
MCMisspelled == {<<"x", "y", "z", "z">>, <<"y", "x", "y", "q", "z">>}
MCFronts == {None, <<"w">>}
MCColons == {"c:"}
=============================================================================
