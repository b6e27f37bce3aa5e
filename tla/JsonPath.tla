------------------------------ MODULE JsonPath ------------------------------
(***************************************************************************)
(* JSONPath queries over frontmatter (crates/outlint-core/src/locator/     *)
(* jsonpath.rs and path.rs): a query is evaluated by a library, but only   *)
(* if an estimate of how many nodes it can produce, read off its spelling, *)
(* is within the budget; the nodes it found are then collapsed by path.    *)
(*                                                                         *)
(* A query is a sequence of segments [descendant, short, selectors]; a     *)
(* selector is [is, name, index, tests], and a test of a filter            *)
(* [call, queries] with inner queries [absolute, segments].                *)
(***************************************************************************)
EXTENDS JsonValues

LOCAL SeqOf == INSTANCE SequencesExt
LOCAL SetOf == INSTANCE FiniteSetsExt

CONSTANTS MaxQueryResultNodes

-----------------------------------------------------------------------------
(* The library: the located nodes of a query, in order and with a node as   *)
(* often as it was reached, and how many nodes each step produced.          *)

RECURSIVE BelowOrAt(_)
BelowOrAt(at) ==
    <<at>> \o SeqOf!FlattenSeq([i \in DOMAIN Children(at.value) |->
        BelowOrAt([path |-> Append(at.path, Children(at.value)[i][1]), value |-> Children(at.value)[i][2]])])

Located(root) == [path |-> <<>>, value |-> root]
ChildrenAt(at) ==
    [i \in DOMAIN Children(at.value) |->
        [path |-> Append(at.path, Children(at.value)[i][1]), value |-> Children(at.value)[i][2]]]

RECURSIVE Run(_, _, _)
(* The lists of nodes a filter's tests produce for one candidate. *)
TestLists(at, selector, root) ==
    SeqOf!FlattenSeq([t \in DOMAIN selector.tests |->
        SeqOf!FlattenSeq([q \in DOMAIN selector.tests[t].queries |->
            LET inner == selector.tests[t].queries[q]
            IN  Run(<<IF inner.absolute THEN Located(root) ELSE at>>, inner.segments, root)])])
Passes(at, selector, root) ==
    \E t \in DOMAIN selector.tests : \A q \in DOMAIN selector.tests[t].queries :
        LET inner == selector.tests[t].queries[q]
        IN  SeqOf!Last(Run(<<IF inner.absolute THEN Located(root) ELSE at>>, inner.segments, root)) # <<>>

Selected(at, selector, root) ==
    LET kids == ChildrenAt(at) IN
    CASE selector.is = "name"     -> IF at.value.is # "object" THEN <<>>
                                     ELSE SelectSeq(kids, LAMBDA k : SeqOf!Last(k.path) = selector.name)
      [] selector.is = "index"    ->
            LET wanted == IF selector.index >= 0 THEN selector.index ELSE FromEnd(Len(kids), selector.index)
            IN  IF at.value.is # "array" \/ wanted = None THEN <<>>
                ELSE IF wanted < Len(kids) THEN <<kids[wanted + 1]>> ELSE <<>>
      [] selector.is = "wildcard" -> kids
      [] selector.is = "filter"   -> SelectSeq(kids, LAMBDA k : Passes(k, selector, root))

Candidates(nodes, segment) ==
    IF segment.descendant THEN SeqOf!FlattenSeq([i \in DOMAIN nodes |-> BelowOrAt(nodes[i])]) ELSE nodes
Step(nodes, segment, root) ==
    LET from == Candidates(nodes, segment)
    IN  SeqOf!FlattenSeq([i \in DOMAIN from |->
            SeqOf!FlattenSeq([s \in DOMAIN segment.selectors |-> Selected(from[i], segment.selectors[s], root)])])
Run(nodes, segments, root) ==
    LET after[n \in 0 .. Len(segments)] == IF n = 0 THEN nodes ELSE Step(after[n - 1], segments[n], root)
    IN  [n \in 1 .. Len(segments) + 1 |-> after[n - 1]]

(* What a filter's inner queries produce, summed over its candidates.       *)
FilterWork(nodes, segment, root) ==
    LET from == Candidates(nodes, segment)
        work(s) == SeqOf!FoldLeft(LAMBDA n, at : SeqOf!FoldLeft(LAMBDA m, k :
                        m + SetOf!Max({0} \cup {Len(l) : l \in SeqOf!ToSet(TestLists(k, segment.selectors[s], root))}),
                        n, ChildrenAt(at)), 0, from)
    IN  {work(s) : s \in {t \in DOMAIN segment.selectors : segment.selectors[t].is = "filter"}}

Result(query, root) == SeqOf!Last(Run(<<Located(root)>>, query, root))
LargestStep(query, root) ==
    LET lists == Run(<<Located(root)>>, query, root)
    IN  SetOf!Max({Len(lists[n]) : n \in DOMAIN lists}
                    \cup UNION {FilterWork(lists[n], query[n], root) : n \in DOMAIN query})

-----------------------------------------------------------------------------
(* How a query is spelled. *)

Dot == <<".">>
Joined(lists, between) ==
    SeqOf!FoldLeft(LAMBDA acc, i : acc \o (IF i = 1 THEN <<>> ELSE between) \o lists[i], <<>>, [i \in DOMAIN lists |-> i])

RECURSIVE SpelledSegments(_)
SpelledQuery(inner) == <<IF inner.absolute THEN "$" ELSE "@">> \o SpelledSegments(inner.segments)
SpelledTest(test) ==
    LET queries == Joined([q \in DOMAIN test.queries |-> SpelledQuery(test.queries[q])],
                          IF test.call THEN <<",">> ELSE <<"&", "&">>)
    IN  IF test.call THEN <<"f", "(">> \o queries \o <<")">> ELSE queries
(* A member may be named by the very characters that matter elsewhere. *)
SpelledSelector(selector) ==
    CASE selector.is = "name"     -> <<"quote", selector.name, ",", "escape", "quote", "]", "quote">>
      [] selector.is = "index"    -> <<"n">>
      [] selector.is = "wildcard" -> <<"star">>
      [] selector.is = "filter"   ->
            <<"?">> \o Joined([t \in DOMAIN selector.tests |-> SpelledTest(selector.tests[t])], <<"or">>)
SpelledSegment(segment) ==
    (IF segment.descendant THEN Dot \o Dot ELSE IF segment.short THEN Dot ELSE <<>>)
      \o (IF segment.short THEN <<"x">>
          ELSE <<"[">> \o Joined([s \in DOMAIN segment.selectors |-> SpelledSelector(segment.selectors[s])], <<",">>)
                 \o <<"]">>)
SpelledSegments(segments) == SeqOf!FlattenSeq([i \in DOMAIN segments |-> SpelledSegment(segments[i])])
Source(query) == <<"$">> \o SpelledSegments(query)

-----------------------------------------------------------------------------
(* QueryFanout::of: one scan of the spelling.  `groups` are the brackets    *)
(* and parentheses that are open.                                           *)

Bracket     == [is |-> "bracket", commas |-> 0, filter |-> FALSE, absolute |-> FALSE]
Parenthesis == [Bracket EXCEPT !.is = "parenthesis"]
NoFanout    == [selectors |-> 1, descendants |-> 0, relative |-> 0, absolute |-> 0]

(* Bug: as many selectors as commas. *)
SelectorsByComma(segment) == SetOf!Max({segment.commas, 1})
Selectors(segment) == segment.commas + 1

Charged(fanout, segment) ==
    [fanout EXCEPT !.selectors = @ * Selectors(segment),
                   !.absolute  = @ + (IF segment.filter /\ segment.absolute THEN 1 ELSE 0),
                   !.relative  = @ + (IF segment.filter /\ ~segment.absolute THEN 1 ELSE 0)]

(* The innermost open bracket, past parentheses. *)
Enclosing(groups) == SetOf!Max({0} \cup {i \in DOMAIN groups : groups[i].is = "bracket"})

(* A comma separates selectors where the nearest group is a bracket. *)
Comma(groups) ==
    IF groups = <<>> THEN groups
    ELSE IF SeqOf!Last(groups).is = "parenthesis" THEN groups
    ELSE [groups EXCEPT ![Len(groups)].commas = @ + 1]

Scanned(scan, token) ==
    LET bare == [scan EXCEPT !.afterDot = FALSE]
        open == Enclosing(scan.groups)
    IN
    CASE scan.in = "escaped" -> [scan EXCEPT !.in = "quoted"]
      [] scan.in = "quoted"  -> [scan EXCEPT !.in = CASE token = "escape" -> "escaped" [] token = "quote" -> "bare" [] OTHER -> @]
      [] scan.in = "bare" /\ token = "quote" -> [scan EXCEPT !.in = "quoted"]
      [] scan.in = "bare" /\ token = "." ->
            [scan EXCEPT !.afterDot = ~@, !.fanout.descendants = @ + (IF scan.afterDot THEN 1 ELSE 0)]
      [] scan.in = "bare" /\ token = "[" -> [bare EXCEPT !.groups = Append(@, Bracket)]
      [] scan.in = "bare" /\ token = "(" -> [bare EXCEPT !.groups = Append(@, Parenthesis)]
      [] scan.in = "bare" /\ token = "]" ->
            [bare EXCEPT !.fanout = Charged(@, scan.groups[open]), !.groups = SubSeq(@, 1, open - 1)]
      [] scan.in = "bare" /\ token = ")" -> [bare EXCEPT !.groups = SeqOf!Front(@)]
      [] scan.in = "bare" /\ token = "," -> [bare EXCEPT !.groups = Comma(@)]
      [] scan.in = "bare" /\ token = "?" -> IF open = 0 THEN bare ELSE [bare EXCEPT !.groups[open].filter = TRUE]
      [] scan.in = "bare" /\ token = "$" -> IF open = 0 THEN bare ELSE [bare EXCEPT !.groups[open].absolute = TRUE]
      [] OTHER -> bare

Fanout(source) ==
    SeqOf!FoldLeft(Scanned, [in |-> "bare", afterDot |-> FALSE, groups |-> <<>>, fanout |-> NoFanout], source).fanout

-----------------------------------------------------------------------------
(* The estimate, the budget and the refusal. *)

Nodes(root) == Len(BelowOrAt(Located(root)))
Depth(root) == SetOf!Max({Len(at.path) + 1 : at \in SeqOf!ToSet(BelowOrAt(Located(root)))})
Budget(root) == SetOf!Max({Nodes(root), MaxQueryResultNodes})

EstimatedNodes(fanout, root) ==
    Nodes(root) * fanout.selectors * Depth(root) ^ fanout.descendants
      * Depth(root) ^ fanout.relative * Nodes(root) ^ fanout.absolute

Refused(query, root) ==
    \/ EstimatedNodes(Fanout(Source(query)), root) > Budget(root)
    \/ Len(Result(query, root)) > Budget(root)

(* The node set: every node once. *)
NodeSet(query, root) == {<<at.path, at.value>> : at \in SeqOf!ToSet(Result(query, root))}

(* A query of the guaranteed core: one name, index or wildcard a segment.   *)
IsCore(query) ==
    \A n \in DOMAIN query : /\ ~query[n].descendant /\ Len(query[n].selectors) = 1
                            /\ query[n].selectors[1].is # "filter"
=============================================================================
