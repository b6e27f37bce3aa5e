------------------------------ MODULE Documents ------------------------------
(***************************************************************************)
(* A document from its events to what is read and found in it: the scan of *)
(* MarkdownBody, and then one request: a path to read (`outlint read`) or  *)
(* the words of a search over the document's units (`outlint search`).     *)
(***************************************************************************)
EXTENDS MarkdownBody, SearchUnits

LOCAL SeqOf == INSTANCE SequencesExt
LOCAL SetOf == INSTANCE FiniteSetsExt

CONSTANTS
    Readable,       \* the documents that are read from
    Fronts,         \* the words of the frontmatter, or NoPath
    Misspelled      \* slugs that name no section, as a user may type them

VARIABLES
    front,          \* the frontmatter's words
    request         \* what is asked of the parsed document

allVars == <<vars, front, request>>

Doc == [blocks |-> root.blocks, sections |-> headings, parent |-> parent, source |-> source, front |-> front]
Lines == SeqOf!FoldLeft(LAMBDA n, token : IF token = "\n" THEN n + 1 ELSE n, 0, source)

(* The paths a user may spell: a node's own, or one of its steps given      *)
(* without its index, with one too many, by position, as a step to any      *)
(* descendant, or with a slug that is not quite the heading's.              *)
Respelled(step) ==
    {step, Below(step.slug, step.index), Named(step.slug, NoPath), Below(step.slug, NoPath)}
      \cup (IF step.slug = NoPath THEN {Position(step.index + 1)} ELSE {Named(step.slug, 1), Position(0)})
      \cup {Named(slug, NoPath) : slug \in Misspelled} \cup {Below(slug, NoPath) : slug \in Misspelled}
Spellings(own) ==
    {own} \cup {[own EXCEPT !.steps[k] = step] :
                <<k, step>> \in UNION {{k} \X {s \in Respelled(own.steps[k]) : s.is = "position" \/ s.slug # NoPath} :
                                       k \in DOMAIN own.steps}}
      \cup (IF own.terminal = NoPath THEN {} ELSE {[own EXCEPT !.terminal.index = @ + 1]})

Open == Init /\ front \in Fronts /\ request = NoPath
Scan == Next /\ UNCHANGED <<front, request>>
(* Commands parse with the default options: inline markup is stripped.      *)
ParsedByDefault == phase = "done" /\ ~damaged /\ strip /\ request = NoPath
Read ==
    /\ ParsedByDefault /\ document \in Readable
    /\ \E i \in DOMAIN DocumentPathsOf(Doc) : request' \in Spellings(DocumentPathsOf(Doc)[i][1])
    /\ UNCHANGED <<vars, front>>

Step == Scan \/ Read
Requests == Open /\ [][Step]_allVars

-----------------------------------------------------------------------------
(* Every node has one canonical path, and that path leads back to it.       *)
Nodes(d) ==
    ({<<"section", s>> : s \in 0 .. Len(d.sections)} \ {<<"section", t>> : t \in {MergedTitle(d)} \ {0}})
      \cup UNION {{<<"block", s, i>> : i \in DOMAIN OwnBlocks(d, s)} : s \in 0 .. Len(d.sections)}
      \cup UNION {UNION {{<<"item", s, i, n>> : n \in DOMAIN OwnBlocks(d, s)[i].items} :
                         i \in DOMAIN OwnBlocks(d, s)} : s \in 0 .. Len(d.sections)}
LeadBack(paths) ==
    /\ SeqOf!ToSet([i \in DOMAIN paths |-> paths[i][2]]) = Nodes(Doc)
    /\ \A i \in DOMAIN paths : Resolve(Doc, paths[i][1]) = Found(paths[i][2])
    /\ \A i, j \in DOMAIN paths : paths[i][1] = paths[j][1] => i = j
PathsLeadBack == ParsedByDefault => LeadBack(DocumentPathsOf(Doc))

(* What is read of a node down to a depth is what is listed of it: every    *)
(* section and block listed is in the content, once, and none that is not.  *)
Depths == {NoPath, 0, 1}
LineOfNode(node) == Extent(Doc, node)[1]
Covering(slices, line) == {i \in DOMAIN slices : slices[i][1] <= line /\ line <= slices[i][2]}
ReadAsListed(paths, node, listed, slices) ==
    \A i \in DOMAIN paths :
        paths[i][2] # <<"section", 0>> =>
          Cardinality(Covering(slices, LineOfNode(paths[i][2])))
            = IF \/ paths[i] \in listed
                 \/ paths[i][2][1] = "item" /\ <<"block">> \o Tail(SeqOf!Front(paths[i][2])) \in {l[2] : l \in listed}
                 \/ node[1] = "item" /\ paths[i][2] = <<"block">> \o Tail(SeqOf!Front(node))
                      /\ LineOfNode(paths[i][2]) = LineOfNode(node)
              THEN 1 ELSE 0
ReadToEveryDepth(paths, at) ==
    at.error = "none" => \A depth \in Depths :
        ReadAsListed(paths, at.node, SeqOf!ToSet(Listing(paths, CanonicalPath(paths, at.node), depth, TRUE)),
                     Content(Doc, at.node, depth, Lines))
ReadingMatchesListing == request # NoPath => ReadToEveryDepth(DocumentPathsOf(Doc), Resolve(Doc, request))

(* Whatever is said of a path that leads nowhere leads somewhere: the node  *)
(* it got to has a canonical path, an ambiguous step comes with as many     *)
(* sections as it matches, each of them one it could mean, and every        *)
(* suggestion is the canonical path of a node below the one reached.        *)
Meant(at, meant) ==
    /\ Len(meant) = at.candidates
    /\ \A i \in DOMAIN meant :
         Resolve(Doc, [steps |-> Append(SubSeq(request.steps, 1, at.resolved),
                                        [request.steps[at.resolved + 1] EXCEPT !.index = i - 1]),
                       terminal |-> NoPath]) = Found(meant[i][2])

(* The distances a slug could be a misspelling of another by, within reach  *)
(* of a typo; numbers in front of the heading may be left out.              *)
RECURSIVE EditDistance(_, _)
EditDistance(left, right) ==
    CASE left = <<>>  -> Len(right)
      [] right = <<>> -> Len(left)
      [] left # <<>> /\ right # <<>> ->
            IF left[1] = right[1] THEN EditDistance(Tail(left), Tail(right))
            ELSE 1 + SetOf!Min({EditDistance(Tail(left), right), EditDistance(left, Tail(right)),
                                EditDistance(Tail(left), Tail(right))})
Reach(left, right) == TypoThreshold(SetOf!Max({Len(left), Len(right)}))
Typos(wrong, slug) ==
    UNION {{EditDistance(wrong, s)} \cap 0 .. Reach(wrong, s) :
           s \in {t \in {slug, NumberedTail(slug)} \ {NoPath} :
                     Len(t) <= Len(wrong) + Reach(wrong, t) /\ Len(wrong) <= Len(t) + Reach(wrong, t)}}

(* Whenever a section that the step could mean is a near miss there is a    *)
(* suggestion, and every suggestion is, or is below, a section that is as   *)
(* near.  A child step means children, a step to a descendant any of them.  *)
NothingNearerMissed(step, p, suggestions) ==
    LET below  == {s \in DOMAIN Doc.sections : Under(Doc, s, p) /\ SlugOf(Doc, s) # NoPath}
        rivals == {s \in below : step.is = "named" => ParentOf(Doc, s) = p /\ SlugOf(Doc, s) # step.slug}
        typos  == [s \in below |-> Typos(step.slug, SlugOf(Doc, s))]
    IN  \A rival \in rivals : \A missed \in typos[rival] :
           /\ suggestions # {}
           /\ \A suggestion \in suggestions :
                 \E s \in below : /\ StartsWith(suggestion.steps, StepsTo(Doc, s))
                                  /\ \E near \in typos[s] : near <= missed

SuggestionsAreRight(paths, at, deepest, suggestions) ==
    /\ \A suggestion \in suggestions :
          /\ \E i \in DOMAIN paths : paths[i][1] = suggestion
          /\ StartsWith(suggestion.steps, deepest.steps)
          /\ suggestion # deepest
    /\ at.resolved < Len(request.steps) /\ request.steps[at.resolved + 1].is # "position" =>
          NothingNearerMissed(request.steps[at.resolved + 1], Resolve(Doc, deepest).node[2], suggestions)
FailureLeadsSomewhere(paths, at, deepest) ==
    /\ deepest # NoPath
    /\ at.error = "ambiguous" => Meant(at, Candidates(paths, deepest, request, at.resolved))
    /\ at.error = "unresolved" =>
         SuggestionsAreRight(paths, at, deepest,
                             SeqOf!ToSet(Suggestions(Doc, paths, deepest, request, at.resolved)))
AnswerLeadsSomewhere(paths, at) ==
    at.error # "none" => FailureLeadsSomewhere(paths, at, CanonicalPrefix(Doc, paths, request, at.resolved))
FailuresLeadSomewhere == request # NoPath => AnswerLeadsSomewhere(DocumentPathsOf(Doc), Resolve(Doc, request))

(* The distance computed in the band is the edit distance wherever that is  *)
(* within the threshold, and none is reported elsewhere.                    *)
BandedDistanceIsExact ==
    ParsedByDefault =>
        \A slug \in {SlugOf(Doc, s) : s \in DOMAIN Doc.sections} \ {NoPath}, wrong \in Misspelled :
            \A exact \in {EditDistance(wrong, slug)}, cap \in 1 .. 3 :
                CappedLevenshtein(wrong, slug, cap) = IF exact <= cap THEN exact ELSE NoPath

(* What a reader is told of a path that leads nowhere is right: it leads to *)
(* nodes, and no section that the step could mean is nearer than what is    *)
(* suggested.  A section deeper than a child step means may be nearer.      *)
CorrectionsAreRight == FailuresLeadSomewhere /\ BandedDistanceIsExact

(* The words the index should take for those of a block or item are those   *)
(* the document shows (search-spec 2.3), but for what comes of reading a    *)
(* slice of the source out of its context: the labels of references come    *)
(* in, and the rows of indented code that would be comments or definitions  *)
(* if they were not indented are lost.                                      *)
RowsLost(rows) ==
    LET closed == {k \in DOMAIN rows : SeqOf!Last(rows[k]) = "-->"} IN
    CASE rows[1][1] = "<!--" -> {k \in DOMAIN rows : \A c \in closed : k <= c}
      [] Len(rows[1]) > 2 /\ rows[1][3] = "]:" -> {1}
      [] OTHER -> {k \in closed : rows[k][1] = "<!--"}
RECURSIVE NodeWords(_)
WordsOfAll(nodes) == SeqOf!FlattenSeq([i \in DOMAIN nodes |-> NodeWords(nodes[i])])
NodeWords(n) ==
    CASE n.tag \in {"text", "code_span", "code"} -> <<n.text>>
      [] n.tag \in {"break", "rule", "html", "html_span"} -> <<>>
      [] n.tag = "indented" ->
            SelectSeq(SeqOf!FlattenSeq([k \in DOMAIN n.rows |->
                          IF k \in RowsLost(n.rows) THEN <<>> ELSE n.rows[k]]),
                      LAMBDA t : t \notin Marks)
      [] n.tag = "reference" -> WordsOfAll(n.kids) \o <<"r">>
      [] n.tag = "list" -> SeqOf!FlattenSeq([i \in DOMAIN n.items |-> WordsOfAll(n.items[i].kids)])
      [] OTHER -> WordsOfAll(n.kids)
Written(node) == document[Owned(node[2])[node[3]]].block
WrittenWords(node) ==
    IF node[1] = "item" THEN WordsOfAll(Written(node).items[node[4]].kids)
    ELSE NodeWords(Written(node))

(* No visible word is lost, repeated or moved to another section on its way *)
(* into the units but for the above: under each section the units of its    *)
(* blocks have the words of its blocks, in their order.                     *)
WordsUnder(p) ==
    LET places == Preamble(Doc, p)
    IN  SeqOf!FlattenSeq([i \in DOMAIN places |-> WrittenWords(<<"block">> \o places[i])])
EveryWordInOneUnit(units) ==
    \A s \in {0} \cup (1 .. Len(Doc.sections) \ {MergedTitle(Doc)}) :
        LET own == SelectSeq(units, LAMBDA u : /\ u.node[1] = "block"
                                               /\ u.path.steps = StepsTo(Doc, s))
        IN  SeqOf!FlattenSeq([i \in DOMAIN own |-> own[i].body]) = WordsUnder(s)

(* A unit's context is the headings it is under, outermost first, and its   *)
(* section the innermost of them that is not the merged title.              *)
Ancestors(s) ==
    LET up[n \in 0 .. Len(headings)] == IF n = 0 THEN <<>> ELSE Append(up[parent[n]], n) IN up[s]
ContextIsHeadingsAbove(units) ==
    \A unit \in SeqOf!ToSet(units) :
        IF unit.node = <<"section", 0>> THEN unit.context = <<>> /\ unit.section = NoPath
        ELSE LET s     == unit.node[2]
                 title == IF MergedTitle(Doc) = 0 THEN <<>> ELSE <<MergedTitle(Doc)>>
                 above == IF unit.node[1] = "section" THEN SeqOf!Front(Ancestors(s)) ELSE Ancestors(s)
             IN  /\ unit.context = IF s = 0 THEN title ELSE above
                 /\ unit.node[1] # "section" =>
                      unit.section = IF s \in {0, MergedTitle(Doc)} THEN NoPath ELSE <<"section", s>>

(* The units of a document are its words, once each, under their headings.  *)
CoverDocument(units) == EveryWordInOneUnit(units) /\ ContextIsHeadingsAbove(units)
UnitsCoverDocument == ParsedByDefault => CoverDocument(Units(Doc))

(* A search finds the smallest node: whatever block has all the words, a    *)
(* hit is that block or inside it, or the block it introduces; an item that *)
(* has them is a hit; and no hit is a list with a hit among its items.  A word that is somewhere is *)
(* counted somewhere: what is said of a search without hits is true.        *)
Contains(outer, inner) == inner = outer \/ (inner[1] = "item" /\ outer = <<"block">> \o Tail(SeqOf!Front(inner)))
SmallestAre(paths, wanted, hits) ==
    /\ \A i \in {k \in DOMAIN paths : paths[k][2][1] = "item"} :
          wanted \subseteq SeqOf!ToSet(WrittenWords(paths[i][2])) =>
            \E hit \in hits : hit.node = paths[i][2]
    /\ \A i \in {k \in DOMAIN paths : paths[k][2][1] = "block"} :
          wanted \subseteq SeqOf!ToSet(WrittenWords(paths[i][2])) =>
            \E hit \in hits : \E k \in i .. Len(paths) :
               /\ \A j \in i .. k - 1 : FoldedInto(Doc, paths, j)
               /\ Contains(paths[k][2], hit.node)
    /\ \A hit, other \in hits : other.parentList # hit.path
FindsSmallest(paths, units) ==
    \A wanted \in (SUBSET UNION {SeqOf!ToSet(units[i].body) : i \in DOMAIN units}) \ {{}} :
        /\ SmallestAre(paths, wanted, SeqOf!ToSet(Hits(units, wanted)))
        /\ \A word \in wanted : TermCount(units, word) > 0
SearchFindsSmallest == ParsedByDefault => FindsSmallest(DocumentPathsOf(Doc), Units(Doc))
=============================================================================
