----------------------------- MODULE SearchUnits -----------------------------
(***************************************************************************)
(* What of a document can be found (crates/outlint-search/src): units.rs   *)
(* splits a document into units, the sections, blocks and list items with  *)
(* their words; index.rs and store.rs answer a query with the units that   *)
(* have all its words, a list only where none of its items has them all.   *)
(*                                                                         *)
(* A document has, besides what DocumentPaths asks for, its `source` as a  *)
(* sequence of tokens, the words of its frontmatter in `front` (NoPath     *)
(* without one), and the range of tokens of each block and item.           *)
(***************************************************************************)
EXTENDS DocumentRead, Integers

LOCAL SeqOf == INSTANCE SequencesExt

CONSTANTS
    Marks,          \* the tokens that are not visible
    Colons,         \* the words that end in a colon
    LeadInMax       \* how long a lead-in that ends in a colon may be, in words

Tokens(d, at) == SubSeq(d.source, at.from, at.to)

(* The words of a node are read off its slice of the source, parsed again   *)
(* as a document of its own.  A reference has no definition there, so its   *)
(* label is text; the first line of indented code has lost its indent, so   *)
(* it may be a comment or a definition, or else starts a paragraph, in      *)
(* which comments are inline HTML.                                          *)
AfterLine(tokens, i) ==
    LET ends == {k \in i .. Len(tokens) : tokens[k] = "\n"}
    IN  IF ends = {} THEN <<>> ELSE SubSeq(tokens, (CHOOSE k \in ends : \A e \in ends : k <= e) + 1, Len(tokens))
Closes(tokens) == {k \in DOMAIN tokens : tokens[k] = "-->"}
InComment(tokens, i) ==
    /\ \E j \in 1 .. i : tokens[j] = "<!--" /\ \A k \in j .. i - 1 : tokens[k] # "-->"
    /\ \E k \in i .. Len(tokens) : tokens[k] = "-->"
Reparsed(tokens) ==
    CASE tokens # <<>> /\ tokens[1] = "<!--" ->
            IF Closes(tokens) = {} THEN <<>>
            ELSE AfterLine(tokens, CHOOSE k \in Closes(tokens) : \A c \in Closes(tokens) : k <= c)
      [] Len(tokens) > 2 /\ tokens[3] = "]:" -> AfterLine(tokens, 1)
      [] OTHER -> [i \in DOMAIN tokens |-> IF InComment(tokens, i) THEN "comment" ELSE tokens[i]]
Visible1(d, at) == SelectSeq(Reparsed(Tokens(d, at)), LAMBDA t : t \notin Marks)
HeadingWords(d, s) == SelectSeq(d.sections[s].text, LAMBDA t : t \notin Marks)

(* A paragraph in one span of emphasis. *)
EntirelyEmphasized(tokens) ==
    LET depth[i \in 0 .. Len(tokens)] ==
          IF i = 0 THEN 0
          ELSE depth[i - 1] + (CASE tokens[i] = "<em>" -> 1 [] tokens[i] = "</em>" -> -1 [] OTHER -> 0)
    IN  /\ tokens # <<>> /\ tokens[1] = "<em>"
        /\ depth[Len(tokens)] = 0
        /\ \A i \in 1 .. Len(tokens) - 1 : depth[i] # 0

IsLeadIn(d, block) ==
    LET words == Visible1(d, block)
    IN  /\ block.kind = "paragraph"
        /\ \/ words # <<>> /\ SeqOf!Last(words) \in Colons /\ Len(words) <= LeadInMax
           \/ EntirelyEmphasized(Tokens(d, block))

(* Lead-ins are folded into the next block of the same section: `paths` is  *)
(* the enumeration, whose entries are <<path, node>>.                       *)
BlockOf(d, node) == OwnBlocks(d, node[2])[node[3]]
(* Bug: a lead-in at the end of a section goes to the next one. *)
FoldedAnywhere(d, paths, i) ==
    /\ paths[i][2][1] = "block" /\ IsLeadIn(d, BlockOf(d, paths[i][2]))
    /\ \E j \in i + 1 .. Len(paths) : paths[j][2][1] = "block"

FoldedInto(d, paths, i) ==
    /\ paths[i][2][1] = "block" /\ IsLeadIn(d, BlockOf(d, paths[i][2]))
    /\ i < Len(paths)
    /\ paths[i + 1][2][1] = "block" /\ paths[i + 1][1].steps = paths[i][1].steps


(* The words of the lead-ins just before the block at i. *)
LeadIn(d, paths, i) ==
    LET run == {k \in 1 .. i : \A j \in k .. i - 1 : FoldedInto(d, paths, j)}
        first == CHOOSE k \in run : \A m \in run : k <= m
    IN  SeqOf!FlattenSeq([j \in 1 .. i - first |-> Visible1(d, BlockOf(d, paths[first + j - 1][2]))])


(* The headings above a node, by the paths of its ancestors. *)
Context(d, paths, path, isSection) ==
    LET above == IF isSection THEN Len(path.steps) - 1 ELSE Len(path.steps)
        title == MergedTitle(d)
        At(n) == LET found == SeqOf!SelectInSeq(paths, LAMBDA entry : entry[1] = Prefix(path, n))
                 IN  IF found = 0 THEN <<>> ELSE <<paths[found][2][2]>>
    IN  (IF title = 0 THEN <<>> ELSE <<title>>) \o SeqOf!FlattenSeq([n \in 1 .. above |-> At(n)])

Unit(entry, parentList, section, context, body) ==
    [path |-> entry[1], node |-> entry[2], parentList |-> parentList,
     section |-> section, context |-> context, body |-> body]

RootUnit(d, entry) ==
    LET title == MergedTitle(d) IN
    IF title = 0 /\ d.front = NoPath THEN <<>>
    ELSE <<Unit(entry, NoPath, NoPath, <<>>,
                (IF title = 0 THEN <<>> ELSE HeadingWords(d, title)) \o (IF d.front = NoPath THEN <<>> ELSE d.front))>>

(* The last list, and the last section, before i in document order. *)
EnclosingList(d, paths, i) ==
    LET before == {j \in 1 .. i - 1 : paths[j][2][1] # "item"}
        last   == CHOOSE j \in before : \A k \in before : k <= j
    IN  IF paths[last][2][1] = "block" /\ BlockOf(d, paths[last][2]).kind = "list" THEN paths[last][1] ELSE NoPath
EnclosingSection(d, paths, i) ==
    LET before == {j \in 1 .. i - 1 : paths[j][2][1] = "section" /\ paths[j][2][2] # 0}
    IN  IF before = {} THEN NoPath ELSE paths[CHOOSE j \in before : \A k \in before : k <= j][2]

UnitAt(d, paths, i) ==
    LET path    == paths[i][1]
        node    == paths[i][2]
        section == EnclosingSection(d, paths, i)
        context == Context(d, paths, path, node[1] = "section")
        item    == OwnBlocks(d, node[2])[node[3]].items[node[4]]
    IN  CASE node = <<"section", 0>> -> RootUnit(d, paths[i])
          [] node[1] = "section" /\ node[2] # 0 ->
                <<Unit(paths[i], NoPath, NoPath, context, HeadingWords(d, node[2]))>>
          [] node[1] = "block" ->
                IF FoldedInto(d, paths, i) THEN <<>>
                ELSE <<Unit(paths[i], NoPath, section, context,
                            LeadIn(d, paths, i) \o Visible1(d, BlockOf(d, node)))>>
          [] node[1] = "item" ->
                IF EnclosingList(d, paths, i) = NoPath \/ Visible1(d, item) = <<>> THEN <<>>
                ELSE <<Unit(paths[i], EnclosingList(d, paths, i), section, context, Visible1(d, item))>>

Units(d) ==
    LET paths == DocumentPathsOf(d)
    IN  SeqOf!FlattenSeq([i \in DOMAIN paths |-> UnitAt(d, paths, i)])

-----------------------------------------------------------------------------
(* Queries: every word in the unit's own text; headings above it only rank. *)

Matches(unit, words) == words \subseteq SeqOf!ToSet(unit.body)

(* Bug: an item that has only some of the words excludes its list. *)
ExcludedByAny(units, words) ==
    {units[i].parentList : i \in {j \in DOMAIN units : /\ units[j].parentList # NoPath
                                                       /\ words \cap SeqOf!ToSet(units[j].body) # {}}}

ExcludedLists(units, words) ==
    {units[i].parentList : i \in {j \in DOMAIN units : units[j].parentList # NoPath /\ Matches(units[j], words)}}

Hits(units, words) ==
    SelectSeq(units, LAMBDA unit : Matches(unit, words) /\ unit.path \notin ExcludedLists(units, words))

(* Lists stand for their items where blocks are counted. *)
TermCount(units, word) ==
    Len(SelectSeq(units, LAMBDA unit : unit.parentList = NoPath /\ Matches(unit, {word})))
=============================================================================
