---------------------------- MODULE DocumentRead ----------------------------
(***************************************************************************)
(* Reading a document by path (crates/outlint-core/src/document_read): the *)
(* content of a node down to a depth, the listing of what is below it, and *)
(* what is said of a path that leads nowhere: the canonical path it got to,*)
(* the sections it could have meant, and suggestions.                      *)
(*                                                                         *)
(* Content is a sequence of slices <<first line, last line>>.              *)
(***************************************************************************)
EXTENDS DocumentPaths

LOCAL SeqOf == INSTANCE SequencesExt
LOCAL SetOf == INSTANCE FiniteSetsExt

(* forest_height: the levels of sections below p. *)
Height(d, p) ==
    LET up[s \in 0 .. Len(d.sections)] == IF s = p THEN 0 ELSE up[ParentOf(d, s)] + 1
    IN  SetOf!Max({0} \cup {up[s] : s \in {k \in DOMAIN d.sections : Under(d, k, p)}})

OwnSlice(d, s) ==
    <<d.sections[s].line,
      SetOf!Max({d.sections[s].last} \cup {OwnBlocks(d, s)[i].last : i \in DOMAIN OwnBlocks(d, s)})>>

RECURSIVE SectionSlices(_, _, _)
SlicesOf(d, children, depth) == SeqOf!FlattenSeq([i \in DOMAIN children |-> SectionSlices(d, children[i], depth)])
SectionSlices(d, s, depth) ==
    IF depth >= Height(d, s) THEN <<Extent(d, <<"section", s>>)>>
    ELSE <<OwnSlice(d, s)>> \o (IF depth = 0 THEN <<>> ELSE SlicesOf(d, Children(d, s), depth - 1))

(* Bug: the root's own content stops where the merged title starts. *)
RootSlicesToTitle(d, depth, lines) ==
    IF depth >= Height(d, 0) THEN <<<<1, lines>>>>
    ELSE <<<<1, d.sections[1].line - 1>>>>
           \o (IF depth = 0 THEN <<>> ELSE SlicesOf(d, Children(d, 0), depth - 1))

(* The root's own content runs to the first section below it. *)
RootSlices(d, depth, lines) ==
    IF depth >= Height(d, 0) THEN <<<<1, lines>>>>
    ELSE <<<<1, d.sections[Children(d, 0)[1]].line - 1>>>>
           \o (IF depth = 0 THEN <<>> ELSE SlicesOf(d, Children(d, 0), depth - 1))

Content(d, node, depth, lines) ==
    CASE node = <<"section", 0>> -> IF depth = NoPath THEN <<<<1, lines>>>> ELSE RootSlices(d, depth, lines)
      [] node[1] = "section" /\ node[2] # 0 ->
            IF depth = NoPath THEN <<Extent(d, node)>> ELSE SectionSlices(d, node[2], depth)
      [] OTHER -> <<Extent(d, node)>>

-----------------------------------------------------------------------------
(* Listings: the canonical paths that extend the base's. *)

StartsWith(seq, prefix) == SeqOf!IsPrefix(prefix, seq)


Listed(base, candidate, depth, blocks) ==
    /\ StartsWith(candidate.steps, base.steps)
    /\ IF base.terminal # NoPath
       THEN /\ candidate.steps = base.steps /\ candidate.terminal # NoPath
            /\ \/ candidate.terminal = base.terminal
               \/ /\ blocks /\ base.terminal.is = "block" /\ base.terminal.kind = "list"
                  /\ candidate.terminal.is = "item" /\ candidate.terminal.index = base.terminal.index
       ELSE /\ depth # NoPath => Len(candidate.steps) <= Len(base.steps) + depth
            /\ blocks \/ candidate.terminal = NoPath

Listing(entries, base, depth, blocks) ==
    SelectSeq(entries, LAMBDA entry : Listed(base, entry[1], depth, blocks))

CanonicalPath(entries, node) ==
    LET found == SeqOf!SelectInSeq(entries, LAMBDA entry : entry[2] = node)
    IN  IF found = 0 THEN NoPath ELSE entries[found][1]
PathOfResolved(entries, at) == IF at.error # "none" THEN NoPath ELSE CanonicalPath(entries, at.node)
CanonicalPrefix(d, entries, path, steps) == PathOfResolved(entries, Resolve(d, Prefix(path, steps)))

-----------------------------------------------------------------------------
(* Edit distance, computed only in the band that can stay below the cap.    *)

Least(set) == SetOf!Min(set)
TypoThreshold(length) == Least({3, SetOf!Max({1, (length + 2) \div 3})})


OutsideBand(row, j, threshold) == j + threshold < row \/ j > row + threshold

CappedLevenshtein(left, right, threshold) ==
    LET beyond == threshold + 1
        first  == [j \in 0 .. Len(right) |-> IF j <= threshold THEN j ELSE beyond]
        next(previous, row) ==
            LET cell[j \in 0 .. Len(right)] ==
                  CASE j = 0 -> IF row <= threshold THEN row ELSE beyond
                    [] j # 0 /\ OutsideBand(row, j, threshold) -> beyond
                    [] OTHER -> Least({previous[j] + 1, cell[j - 1] + 1, beyond,
                                       previous[j - 1] + (IF left[row] = right[j] THEN 0 ELSE 1)})
            IN  cell
        rows[i \in 0 .. Len(left)] ==
            IF i = 0 THEN first
            ELSE IF rows[i - 1] = NoPath THEN NoPath
            ELSE LET cells == next(rows[i - 1], i)
                 IN  IF \A j \in DOMAIN cells : cells[j] > threshold THEN NoPath ELSE cells
        last == rows[Len(left)]
        gap  == Len(left) > Len(right) + threshold \/ Len(right) > Len(left) + threshold
    IN  IF gap \/ last = NoPath THEN NoPath
        ELSE IF last[Len(right)] > threshold THEN NoPath ELSE last[Len(right)]

CappedDistance(left, right) ==
    CappedLevenshtein(left, right, TypoThreshold(SetOf!Max({Len(left), Len(right)})))

Digits == {"0", "1", "2"}
(* What follows the leading components that are numbers, if there are any. *)
NumberedTail(slug) ==
    LET cuts == {i \in 1 .. Len(slug) - 1 :
                    /\ slug[i] = "-"
                    /\ \A j \in 1 .. i : slug[j] \in Digits \cup {"-"}}
    IN  IF cuts = {} THEN NoPath ELSE SubSeq(slug, SetOf!Max(cuts) + 1, Len(slug))

-----------------------------------------------------------------------------
(* Suggestions for a section step that matched nothing.  A candidate stands *)
(* in for the failed step, and as much of the rest as resolves is kept.     *)

(* Bug: the rest of the path is kept whether it resolves or not. *)
CorrectedWhole(d, entries, path, resolved, candidate) ==
    [steps |-> candidate.steps \o SubSeq(path.steps, resolved + 2, Len(path.steps)), terminal |-> path.terminal]

LastPath(paths) ==
    LET resolving == {kept \in DOMAIN paths : paths[kept] # NoPath}
    IN  IF resolving = {} THEN NoPath ELSE paths[SetOf!Max(resolving)]
Corrected(d, entries, path, resolved, candidate) ==
    LET Spelled(kept) ==
            [steps |-> candidate.steps \o SubSeq(Prefix(path, kept).steps, resolved + 2, Len(Prefix(path, kept).steps)),
             terminal |-> Prefix(path, kept).terminal]
    IN  LastPath([kept \in resolved + 1 .. StepCount(path) |-> PathOfResolved(entries, Resolve(d, Spelled(kept)))])

LastSlug(path) ==
    IF path.steps = <<>> THEN NoPath ELSE SeqOf!Last(path.steps).slug
(* Sections with a slug below the deepest node reached, and how far below.  *)
SectionsBelow(entries, deepest) ==
    SelectSeq(entries, LAMBDA entry : /\ entry[2][1] = "section" /\ LastSlug(entry[1]) # NoPath
                                      /\ StartsWith(entry[1].steps, deepest.steps)
                                      /\ Len(entry[1].steps) > Len(deepest.steps))
Below1(entry, deepest) == Len(entry[1].steps) = Len(deepest.steps) + 1

(* The first class: the very slug, deeper down for a child step.            *)
ExactCandidates(entries, step, deepest) ==
    SelectSeq(SectionsBelow(entries, deepest), LAMBDA entry :
                 /\ LastSlug(entry[1]) = step.slug
                 /\ step.is = "below" \/ ~Below1(entry, deepest))

(* The second class: the nearest slugs, where numbers in front of a heading *)
(* do not count; for a child step, children before anything deeper.         *)
LeastOf(distances) == IF distances \ {NoPath} = {} THEN NoPath ELSE Least(distances \ {NoPath})
Distance(entry, step, deepest, siblingTypo) ==
    LET slug     == LastSlug(entry[1])
        raw      == CappedDistance(step.slug, slug)
        numbered == IF NumberedTail(slug) = NoPath THEN NoPath ELSE CappedDistance(step.slug, NumberedTail(slug))
        typo     == IF raw = 0 THEN NoPath ELSE raw
    IN  CASE step.is = "below" -> LeastOf({raw, numbered})
          [] step.is = "named" /\ ~Below1(entry, deepest) /\ siblingTypo -> numbered
          [] OTHER -> LeastOf({typo, numbered})

(* Bug: a farther section replaces a nearer one. *)
LatestOf(scored) ==
    LET kept == SelectSeq(scored, LAMBDA s : s.distance = scored[Len(scored)].distance)
    IN  [i \in DOMAIN kept |-> kept[i].path]

NearestOf(scored) ==
    LET best == LeastOf({scored[i].distance : i \in DOMAIN scored})
        kept == SelectSeq(scored, LAMBDA s : s.distance = best)
    IN  [i \in DOMAIN kept |-> kept[i].path]
Ranked(d, entries, path, resolved, deepest) ==
    LET step  == path.steps[resolved + 1]
        below == SectionsBelow(entries, deepest)
        siblingTypo ==
            /\ step.is = "named"
            /\ \E i \in DOMAIN below : Below1(below[i], deepest)
                                       /\ CappedDistance(step.slug, LastSlug(below[i][1])) \notin {NoPath, 0}
    IN  NearestOf(SelectSeq([i \in DOMAIN below |->
                              [distance |-> Distance(below[i], step, deepest, siblingTypo),
                               path     |-> Corrected(d, entries, path, resolved, below[i][1])]],
                           LAMBDA s : s.distance # NoPath /\ s.path # NoPath))

SuggestionLimit == 5
(* Equal neighbours once, and not too many (limit_suggestions). *)
Limited(paths) ==
    LET apart == SelectSeq([i \in DOMAIN paths |-> i], LAMBDA i : i = 1 \/ paths[i] # paths[i - 1])
    IN  [i \in 1 .. Least({Len(apart), SuggestionLimit}) |-> paths[apart[i]]]

Suggestions(d, entries, deepest, path, resolved) ==
    LET step    == path.steps[resolved + 1]
        exact   == ExactCandidates(entries, step, deepest)
        corrected == SelectSeq([i \in DOMAIN exact |-> Corrected(d, entries, path, resolved, exact[i][1])],
                               LAMBDA p : p # NoPath)
    IN  IF resolved >= Len(path.steps) \/ deepest = NoPath THEN <<>>
        ELSE IF step.is = "position" THEN <<>>
        ELSE IF corrected # <<>> THEN Limited(corrected)
        ELSE Limited(Ranked(d, entries, path, resolved, deepest))

(* The sections an ambiguous step could mean, by their canonical paths.     *)
Candidates(entries, deepest, path, resolved) ==
    LET step == path.steps[resolved + 1]
    IN  SelectSeq(entries, LAMBDA entry :
            /\ entry[1].terminal = NoPath /\ entry[1].steps # <<>>
            /\ LastSlug(entry[1]) = step.slug
            /\ LET parent == SeqOf!Front(entry[1].steps)
               IN  IF step.is = "below" THEN StartsWith(parent, deepest.steps) ELSE parent = deepest.steps)
=============================================================================
