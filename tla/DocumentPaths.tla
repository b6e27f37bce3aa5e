--------------------------- MODULE DocumentPaths ---------------------------
(***************************************************************************)
(* Addresses of the nodes of a document (crates/outlint-core/src/          *)
(* document_path): every node gets a canonical path, a path selects at     *)
(* most one node, and a path that selects none says how far it got.        *)
(*                                                                         *)
(* A document is [blocks, sections, parent]: the root's blocks; the        *)
(* sections in document order, each [level, text, line, last, blocks]; and *)
(* the section each is in, 0 for the root.  A node is <<"section", s>>     *)
(* (the root is section 0), <<"block", s, i>> or <<"item", s, i, n>>.      *)
(* A path is [steps, terminal]; indexes count from 0 as they are written.  *)
(***************************************************************************)
EXTENDS Naturals, Sequences, FiniteSets

LOCAL SeqOf == INSTANCE SequencesExt

CONSTANTS
    Slugs,      \* the words that leave something in a slug: its characters
    NoPath      \* no terminal, no index, no slug

Positions(seq) == [i \in DOMAIN seq |-> i]
Sections(d)    == Positions(d.sections)

(* heading_slug: what the words of a text leave, joined by hyphens. *)
Slug(text) ==
    LET kept == SelectSeq(text, LAMBDA word : word \in DOMAIN Slugs)
    IN  IF kept = <<>> THEN NoPath
        ELSE SeqOf!FoldLeft(LAMBDA slug, word : slug \o <<"-">> \o Slugs[word], Slugs[kept[1]], Tail(kept))
SlugOf(d, s) == Slug(d.sections[s].text)

-----------------------------------------------------------------------------
(* The tree as paths see it: a sole top-level heading of level 1 is merged  *)
(* into the root.                                                           *)

Within(d, p) == SelectSeq(Sections(d), LAMBDA s : d.parent[s] = p)
MergedTitle(d) ==
    LET top == Within(d, 0)
    IN  IF Len(top) = 1 /\ d.sections[top[1]].level = 1 THEN top[1] ELSE 0

Children(d, p) == Within(d, IF p = 0 THEN MergedTitle(d) ELSE p)
(* The node in whose children a section is. *)
ParentOf(d, s) == IF d.parent[s] = MergedTitle(d) THEN 0 ELSE d.parent[s]

OwnBlocks(d, p) == IF p = 0 THEN d.blocks ELSE d.sections[p].blocks

(* The direct blocks a terminal counts over, as <<owner, number>>. *)
Preamble(d, p) ==
    LET own(s) == [i \in DOMAIN OwnBlocks(d, s) |-> <<s, i>>]
    IN  IF p = 0 /\ MergedTitle(d) # 0 THEN own(0) \o own(MergedTitle(d)) ELSE own(p)
BlockAt(d, place) == OwnBlocks(d, place[1])[place[2]]

(* Whether s is in the subtree of p, p itself excluded. *)
Under(d, s, p) ==
    LET up[n \in 0 .. s] == IF n = 0 THEN FALSE ELSE ParentOf(d, n) = p \/ up[ParentOf(d, n)]
    IN  s # MergedTitle(d) /\ up[s]
Descendants(d, p) == SelectSeq(Sections(d), LAMBDA s : Under(d, s, p))

-----------------------------------------------------------------------------
(* Canonical paths: a slug, with its rank among the siblings that share it, *)
(* or the position of a heading that leaves no slug.                        *)

Named(slug, index) == [is |-> "named", slug |-> slug, index |-> index]
Below(slug, index) == [is |-> "below", slug |-> slug, index |-> index]
Position(index)    == [is |-> "position", slug |-> NoPath, index |-> index]

Matching(d, candidates, slug) == SelectSeq(candidates, LAMBDA s : SlugOf(d, s) = slug)
IndexIn(seq, x) == (CHOOSE i \in DOMAIN seq : seq[i] = x) - 1

(* Bug: the position among all siblings stands for the rank. *)
StepByPosition(d, s) ==
    LET siblings == Children(d, ParentOf(d, s))
        sharing  == Matching(d, siblings, SlugOf(d, s))
    IN  IF SlugOf(d, s) = NoPath THEN Position(IndexIn(siblings, s))
        ELSE Named(SlugOf(d, s), IF Len(sharing) = 1 THEN NoPath ELSE IndexIn(siblings, s))

CanonicalStep(d, s) ==
    LET siblings == Children(d, ParentOf(d, s))
        sharing  == Matching(d, siblings, SlugOf(d, s))
    IN  IF SlugOf(d, s) = NoPath THEN Position(IndexIn(siblings, s))
        ELSE Named(SlugOf(d, s), IF Len(sharing) = 1 THEN NoPath ELSE IndexIn(sharing, s))

StepsTo(d, s) ==
    LET to[n \in 0 .. s] == IF n = 0 THEN <<>> ELSE Append(to[ParentOf(d, n)], CanonicalStep(d, n))
    IN  to[s]

OfKind(d, p, kind) == SelectSeq(Preamble(d, p), LAMBDA place : BlockAt(d, place).kind = kind)

BlockTerminal(kind, index)   == [is |-> "block", kind |-> kind, index |-> index]
ItemTerminal(list, item)     == [is |-> "item", kind |-> "list", index |-> list, item |-> item]

(* The paths of the direct blocks of p, and of the items of its lists.      *)
PreamblePaths(d, p) ==
    SeqOf!FlattenSeq([n \in DOMAIN Preamble(d, p) |->
        LET place == Preamble(d, p)[n]
            block == BlockAt(d, place)
            index == IndexIn(OfKind(d, p, block.kind), place)
            At(terminal) == [steps |-> StepsTo(d, p), terminal |-> terminal]
        IN  <<<<At(BlockTerminal(block.kind, index)), <<"block">> \o place>>>>
              \o [i \in DOMAIN block.items |->
                    <<At(ItemTerminal(index, i - 1)), <<"item">> \o place \o <<i>>>>]])

DocumentPathsOf(d) ==
    LET of(p) == <<<<[steps |-> StepsTo(d, p), terminal |-> NoPath], <<"section", p>>>>>> \o PreamblePaths(d, p)
        shown == <<0>> \o SelectSeq(Sections(d), LAMBDA s : s # MergedTitle(d))
    IN  SeqOf!FlattenSeq([i \in DOMAIN shown |-> of(shown[i])])

-----------------------------------------------------------------------------
(* Resolution: [node] or [error, resolved, candidates].                     *)

Found(node)                  == [error |-> "none", node |-> node]
Unresolved(resolved)         == [error |-> "unresolved", resolved |-> resolved]
Ambiguous(resolved, matches) == [error |-> "ambiguous", resolved |-> resolved, candidates |-> matches]

SelectSlugged(d, candidates, slug, index, resolved) ==
    LET matching == Matching(d, candidates, slug) IN
    IF index # NoPath
    THEN IF index < Len(matching) THEN Found(matching[index + 1]) ELSE Unresolved(resolved)
    ELSE CASE Len(matching) = 0 -> Unresolved(resolved)
           [] Len(matching) = 1 -> Found(matching[1])
           [] OTHER             -> Ambiguous(resolved, Len(matching))

SelectSection(d, p, step, resolved) ==
    CASE step.is = "position" -> IF step.index < Len(Children(d, p)) THEN Found(Children(d, p)[step.index + 1])
                                 ELSE Unresolved(resolved)
      [] step.is = "named"    -> SelectSlugged(d, Children(d, p), step.slug, step.index, resolved)
      [] step.is = "below"    -> SelectSlugged(d, Descendants(d, p), step.slug, step.index, resolved)

(* The section the steps lead to. *)
ResolveSteps(d, steps) ==
    LET after[n \in 0 .. Len(steps)] ==
          IF n = 0 THEN Found(0)
          ELSE IF after[n - 1].error # "none" THEN after[n - 1]
               ELSE SelectSection(d, after[n - 1].node, steps[n], n - 1)
    IN  after[Len(steps)]

ResolveTerminal(d, p, terminal, resolved) ==
    LET blocks == OfKind(d, p, terminal.kind)
        place  == blocks[terminal.index + 1]
    IN  CASE terminal.index >= Len(blocks) -> Unresolved(resolved)
          [] terminal.index < Len(blocks) /\ terminal.is = "block" -> Found(<<"block">> \o place)
          [] terminal.index < Len(blocks) /\ terminal.is = "item" ->
                IF terminal.item < Len(BlockAt(d, place).items) THEN Found(<<"item">> \o place \o <<terminal.item + 1>>)
                ELSE Unresolved(resolved + 1)

ResolveBelow(d, parent, path) ==
    CASE parent.error # "none"    -> parent
      [] parent.error = "none" /\ path.terminal = NoPath -> Found(<<"section", parent.node>>)
      [] OTHER -> ResolveTerminal(d, parent.node, path.terminal, Len(path.steps))
Resolve(d, path) == ResolveBelow(d, ResolveSteps(d, path.steps), path)

-----------------------------------------------------------------------------
(* The first so many steps of a path; a list item is two steps.             *)
Prefix(path, count) ==
    LET steps == SubSeq(path.steps, 1, IF count < Len(path.steps) THEN count ELSE Len(path.steps))
        rest  == count - Len(path.steps)
        t     == path.terminal
    IN  [steps |-> steps,
         terminal |-> CASE count <= Len(path.steps) \/ t = NoPath -> NoPath
                        [] count > Len(path.steps) /\ t # NoPath ->
                              IF t.is = "item" /\ rest = 1 THEN BlockTerminal("list", t.index) ELSE t]
StepCount(path) ==
    Len(path.steps) + (IF path.terminal = NoPath THEN 0 ELSE IF path.terminal.is = "item" THEN 2 ELSE 1)

(* The lines a node is on: a section ends with the last of what is in it.   *)
LastLine(d, s) ==
    LET ends == {d.sections[s].last}
                  \cup {OwnBlocks(d, s)[i].last : i \in DOMAIN OwnBlocks(d, s)}
                  \cup UNION {{d.sections[c].last} \cup {OwnBlocks(d, c)[i].last : i \in DOMAIN OwnBlocks(d, c)} :
                              c \in {k \in DOMAIN d.sections : Under(d, k, s)}}
    IN  CHOOSE l \in ends : \A k \in ends : k <= l
Extent(d, node) ==
    CASE node[1] = "section" -> IF node[2] = 0 THEN NoPath ELSE <<d.sections[node[2]].line, LastLine(d, node[2])>>
      [] node[1] = "block"   -> LET b == OwnBlocks(d, node[2])[node[3]] IN <<b.first, b.last>>
      [] node[1] = "item"    -> LET i == OwnBlocks(d, node[2])[node[3]].items[node[4]] IN <<i.first, i.last>>
=============================================================================
