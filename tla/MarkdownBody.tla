---------------------------- MODULE MarkdownBody ----------------------------
(***************************************************************************)
(* Scanning a Markdown body (crates/outlint-core/src/markdown/body.rs):    *)
(* one pass over the parser's events finds the headings that open          *)
(* sections, gives every visible top-level block to the section it is in,  *)
(* reads the text of list items, and collects the disabling comments.  A   *)
(* second pass nests the headings by their levels.                         *)
(*                                                                         *)
(* The stream of events may be damaged: one event lost, or two swapped.    *)
(* The scanner must then refuse it.  Texts are sequences of tokens.        *)
(***************************************************************************)
EXTENDS CommonMark, FiniteSets

LOCAL SeqOf == INSTANCE SequencesExt

CONSTANTS
    Documents,      \* the documents: sequences of [block, gap]
    Damaged,        \* documents of which an event is lost or two are swapped
    None

VARIABLES
    document, damaged, strip,       \* the input and strip_inline_markup
    stream, source, blank,          \* what the parser hands over
    next, frames, owner,            \* the scan: next event, open tags, who owns blocks
    heading, leaf, list,            \* active_heading, active_direct_block, active_direct_list
    root, headings,                 \* the root's blocks; the headings with theirs
    fileOff, lineOff,               \* ids disabled for the file; <<line, id>>
    path, parent,                   \* the section tree
    phase

input   == <<document, damaged, strip, stream, source, blank>>
builder == <<heading, leaf, list>>
tree    == <<path, parent>>
vars    == <<input, next, frames, owner, builder, root, headings, fileOff, lineOff, tree, phase>>

Lost(events, i)    == SeqOf!RemoveAt(events, i)
Swapped(events, i) == [events EXCEPT ![i] = events[i + 1], ![i + 1] = events[i]]

Init ==
    /\ document \in Documents \cup Damaged
    /\ strip \in BOOLEAN
    /\ LET laid == Laid(document) IN
       /\ source = laid.source /\ blank = laid.blank
       /\ \/ damaged = FALSE /\ document \in Documents /\ stream = laid.events
          \/ /\ damaged = TRUE /\ document \in Damaged
             /\ \/ \E i \in DOMAIN laid.events : stream = Lost(laid.events, i)
                \/ \E i \in 1 .. Len(laid.events) - 1 : stream = Swapped(laid.events, i)
    /\ next = 1 /\ frames = <<>> /\ owner = 0
    /\ heading = None /\ leaf = None /\ list = None
    /\ root = [blocks |-> <<>>, open |-> TRUE] /\ headings = <<>>
    /\ fileOff = {} /\ lineOff = {}
    /\ path = <<>> /\ parent = <<>>
    /\ phase = "scanning"

-----------------------------------------------------------------------------
(* Frames: the open tags, and what each stands for at the top level.        *)

BlockTags == {"paragraph", "list", "quote", "code", "html"}

TopLevel         == frames = <<>>
Innermost        == SeqOf!Last(frames)
AcceptsItem      == ~TopLevel /\ Innermost.directList
ItemIsParent     == ~TopLevel /\ Innermost.directItem
IsDirectBlock(e) == TopLevel /\ e.tag \in BlockTags
IsDirectItem(e)  == e.tag = "item" /\ AcceptsItem

Frame(e, eligible) ==
    [event       |-> [e EXCEPT !.is = "end"],
     directBlock |-> IsDirectBlock(e),
     directList  |-> IsDirectBlock(e) /\ e.tag = "list",
     directItem  |-> IsDirectItem(e),
     eligible    |-> eligible]

(* Bug: a heading inside a list or a quote opens a section too. *)
IsEligibleAnywhere(e) == e.tag = "heading" /\ e.data.style \in {"atx", "setext"}

(* Headings that open sections: a line of hashes followed by a space, or an *)
(* underline; a hash followed by a tab makes a heading that does not.       *)
IsEligible(e) ==
    e.tag = "heading" /\ TopLevel
    /\ \/ e.data.style = "atx"
       \/ e.data.style = "setext" /\ e.data.level \in 1 .. 2

-----------------------------------------------------------------------------
(* Where a node is, and what comments disable there: a directive alone on   *)
(* its line is about what starts on the next line.                          *)

Trimmed(first, last) ==
    LET used == {l \in first .. last : l \notin blank} IN CHOOSE l \in used : \A k \in used : k <= l

(* Bug: a directive is about its own line. *)
DisabledHere(line) == {entry[2] : entry \in {x \in lineOff : x[1] = line}}

DisabledAt(line) == {entry[2] : entry \in {x \in lineOff : x[1] + 1 = line}}

Directives(row) == {i \in DOMAIN row.pieces : row.pieces[i].is = "comment"}
FileDirectives(row) ==
    UNION {row.pieces[i].ids : i \in {j \in Directives(row) : row.pieces[j].scope = "file"}}
LineDirectives(e) ==
    IF ~e.data.alone THEN {}
    ELSE {e.first} \X UNION {e.data.pieces[i].ids : i \in {j \in Directives(e.data) : e.data.pieces[j].scope = "line"}}

(* Nothing but whole comments, and at least one. *)
CommentOnly(rows) ==
    \A r \in DOMAIN rows : \A i \in DOMAIN rows[r].pieces : rows[r].pieces[i].is # "markup"

-----------------------------------------------------------------------------
(* The text of an item: its first child, if that is a paragraph.  Without   *)
(* tags of its own the paragraph starts at the first inline and ends at the *)
(* first block.                                                             *)

NoChild == [is |-> "unknown"]
Opened(explicit, e) ==
    [is |-> "paragraph", explicit |-> explicit, from |-> e.from, to |-> e.to, visible |-> <<>>, parts |-> <<>>]

Inline(child, e, isParent) ==
    LET c == IF child.is = "unknown" /\ isParent THEN Opened(FALSE, e) ELSE child
        visible == CASE e.is \in {"text", "code"} -> <<e.data>>
                     [] e.is = "break" -> <<"\n">>
                     [] OTHER -> <<>>
    IN  IF c.is # "paragraph" THEN c
        ELSE [c EXCEPT !.from    = IF c.explicit \/ c.from <= e.from THEN @ ELSE e.from,
                       !.to      = IF c.explicit \/ c.to >= e.to THEN @ ELSE e.to,
                       !.visible = @ \o visible,
                       !.parts   = Append(@, e)]

(* Bug: a block after the first paragraph does not end it. *)
NonParagraphGoesOn(child) == IF child.is = "unknown" THEN [is |-> "other"] ELSE child

NonParagraph(child) ==
    CASE child.is = "unknown" -> [is |-> "other"]
      [] child.is = "paragraph" /\ ~child.explicit -> [child EXCEPT !.is = "done"]
      [] OTHER -> child

EndParagraph(child) ==
    IF child.is = "paragraph" /\ child.explicit THEN [child EXCEPT !.is = "done"] ELSE child

ObserveStart(child, e) ==
    CASE e.tag \in InlineTags -> Inline(child, e, ItemIsParent)
      [] e.tag = "paragraph" /\ ItemIsParent -> IF child.is = "unknown" THEN Opened(TRUE, e) ELSE child
      [] e.tag \notin InlineTags \cup {"paragraph"} /\ ItemIsParent -> NonParagraph(child)
      [] OTHER -> child

ObserveEnd(child, e) ==
    CASE e.tag \in InlineTags -> Inline(child, e, FALSE)
      [] e.tag = "paragraph"  -> EndParagraph(child)
      [] OTHER -> child

(* The source of the parts, marks included (inline_source_text): `start` is *)
(* the pending start and `cursor` where the last part ended.                *)
Slice(from, to) == SubSeq(source, from, to)
SourceOfPart(acc, e) ==
    LET from == CASE acc.start # None -> acc.start
                  [] acc.start = None /\ e.is = "end" /\ acc.cursor # None -> acc.cursor + 1
                  [] OTHER -> e.from
    IN  CASE e.is = "start" -> [acc EXCEPT !.start = IF @ = None THEN e.from ELSE @]
          [] e.is = "break" -> [text |-> Append(acc.text, "\n"), start |-> None, cursor |-> None]
          [] OTHER -> [text |-> acc.text \o Slice(from, e.to), start |-> None, cursor |-> e.to]
InlineSource(parts) ==
    SeqOf!FoldLeft(SourceOfPart, [text |-> <<>>, start |-> None, cursor |-> None], parts).text

ItemText(child) ==
    IF child.is \in {"unknown", "other"} THEN None
    ELSE [text       |-> IF strip THEN child.visible ELSE InlineSource(child.parts),
          diagnostic |-> child.visible,
          source     |-> Slice(child.from, child.to)]

Item(e, child) ==
    [from |-> e.from, to |-> e.to, first |-> e.first, last |-> Trimmed(e.first, e.last), off |-> DisabledAt(e.first), text |-> ItemText(child)]

-----------------------------------------------------------------------------
(* Blocks belong to the heading that was closed last, or to the root.       *)

Block(kind, e, items) ==
    [kind |-> kind, from |-> e.from, to |-> e.to, first |-> e.first, last |-> Trimmed(e.first, e.last),
     off |-> DisabledAt(e.first), items |-> items]

Push(block) ==
    IF owner = 0 THEN /\ root' = [root EXCEPT !.blocks = Append(@, block)]
                      /\ UNCHANGED headings
    ELSE /\ headings' = [headings EXCEPT ![owner].blocks = Append(@, block)]
         /\ UNCHANGED root

OwnerIsOpen == IF owner = 0 THEN root.open ELSE headings[owner].open
CloseOwner ==
    IF owner = 0 THEN root' = [root EXCEPT !.open = FALSE] /\ UNCHANGED headings
    ELSE headings' = [headings EXCEPT ![owner].open = FALSE] /\ UNCHANGED root

HeadingText(e) ==
    IF strip THEN heading.visible
    ELSE LET from == IF e.data.style = "setext" THEN e.from ELSE e.from + 1
             to   == IF e.data.style = "setext" THEN e.to - 2 ELSE e.to
         IN  Slice(from, to)

-----------------------------------------------------------------------------
(* One event each.  A condition under which the scanner gives up is part of *)
(* Refuses, and the action takes place otherwise.                           *)

Event == stream[next]
AtEnd == next > Len(stream)

NoItem == list # None /\ list.child = None

RefusesOutside ==
    TopLevel /\ \/ Event.is \in {"text", "code", "break", "html"}
                \/ Event.is = "start" /\ Event.tag \notin BlockTags \cup {"heading"}

RefusesStart ==
    \/ list # None /\ ~IsDirectItem(Event) /\ list.child = None
    \/ list # None /\ IsDirectItem(Event) /\ list.child # None
    \/ Event.tag = "heading" /\ heading # None
    \/ IsEligible(Event) /\ ~OwnerIsOpen
    \/ IsDirectBlock(Event) /\ (leaf # None \/ list # None)

RefusesEnd ==
    \/ NoItem /\ (TopLevel \/ ~(Innermost.directList /\ Innermost.event.tag = Event.tag))
    \/ TopLevel
    \/ Innermost.event.tag # Event.tag \/ Innermost.event # Event
    \/ Innermost.eligible /\ heading = None
    \/ Innermost.directItem /\ NoItem
    \/ Innermost.directBlock /\ Event.tag = "list" /\ (list = None \/ list.child # None \/ list.items = <<>>)
    \/ Innermost.directBlock /\ Event.tag # "list" /\ leaf # Event.tag
    \/ Innermost.directBlock /\ ~OwnerIsOpen

RefusesInside == Event.is \in {"text", "code", "break", "html"} /\ NoItem
RefusesRule   == Event.is = "rule" /\ IF TopLevel THEN ~OwnerIsOpen ELSE NoItem

Refuses ==
    \/ RefusesOutside \/ RefusesInside \/ RefusesRule
    \/ Event.is = "start" /\ RefusesStart
    \/ Event.is = "end" /\ RefusesEnd


CanGoOn ==
    IF AtEnd THEN TopLevel /\ heading = None /\ leaf = None /\ list = None /\ OwnerIsOpen
    ELSE ~Refuses

Reading(is) == phase = "scanning" /\ ~AtEnd /\ Event.is \in is /\ CanGoOn /\ next' = next + 1

Observing(Observed(_)) ==
    list' = IF list = None THEN None
            ELSE [list EXCEPT !.child = IF @ = None THEN None ELSE Observed(@)]

StartTag ==
    /\ Reading({"start"})
    /\ frames' = Append(frames, Frame(Event, IsEligible(Event)))
    /\ heading' = CASE IsEligible(Event) -> [visible |-> <<>>]
                    [] Event.tag = "heading" /\ ~IsEligible(Event) -> None
                    [] OTHER -> heading
    /\ IF IsEligible(Event) THEN CloseOwner ELSE UNCHANGED <<root, headings>>
    /\ leaf' = IF IsDirectBlock(Event) /\ Event.tag # "list" THEN Event.tag ELSE leaf
    /\ CASE IsDirectItem(Event) -> list' = [list EXCEPT !.child = NoChild]
         [] IsDirectBlock(Event) /\ Event.tag = "list" -> list' = [items |-> <<>>, child |-> None]
         [] OTHER -> Observing(LAMBDA child : ObserveStart(child, Event))
    /\ UNCHANGED <<input, owner, fileOff, lineOff, tree, phase>>

EndHeading ==
    /\ Innermost.eligible
    /\ headings' = Append(headings, [level |-> Event.data.level, text |-> HeadingText(Event),
                                     line |-> Event.first, last |-> Event.last,
                                     off |-> DisabledAt(Event.first), blocks |-> <<>>, open |-> TRUE])
    /\ owner' = Len(headings) + 1
    /\ heading' = None
    /\ UNCHANGED <<root, leaf>>
    /\ Observing(LAMBDA child : ObserveEnd(child, Event))

EndItem ==
    /\ Innermost.directItem
    /\ list' = [items |-> Append(list.items, Item(Event, list.child)), child |-> None]
    /\ UNCHANGED <<owner, heading, leaf, root, headings>>

EndBlock ==
    /\ Innermost.directBlock
    /\ IF Event.tag = "html" /\ CommentOnly(Event.data) THEN UNCHANGED <<root, headings>>
       ELSE Push(Block(Event.tag, Event, IF Event.tag = "list" THEN list.items ELSE <<>>))
    /\ IF Event.tag = "list" THEN list' = None /\ UNCHANGED leaf ELSE leaf' = None /\ UNCHANGED list
    /\ UNCHANGED <<owner, heading>>

EndOther ==
    /\ ~Innermost.eligible /\ ~Innermost.directItem /\ ~Innermost.directBlock
    /\ Observing(LAMBDA child : ObserveEnd(child, Event))
    /\ UNCHANGED <<owner, heading, leaf, root, headings>>

EndTag ==
    /\ Reading({"end"})
    /\ frames' = SeqOf!Front(frames)
    /\ EndHeading \/ EndItem \/ EndBlock \/ EndOther
    /\ UNCHANGED <<input, fileOff, lineOff, tree, phase>>

Visible ==
    /\ Reading({"text", "code", "break"})
    /\ heading' = IF heading = None THEN None
                  ELSE [visible |-> Append(heading.visible, IF Event.is = "break" THEN "\n" ELSE Event.data)]
    /\ Observing(LAMBDA child : Inline(child, Event, ItemIsParent))
    /\ UNCHANGED <<input, frames, owner, leaf, root, headings, fileOff, lineOff, tree, phase>>

Html ==
    /\ Reading({"html"})
    /\ fileOff' = fileOff \cup FileDirectives(Event.data)
    /\ lineOff' = lineOff \cup LineDirectives(Event)
    /\ Observing(LAMBDA child : Inline(child, Event, ItemIsParent))
    /\ UNCHANGED <<input, frames, owner, heading, leaf, root, headings, tree, phase>>

Rule ==
    /\ Reading({"rule"})
    /\ IF TopLevel THEN Push(Block("break", Event, <<>>)) /\ UNCHANGED list
       ELSE /\ UNCHANGED <<root, headings>>
            /\ Observing(LAMBDA child : IF ItemIsParent THEN NonParagraph(child) ELSE child)
    /\ UNCHANGED <<input, frames, owner, heading, leaf, fileOff, lineOff, tree, phase>>

GiveUp ==
    /\ phase = "scanning"
    /\ ~CanGoOn
    /\ phase' = "failed"
    /\ UNCHANGED <<input, next, frames, owner, builder, root, headings, fileOff, lineOff, tree>>

EndScan ==
    /\ phase = "scanning" /\ AtEnd /\ CanGoOn
    /\ CloseOwner
    /\ phase' = "nesting"
    /\ UNCHANGED <<input, next, frames, owner, builder, fileOff, lineOff, tree>>

-----------------------------------------------------------------------------
(* The section tree: `path` holds the headings whose sections are open.     *)

Placed == Len(parent)


PopPath(level) == SeqOf!SelectInSeq(path, LAMBDA h : headings[h].level >= level)

Nest ==
    /\ phase = "nesting" /\ Placed < Len(headings)
    /\ LET h    == Placed + 1
           cut  == PopPath(headings[h].level)
           kept == IF cut = 0 THEN path ELSE SubSeq(path, 1, cut - 1)
       IN  /\ parent' = Append(parent, IF kept = <<>> THEN 0 ELSE SeqOf!Last(kept))
           /\ path' = Append(kept, h)
    /\ UNCHANGED <<input, next, frames, owner, builder, root, headings, fileOff, lineOff, phase>>

Finish ==
    /\ phase = "nesting" /\ Placed = Len(headings)
    /\ phase' = "done"
    /\ UNCHANGED <<input, next, frames, owner, builder, root, headings, fileOff, lineOff, tree>>

Stop == phase \in {"done", "failed"} /\ UNCHANGED vars

Next == StartTag \/ EndTag \/ Visible \/ Html \/ Rule \/ GiveUp \/ EndScan \/ Nest \/ Finish \/ Stop

Spec == Init /\ [][Next]_vars

-----------------------------------------------------------------------------
Blocks(h) == IF h = 0 THEN root.blocks ELSE headings[h].blocks
Parsed == phase = "done" /\ ~damaged

(* The scan keeps its shape: frames nest from a direct block or heading,     *)
(* every heading is an owner, and a failed scan leaves no tree.              *)
TypeOK ==
    /\ phase \in {"scanning", "nesting", "done", "failed"}
    /\ next \in 1 .. Len(stream) + 1
    /\ owner = Len(headings)
    /\ \A i \in DOMAIN frames : (frames[i].directBlock \/ frames[i].eligible) => i = 1
    /\ heading # None => frames # <<>> /\ frames[1].eligible
    /\ leaf # None => frames # <<>> /\ frames[1].directBlock /\ ~frames[1].directList
    /\ list # None => frames # <<>> /\ frames[1].directList
    /\ Len(parent) <= Len(headings)
    /\ phase \in {"scanning", "failed"} => parent = <<>>

(* A stream as the parser emits it is always accepted, and one whose tags   *)
(* do not nest never is: no partial document comes out of a broken stream.  *)
EndOf(i)  == {j \in DOMAIN stream : j > i /\ stream[j] = [stream[i] EXCEPT !.is = "end"]}
StartOf(j) == {i \in DOMAIN stream : i < j /\ stream[i] = [stream[j] EXCEPT !.is = "start"]}
WellNested ==
    \A i \in DOMAIN stream :
        /\ stream[i].is = "end" => StartOf(i) # {}
        /\ stream[i].is = "start" =>
              \E j \in EndOf(i) : \A k \in i + 1 .. j - 1 :
                 /\ stream[k].is = "start" => \E l \in EndOf(k) : l < j
                 /\ stream[k].is = "end"   => \E l \in StartOf(k) : l > i
OnlyWholeStreamsAccepted ==
    /\ ~damaged => phase # "failed"
    /\ phase = "done" => WellNested

(* Every visible top-level block has one owner: the last heading before it  *)
(* that opens a section, or the root; comments alone are not visible.       *)
Opens(b) == b.tag = "heading" /\ (b.style = "atx" \/ (b.style = "setext" /\ b.level \in 1 .. 2))
Shown(b) == b.tag \notin {"heading", "definition"} /\ ~(b.tag = "html" /\ CommentOnly(b.rows))
OpenedBefore(k) == Cardinality({j \in 1 .. k - 1 : Opens(document[j].block)})
LineOf(k) == Laid(SubSeq(document, 1, k - 1)).line
Owned(h) ==
    SelectSeq([k \in DOMAIN document |-> k], LAMBDA k : Shown(document[k].block) /\ OpenedBefore(k) = h)
KindOf(b) == CASE b.tag = "rule" -> "break" [] b.tag = "indented" -> "code" [] OTHER -> b.tag
BlocksHaveOneOwner ==
    Parsed =>
        /\ Len(headings) = OpenedBefore(Len(document) + 1)
        /\ \A h \in 0 .. Len(headings) :
              [i \in DOMAIN Blocks(h) |-> <<Blocks(h)[i].kind, Blocks(h)[i].first>>]
                = [i \in DOMAIN Owned(h) |-> <<KindOf(document[Owned(h)[i]].block), LineOf(Owned(h)[i])>>]

(* An item has a text just when its first child is a paragraph, and then    *)
(* the text is that paragraph's and nothing else's: its words, or with its  *)
(* marks where inline markup is kept.  The marks are exact unless a link    *)
(* begins or ends with a line break, which makes the code forget where it   *)
(* is: then no word is lost, but at its end the whole link is taken again.  *)
RECURSIVE Words(_, _)
Words(kids, marks) ==
    SeqOf!FlattenSeq([i \in DOMAIN kids |->
        CASE kids[i].tag \in {"text", "code_span"} -> <<kids[i].text>>
          [] kids[i].tag = "break" -> <<"\n">>
          [] kids[i].tag = "html_span" -> IF marks THEN <<"comment">> ELSE <<>>
          [] kids[i].tag \in InlineTags ->
                LET inner == Words(kids[i].kids, marks) IN IF marks THEN Opening[kids[i].tag] \o inner \o Closing[kids[i].tag] ELSE inner])
RECURSIVE BreaksInside(_)
BreaksInside(kids) ==
    \A i \in DOMAIN kids :
        kids[i].tag \in InlineTags =>
            /\ "break" \notin {kids[i].kids[1].tag, SeqOf!Last(kids[i].kids).tag}
            /\ BreaksInside(kids[i].kids)
ItemHasText(item, recorded) ==
    IF item.kids = <<>> THEN recorded.text = None
    ELSE IF item.kids[1].tag # "paragraph" \/ Words(item.kids[1].kids, TRUE) = <<>> THEN recorded.text = None
    ELSE /\ recorded.text # None
         /\ recorded.text.diagnostic = Words(item.kids[1].kids, FALSE)
         /\ strip \/ BreaksInside(item.kids[1].kids) => recorded.text.text = Words(item.kids[1].kids, ~strip)
         /\ SeqOf!ToSet(recorded.text.diagnostic) \subseteq SeqOf!ToSet(recorded.text.text)
         /\ recorded.text.source = Words(item.kids[1].kids, TRUE)
ItemTextIsFirstParagraph ==
    Parsed => \A h \in 0 .. Len(headings) : \A i \in DOMAIN Owned(h) :
        LET b == document[Owned(h)[i]].block IN
        b.tag = "list" =>
            /\ Len(Blocks(h)[i].items) = Len(b.items)
            /\ \A n \in DOMAIN b.items : ItemHasText(b.items[n], Blocks(h)[i].items[n])

(* A comment that disables diagnostics is about the nodes that start on the *)
(* line after it, all of them and no others, wherever the comment is.       *)
Announced(line) ==
    UNION {UNION {stream[i].data.pieces[p].ids : p \in {q \in DOMAIN stream[i].data.pieces :
                                                             /\ stream[i].data.pieces[q].is = "comment"
                                                             /\ stream[i].data.pieces[q].scope = "line"}} :
           i \in {j \in DOMAIN stream : stream[j].is = "html" /\ stream[j].data.alone /\ stream[j].first + 1 = line}}
CommentsReachNextLine ==
    Parsed =>
        /\ \A h \in DOMAIN headings : headings[h].off = Announced(headings[h].line)
        /\ \A h \in 0 .. Len(headings) : \A i \in DOMAIN Blocks(h) :
              /\ Blocks(h)[i].off = Announced(Blocks(h)[i].first)
              /\ \A n \in DOMAIN Blocks(h)[i].items :
                    Blocks(h)[i].items[n].off = Announced(Blocks(h)[i].items[n].first)

(* A heading is nested in the nearest earlier one of a lower level, and in  *)
(* the root where there is none.                                            *)
Nearest(h) ==
    LET lower == {g \in 1 .. h - 1 : headings[g].level < headings[h].level}
    IN  IF lower = {} THEN 0 ELSE CHOOSE g \in lower : \A k \in lower : k <= g
NestedByLevel == phase = "done" => parent = [h \in DOMAIN headings |-> Nearest(h)]

(* A tree that is handed out is whole and right: it comes from a complete   *)
(* stream only, every visible block is in it once, and sections nest.       *)
TreeIsRight == TypeOK /\ OnlyWholeStreamsAccepted /\ BlocksHaveOneOwner /\ NestedByLevel
=============================================================================
