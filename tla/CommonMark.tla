----------------------------- MODULE CommonMark -----------------------------
(***************************************************************************)
(* What pulldown-cmark hands to the scanner of markdown/body.rs: the       *)
(* balanced stream of events of a document, with the source range of each. *)
(* The parser is a library; only the shape of its answers is modelled.     *)
(*                                                                         *)
(* A document is a sequence of [block, gap]: a block and the blank lines   *)
(* after it.  A block or inline is a record with a `tag`; containers have  *)
(* `kids`.  The source is a sequence of tokens (words, marks, newlines);   *)
(* a range is the tokens `from` to `to` on the lines `first` to `last`.    *)
(* In a tight list the paragraphs of an item have no events of their own.  *)
(* A reference is a link by a label, whose definition is a block without   *)
(* events elsewhere.  Indented code comes in rows of tokens.               *)
(* HTML comes in rows, one event each: [pieces, alone], where a piece is a *)
(* directive [is |-> "comment", scope, ids], a comment that "opens" or     *)
(* "closes" across rows, or "markup"; `alone` says that the only piece is  *)
(* all there is on its line.                                               *)
(***************************************************************************)
EXTENDS Naturals, Sequences

LOCAL Fold == INSTANCE SequencesExt

InlineTags == {"emphasis", "link", "reference"}
Opening == [emphasis |-> <<"<em>">>, link |-> <<"<a>">>, reference |-> <<"[">>]
Closing == [emphasis |-> <<"</em>">>, link |-> <<"</a>">>, reference |-> <<"][", "r", "]">>]

(* The tokens of the source that are not words. *)
SourceMarks == {"#", "=", ">", "-", "\n", "fence", "rule", "comment", "<em>", "</em>", "<a>", "</a>",
                "[", "][", "]", "]:", "indent", "<!--", "-->"}

(* Laying out a document: `events` and `source` so far, the current line,  *)
(* and the lines that are blank.                                           *)
Start == [events |-> <<>>, source |-> <<>>, line |-> 1, blank |-> {}]

PutAll(at, tokens) == [at EXCEPT !.source = @ \o tokens]
Put(at, token) == PutAll(at, <<token>>)
EndLine(at)    == [Put(at, "\n") EXCEPT !.line = @ + 1]
Skip(at, gap)  == IF gap = 0 THEN at
                  ELSE [EndLine(at) EXCEPT !.blank = @ \cup {at.line}]

Emitted(at, is, tag, data) ==
    [is |-> is, tag |-> tag, data |-> data, from |-> Len(at.source), to |-> Len(at.source),
     first |-> at.line, last |-> at.line]
Leaf(at, is, data, token) ==
    LET put == Put(at, token)
    IN  [put EXCEPT !.events = Append(@, Emitted(put, is, is, data))]

CodeLine(at, row) ==
    LET put == PutAll(at, row)
    IN  EndLine([put EXCEPT !.events = Append(@, [Emitted(put, "text", "text", "code") EXCEPT !.from = Len(at.source) + 1])])

(* The events of `inner` since `at`, between a start and an end.           *)
Wrap(at, inner, tag, data, last) ==
    LET Tagged(is) == [is |-> is, tag |-> tag, data |-> data, from |-> Len(at.source) + 1,
                       to |-> Len(inner.source), first |-> at.line, last |-> last]
        since == SubSeq(inner.events, Len(at.events) + 1, Len(inner.events))
    IN  [inner EXCEPT !.events = at.events \o <<Tagged("start")>> \o since \o <<Tagged("end")>>]

RECURSIVE Lay(_, _, _)

LayAll(kids, tight, at) == Fold!FoldLeft(LAMBDA acc, kid : Lay(kid, tight, acc), at, kids)
LayApart(kids, tight, at) ==
    Fold!FoldLeft(LAMBDA acc, i : LET laid == Lay(kids[i], tight, acc)
                                  IN  Skip(laid, IF i = Len(kids) \/ tight THEN 0 ELSE 1),
                  at, [i \in DOMAIN kids |-> i])

LayItem(item, tight, more, at) ==
    LET marked == Put(at, "-")
        body   == IF item.kids = <<>> THEN EndLine(marked) ELSE LayApart(item.kids, tight, marked)
        inner  == Skip(body, IF more /\ ~tight THEN 1 ELSE 0)
    IN  Wrap(at, inner, "item", "item", inner.line - 1)
LayItems(list, at) ==
    Fold!FoldLeft(LAMBDA acc, i : LayItem(list.items[i], list.tight, i < Len(list.items), acc),
                  at, [i \in DOMAIN list.items |-> i])

Lay(n, tight, at) ==
    CASE n.tag = "text"  -> Leaf(at, "text", n.text, n.text)
      [] n.tag = "code_span" -> Leaf(at, "code", n.text, n.text)
      [] n.tag = "html_span" -> Leaf(at, "html", n.row, "comment")
      [] n.tag = "break" -> LET put == Leaf(at, "break", "break", "\n") IN [put EXCEPT !.line = @ + 1]
      [] n.tag \in InlineTags ->
            LET inner == PutAll(LayAll(n.kids, FALSE, PutAll(at, Opening[n.tag])), Closing[n.tag])
            IN  Wrap(at, inner, n.tag, n.tag, inner.line)
      [] n.tag = "paragraph" ->
            LET inner == LayAll(n.kids, FALSE, at)
            IN  EndLine(IF tight THEN inner ELSE Wrap(at, inner, n.tag, n.tag, inner.line))
      [] n.tag = "heading" ->
            LET marked == IF n.style = "setext" THEN at ELSE Put(at, "#")
                text   == LayAll(n.kids, FALSE, marked)
                inner  == IF n.style = "setext" THEN Put(EndLine(text), "=") ELSE text
            IN  EndLine(Wrap(at, inner, n.tag, [level |-> n.level, style |-> n.style], inner.line))
      [] n.tag = "rule" -> EndLine(Leaf(at, "rule", "rule", "rule"))
      [] n.tag = "code" ->
            LET inner == Put(EndLine(Leaf(EndLine(Put(at, "fence")), "text", n.text, n.text)), "fence")
            IN  EndLine(Wrap(at, inner, n.tag, n.tag, inner.line))
      [] n.tag = "indented" ->
            LET marked == Put(at, "indent")
                inner  == Fold!FoldLeft(LAMBDA acc, row : CodeLine(Put(acc, "indent"), row),
                                        CodeLine(marked, n.rows[1]), Tail(n.rows))
            IN  Wrap(marked, inner, "code", "code", inner.line - 1)
      [] n.tag = "definition" -> EndLine(PutAll(at, <<"[", "r", "]:", "u">>))
      [] n.tag = "html" ->
            LET inner == Fold!FoldLeft(LAMBDA acc, row : EndLine(Leaf(acc, "html", row, "comment")), at, n.rows)
            IN  Wrap(at, inner, n.tag, n.rows, inner.line - 1)
      [] n.tag = "quote" ->
            LET inner == LayApart(n.kids, FALSE, Put(at, ">"))
            IN  Wrap(at, inner, n.tag, n.tag, inner.line - 1)
      [] n.tag = "list" ->
            LET inner == LayItems(n, at)
            IN  Wrap(at, inner, n.tag, n.tag, inner.line - 1)

Laid(document) ==
    Fold!FoldLeft(LAMBDA acc, placed : Skip(Lay(placed.block, FALSE, acc), placed.gap), Start, document)
=============================================================================
