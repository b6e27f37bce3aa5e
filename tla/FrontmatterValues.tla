-------------------------- MODULE FrontmatterValues --------------------------
(***************************************************************************)
(* The captures of a frontmatter block and what they read as               *)
(* (crates/outlint-core/src/validator/frontmatter_values.rs), and the      *)
(* propositions a constraint makes about frontmatter (constraints.rs).     *)
(*                                                                         *)
(* A block is [is, root, accepted, anchors]: "absent", "invalid" or a      *)
(* "mapping" with its JSON view, whether the linked JSON Schema accepts    *)
(* it, and the pointers of the entries that have a position of their own.  *)
(* A declaration is [name, type, required, components]; a component is     *)
(* [name, index], one of them None.  Escaping keeps the tokens of a        *)
(* pointer apart, so they are not spelled out.                             *)
(*                                                                         *)
(* QueryResult(query, root) is the set of nodes <<path, value>> a query    *)
(* finds in a block: module JsonPath's NodeSet.                            *)
(***************************************************************************)
EXTENDS JsonValues

LOCAL SeqOf == INSTANCE SequencesExt
LOCAL SetOf == INSTANCE FiniteSetsExt

CONSTANTS QueryResult(_, _)

(* normalized_token and descend; None names no position. *)
NormalizedToken(component, node) ==
    CASE component.name # None -> component.name
      [] component.name = None /\ component.index >= 0 -> Spelled(component.index)
      [] OTHER -> IF node = None THEN None
                  ELSE IF node.is # "array" \/ FromEnd(Len(node.items), component.index) = None THEN None
                  ELSE Spelled(FromEnd(Len(node.items), component.index))
Descend(node, component) ==
    IF node = None THEN None
    ELSE IF node.is # (IF component.name # None THEN "object" ELSE "array") THEN None
    ELSE IF NormalizedToken(component, node) = None THEN None
    ELSE Member(node, NormalizedToken(component, node))

(* Bug: the anchor goes on past the last entry there is. *)
SelectPastEnd(root, components) ==
    SeqOf!FoldLeft(LAMBDA at, component :
        LET token == NormalizedToken(component, at.node)
            pointer == IF token = None \/ at.target = None THEN None ELSE Append(at.target, token)
        IN  [node |-> Descend(at.node, component), target |-> pointer,
             anchor |-> IF pointer = None THEN at.anchor ELSE pointer],
        [node |-> root, target |-> <<>>, anchor |-> <<>>], components)

(* select: `anchor` follows the nodes there are, `target` the path asked for. *)
Select(root, components) ==
    SeqOf!FoldLeft(LAMBDA at, component :
        LET token == NormalizedToken(component, at.node)
            found == Descend(at.node, component)
        IN  [node   |-> found,
             target |-> IF token = None \/ at.target = None THEN None ELSE Append(at.target, token),
             anchor |-> IF found = None THEN at.anchor ELSE Append(at.anchor, token)],
        [node |-> root, target |-> <<>>, anchor |-> <<>>], components)

(* parse_frontmatter: the kind first, then how it is spelled. *)
Parses(type, v) ==
    CASE type = "bool" -> v.is = "bool"
      [] type = "date" -> v.is = "string" /\ v.text = "2024-02-29"
      [] type = "text" -> v.is = "string"

(* evaluate_capture: the state that is kept, and the problem reported. *)
Evaluated(is, value, problem, pointer, anchor) ==
    [state |-> [is |-> is, value |-> value], problem |-> problem, pointer |-> pointer, anchor |-> anchor]
EvaluateCapture(block, declaration) ==
    LET at == Select(block.root, declaration.components)
        absent(pointer) == Evaluated("absent", None, IF declaration.required THEN "missing-value" ELSE None,
                                     pointer, at.anchor)
    IN  CASE block.is # "mapping" -> Evaluated("unevaluated", None, None, None, <<>>)
          [] block.is = "mapping" /\ at.node = None -> absent(at.target)
          [] OTHER ->
                IF at.node.is = "null" THEN absent(at.anchor)
                ELSE IF Parses(declaration.type, at.node) THEN Evaluated("valid", at.node, None, None, <<>>)
                ELSE Evaluated("invalid", None, "invalid-value", at.anchor, at.anchor)

(* enclosing_anchor: the nearest entry with a position, or the block. *)
EnclosingAnchor(anchors, pointer) ==
    LET above == {n \in 1 .. Len(pointer) : SubSeq(pointer, 1, n) \in anchors}
    IN  IF above = {} THEN None ELSE SubSeq(pointer, 1, SetOf!Max(above))

-----------------------------------------------------------------------------
FromBool(holds) == IF holds THEN "satisfied" ELSE "unsatisfied"

(* `fm.name`: from the state, whatever became of the diagnostics.           *)
CaptureTruth(state, declaration, block, blockRequired) ==
    CASE state.is = "valid"   -> FromBool(state.value.is # "bool" \/ state.value.text = "true")
      [] state.is = "invalid" -> "suspended"
      [] state.is = "absent"  -> IF declaration.required THEN "suspended" ELSE "unsatisfied"
      [] state.is = "unevaluated" ->
            IF block.is = "invalid" \/ (block.is = "absent" /\ blockRequired) THEN "suspended" ELSE "unsatisfied"

(* `fm[query]` reads a boolean: the nodes that are none, and the answer.    *)
Unreadable(nodes) == {node \in nodes : node[2].is \notin {"bool", "null"}}
ReadTruth(nodes) ==
    IF Unreadable(nodes) # {} THEN "suspended"
    ELSE FromBool(\E node \in nodes : node[2].is = "bool" /\ node[2].text = "true")
(* `fm[query]=literal`: some node is the same scalar of the same type.      *)
EqualityTruth(nodes, literal) ==
    FromBool(\E node \in nodes : /\ node[2].is \in {"bool", "number", "string"}
                                 /\ node[2].is = literal.is /\ node[2].text = literal.text)

QueryNodes(block, query) == IF block.is = "mapping" THEN QueryResult(query, block.root) ELSE {}
QueryTruth(block, query, literal) ==
    CASE block.is = "invalid" -> "suspended"
      [] block.is = "absent"  -> "unsatisfied"
      [] block.is = "mapping" ->
            IF literal = None THEN ReadTruth(QueryNodes(block, query)) ELSE EqualityTruth(QueryNodes(block, query), literal)
=============================================================================
