--------------------------- MODULE SequenceInput ----------------------------
(***************************************************************************)
(* What the ordered-assignment engine is given: one prepared rule per      *)
(* column, and for every document node the edge, if any, to each rule      *)
(* (SequenceRule, MatchMatrix and EdgeCosts of                             *)
(* crates/outlint-core/src/validator/sequence.rs, prepared by content.rs). *)
(* The specification of the verdict and the engine both start from here.   *)
(***************************************************************************)
EXTENDS Integers

CONSTANTS
    Nodes,          \* how many document nodes there are to assign
    Columns,        \* how many rules the scope declares
    Cardinalities,  \* the [min, max] pairs the rules are taken from
    Unbounded,      \* UpperBound::Unbounded
    None            \* Option::None

ASSUME SizesAreNatural == Nodes \in Nat /\ Columns \in Nat
ASSUME SentinelsAreNotNumbers == None \notin Int /\ Unbounded \notin Int
ASSUME CardinalitiesAreBounds ==
    Cardinalities \subseteq [min : Nat, max : Nat \union {Unbounded}]

VARIABLES kinds, cards, edges   \* kind, cardinality and edges of each column

input == <<kinds, cards, edges>>

Node     == 0 .. Nodes - 1
Column   == 0 .. Columns - 1
Position == 0 .. Nodes      \* a boundary between nodes: where a run starts or ends

Kinds == {"wildcard", "specific", "one_of_any"}

(***************************************************************************)
(* The edges a rule of each kind can have: the cost of each matched node,  *)
(* None where the rule does not match.  A heading wildcard, a bare         *)
(* `block: any` and an item wildcard match every node they are offered, at *)
(* cost 1; a specific rule costs nothing where it matches; a `one_of` with *)
(* an `any` alternative matches every node at its cheaper alternative, and *)
(* counts as specific.                                                     *)
(***************************************************************************)
EdgesOf(kind) ==
    CASE kind = "wildcard"   -> [Node -> {1}]
      [] kind = "specific"   -> [Node -> {None, 0}]
      [] kind = "one_of_any" -> [Node -> {0, 1}]

Input ==
    /\ kinds \in [Column -> Kinds]
    /\ cards \in [Column -> Cardinalities]
    /\ edges \in {e \in [Column -> [Node -> {None, 0, 1}]] :
                    \A c \in Column : e[c] \in EdgesOf(kinds[c])}

Matches(i, c) == edges[c][i] # None
Reluctant(c)  == kinds[c] = "wildcard"   \* Preference::Reluctant
=============================================================================
