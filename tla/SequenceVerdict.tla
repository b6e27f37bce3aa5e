-------------------------- MODULE SequenceVerdict ---------------------------
(***************************************************************************)
(* What an ordered assignment promises: nothing until it returns, and then *)
(* the canonical verdict of module Assignments on its input.  The engine   *)
(* of module Sequence is checked to implement this module.                 *)
(***************************************************************************)
EXTENDS SequenceInput

CONSTANT Pending    \* no verdict yet

VARIABLE verdict

Canonical == INSTANCE Assignments

Problem == [nodes |-> Nodes, columns |-> Columns, kinds |-> kinds, cards |-> cards, edges |-> edges]

Init == Input /\ verdict = Pending

Decide ==
    /\ verdict = Pending
    /\ verdict' # Pending
    /\ verdict' = Canonical!Verdict(Problem)
    /\ UNCHANGED input

Spec == Init /\ [][Decide]_<<input, verdict>>
=============================================================================
