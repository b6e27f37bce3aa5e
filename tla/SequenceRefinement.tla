------------------------- MODULE SequenceRefinement -------------------------
(***************************************************************************)
(* The engine of module Sequence implements the specification of module    *)
(* SequenceVerdict: nothing is promised until `assign` returns, and what   *)
(* it returns is the canonical verdict.                                    *)
(***************************************************************************)
EXTENDS Sequence

CONSTANT Pending    \* no verdict yet

ASSUME PendingIsNoVerdict ==
    Pending \notin [accepted : BOOLEAN, assigned : [Node -> Column \union {None}], counts : [Column -> Nat]]

Returned == [accepted |-> accepted, assigned |-> assigned, counts |-> counts]

Abstract == INSTANCE SequenceVerdict WITH verdict <- IF pc = "done" THEN Returned ELSE Pending

(* What `assign` returns is the canonical verdict: it finds                 *)
(* a partition exactly when there is one, the cheapest, first by the        *)
(* preference of each rule; otherwise the recovery that loses the fewest    *)
(* nodes, then costs least, then comes first in transition order.  The      *)
(* counts it returns are those of the assignment it returns.                *)
ImplementsVerdict == Abstract!Spec
=============================================================================
