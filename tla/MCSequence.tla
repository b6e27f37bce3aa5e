----------------------------- MODULE MCSequence -----------------------------
(***************************************************************************)
(* Instances of the assignment engine for TLC: three nodes and three rules *)
(* where either the third rule takes nothing, and the others have every    *)
(* kind of cardinality; or all three take part, no two as wildcards or all *)
(* specific, and each is required once or taken any number of times.       *)
(***************************************************************************)
EXTENDS SequenceRefinement, FiniteSets, TLC

Between(min, max) == [min |-> min, max |-> max]

(* optional, required, any number, at least two (more than a run may hold), *)
(* and a rule that may take nothing                                         *)
MCWide   == {Between(0, 1), Between(1, 1), Between(0, Unbounded), Between(2, Unbounded), Between(0, 0)}
MCNarrow == {Between(1, 1), Between(0, Unbounded)}

Inert == [i \in Node |-> None]
TwoRules ==
    \E first, second \in Kinds : \E e \in EdgesOf(first), f \in EdgesOf(second), c, d \in MCWide :
        /\ kinds = (0 :> first @@ 1 :> second @@ 2 :> "specific")
        /\ edges = (0 :> e @@ 1 :> f @@ 2 :> Inert)
        /\ cards = (0 :> c @@ 1 :> d @@ 2 :> Between(0, 0))
ThreeRules ==
    \E first, second, third \in Kinds :
        /\ Cardinality({first, second, third}) = 3 \/ {first, second, third} = {"specific"}
        /\ kinds = (0 :> first @@ 1 :> second @@ 2 :> third)
        /\ cards \in [Column -> MCNarrow]
        /\ \E e \in EdgesOf(first), f \in EdgesOf(second), g \in EdgesOf(third) :
              edges = (0 :> e @@ 1 :> f @@ 2 :> g)

Instances == (TwoRules \/ ThreeRules) /\ Init
MCSpec == Instances /\ [][Next]_vars /\ WF_vars(Next)
=============================================================================
