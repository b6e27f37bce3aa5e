----------------------------- MODULE Assignments ------------------------------
(***************************************************************************)
(* Which of all the assignments of document nodes to rules, in order, is   *)
(* the one a validation reports: what the engine of                        *)
(* crates/outlint-core/src/validator/sequence.rs promises, without its     *)
(* algorithm.  The order on assignments is the one its tie-breaks produce  *)
(* (the comparisons of `accept`, the transition order of `recover`).       *)
(*                                                                         *)
(* A problem m is a record: `nodes` and `columns` count the nodes and the  *)
(* rules, `kinds` and `cards` give the kind and the cardinality of each    *)
(* rule, and edges[c][i] is the cost of giving node i to rule c, None if   *)
(* the rule does not match it.  Both are 0-based.                          *)
(***************************************************************************)
EXTENDS Integers, FiniteSets

CONSTANTS Unbounded, None

NodesOf(m)   == 0 .. m.nodes - 1
ColumnsOf(m) == 0 .. m.columns - 1

Taken(m, f, c)   == {i \in NodesOf(m) : f[i] = c}
CountOf(m, f, c) == Cardinality(Taken(m, f, c))
LeftOut(m, f)    == CountOf(m, f, None)
EdgeTotal(m, f)  == Cardinality({i \in NodesOf(m) : f[i] # None /\ m.edges[f[i]][i] = 1})

(* Document order is rule order, and every assigned node matches its rule. *)
Ordered(m) ==
    {f \in [NodesOf(m) -> ColumnsOf(m) \union {None}] :
        /\ \A i, j \in NodesOf(m) : i < j /\ None \notin {f[i], f[j]} => f[i] <= f[j]
        /\ \A i \in NodesOf(m) : f[i] # None => m.edges[f[i]][i] # None}

WithinBounds(n, card) == n >= card.min /\ (card.max = Unbounded \/ n <= card.max)

(* The partitions that leave no node over and respect every cardinality. *)
Partitions(m) ==
    {f \in Ordered(m) : /\ LeftOut(m, f) = 0
                        /\ \A c \in ColumnsOf(m) : WithinBounds(CountOf(m, f, c), m.cards[c])}

(* Of two partitions of the same cost, the one that first differs by giving *)
(* a wildcard fewer nodes, or any other rule more, is preferred.            *)
PreferredPartition(m, f, g) ==
    \/ EdgeTotal(m, f) < EdgeTotal(m, g)
    \/ /\ EdgeTotal(m, f) = EdgeTotal(m, g)
       /\ \E c \in ColumnsOf(m) :
            /\ \A d \in 0 .. c - 1 : CountOf(m, f, d) = CountOf(m, g, d)
            /\ IF m.kinds[c] = "wildcard" THEN CountOf(m, f, c) < CountOf(m, g, c)
                                          ELSE CountOf(m, f, c) > CountOf(m, g, c)

(***************************************************************************)
(* With no partition, recovery ignores the cardinalities.  The rule of the *)
(* latest assigned node before i is where recovery stands; staying there   *)
(* (consume) comes before leaving node i out, and that before going on to  *)
(* a later rule, the nearest first.                                        *)
(***************************************************************************)
StandsAt(f, i) ==
    LET before == {f[j] : j \in 0 .. i - 1} \ {None}
    IN  IF before = {} THEN 0 ELSE CHOOSE c \in before : \A d \in before : d <= c

Rank(f, i) ==
    CASE f[i] = StandsAt(f, i) -> 0
      [] f[i] = None           -> 1
      [] OTHER                 -> 1 + f[i] - StandsAt(f, i)

PreferredRecovery(m, f, g) ==
    \/ LeftOut(m, f) < LeftOut(m, g)
    \/ /\ LeftOut(m, f) = LeftOut(m, g)
       /\ \/ EdgeTotal(m, f) < EdgeTotal(m, g)
          \/ /\ EdgeTotal(m, f) = EdgeTotal(m, g)
             /\ \E i \in NodesOf(m) : /\ \A j \in 0 .. i - 1 : f[j] = g[j]
                                    /\ Rank(f, i) < Rank(g, i)

Verdict(m) ==
    LET partitions == Partitions(m)
        possible   == IF partitions # {} THEN partitions ELSE Ordered(m)
        canonical  == CHOOSE f \in possible : \A g \in possible \ {f} :
                          IF partitions # {} THEN PreferredPartition(m, f, g)
                                             ELSE PreferredRecovery(m, f, g)
    IN  [accepted |-> partitions # {},
         assigned |-> canonical,
         counts   |-> [c \in ColumnsOf(m) |-> CountOf(m, canonical, c)]]
=============================================================================
