---------------------------- MODULE VerdictProofs ----------------------------
(***************************************************************************)
(* The assignment engine implements SequenceVerdict: what it returns is    *)
(* the canonical verdict, for any number of nodes and rules and any        *)
(* cardinalities.  Acceptance is optimal because every row of `endpoints`  *)
(* is, recovery because every cell of `table` is, and both loops that      *)
(* assign keep an assignment ahead of them that nothing is preferred to.   *)
(***************************************************************************)
EXTENDS SequenceRefinement, SequenceProofs, FiniteSetTheorems, WellFoundedInduction

-----------------------------------------------------------------------------
(* Assignments, whole and from a node on.                                  *)

Assignment == [Node -> Column \union {None}]

(* How many members of S are at the nodes from i up to, but without, k. *)
Within(S, i, k) == Cardinality(S \cap (i .. k - 1))

Costly(f)     == {t \in Node : f[t] # None /\ edges[f[t]][t] = 1}
LeftOver(f)   == {t \in Node : f[t] = None}
Given(f, c)   == {t \in Node : f[t] = c}
ColumnCost(c) == {t \in Node : edges[c][t] = 1}

EdgesFrom(f, i) == Within(Costly(f), i, Nodes)
LeftFrom(f, i)  == Within(LeftOver(f), i, Nodes)
CostFrom(f, i)  == [unassigned |-> LeftFrom(f, i), edge |-> EdgesFrom(f, i)]

(* What may become of the nodes from i on when they are offered the rules   *)
(* from c on, some of them left out.                                        *)
Partial(i, c) ==
    {f \in Assignment :
        /\ \A t \in i .. Nodes - 1 : f[t] # None => f[t] >= c /\ Matches(t, f[t])
        /\ \A t, u \in i .. Nodes - 1 :
              t < u /\ f[t] # None /\ f[u] # None => f[t] <= f[u]}

Allowed(n, c) == n >= cards[c].min /\ (cards[c].max # Unbounded => n <= cards[c].max)

(* The same with none left out and every cardinality respected. *)
Whole(i, c) ==
    {f \in Partial(i, c) :
        /\ \A t \in i .. Nodes - 1 : f[t] # None
        /\ \A d \in c .. Columns - 1 : Allowed(Within(Given(f, d), i, Nodes), d)}

-----------------------------------------------------------------------------
(* The preferences of module Assignments, over the input.                  *)

Count(f, c) == Within(Given(f, c), 0, Nodes)

PrefersCount(c, m, n) == IF Reluctant(c) THEN m < n ELSE m > n

BetterPartition(f, g) ==
    \/ EdgesFrom(f, 0) < EdgesFrom(g, 0)
    \/ /\ EdgesFrom(f, 0) = EdgesFrom(g, 0)
       /\ \E c \in Column : /\ \A d \in 0 .. c - 1 : Count(f, d) = Count(g, d)
                            /\ PrefersCount(c, Count(f, c), Count(g, c))

Stand(f, i) == Abstract!Canonical!StandsAt(f, i)
Place(f, i) == IF f[i] = Stand(f, i) THEN 0 ELSE IF f[i] = None THEN 1 ELSE 1 + f[i] - Stand(f, i)

BetterRecovery(f, g) ==
    \/ Below(CostFrom(f, 0), CostFrom(g, 0))
    \/ /\ CostFrom(f, 0) = CostFrom(g, 0)
       /\ \E i \in Node : /\ \A j \in 0 .. i - 1 : f[j] = g[j]
                          /\ Place(f, i) < Place(g, i)

-----------------------------------------------------------------------------
(* The inductive invariant.                                                *)

(* A cost is the least of all partitions from node i and rule c on, None if *)
(* there is none.                                                           *)
LeastCost(cost, i, c) ==
    IF cost = None THEN Whole(i, c) = {}
                   ELSE /\ \E f \in Whole(i, c) : EdgesFrom(f, i) = cost
                        /\ \A f \in Whole(i, c) : cost <= EdgesFrom(f, i)

(* Rule c stops at e in partition f, which it enters at node i. *)
StopsAt(f, i, c, e) == e \in i .. Nodes /\ \A t \in i .. Nodes - 1 : f[t] = c <=> t < e

(* An endpoint is the best place for rule c to stop: whatever stops         *)
(* elsewhere has a cheaper rival, or one as cheap that is preferred.        *)
BestEndpoint(i, c, e) ==
    IF e = None THEN Whole(i, c) = {}
    ELSE \A f \in Whole(i, c) : StopsAt(f, i, c, e) \/
            \E g \in Whole(i, c), k \in i .. Nodes :
                /\ StopsAt(g, i, c, e) /\ StopsAt(f, i, c, k)
                /\ \/ EdgesFrom(g, i) < EdgesFrom(f, i)
                   \/ EdgesFrom(g, i) = EdgesFrom(f, i) /\ PrefersCount(c, e - i, k - i)

Settled(c, i) ==
    CASE pc = "column" -> c >= column
      [] pc = "prefix" -> c > column
      [] pc = "window" -> c > column \/ (c = column /\ i > node)
      [] OTHER         -> TRUE

RowsAreBest ==
    /\ \A c \in Column, i \in Position : Settled(c, i) => BestEndpoint(i, c, endpoints[c][i])
    /\ Accepting => \A i \in Position : LeastCost(suffix[i], i, SuffixRow)
    /\ pc = "window" => \A i \in node + 1 .. Nodes : LeastCost(current[i], i, column)

(* What has not been looked at has neither cost nor endpoint. *)
NothingAhead ==
    /\ Accepting => \A c \in Column, i \in Position : ~Settled(c, i) => endpoints[c][i] = None
    /\ pc = "prefix" => \A i \in Position : current[i] = None
    /\ pc = "window" => \A i \in 0 .. node : current[i] = None

PrefixCounts ==
    /\ pc = "prefix" => \A i \in 0 .. node : prefix[i] = Within(ColumnCost(column), 0, i)
    /\ pc = "window" => \A i \in Position : prefix[i] = Within(ColumnCost(column), 0, i)

Key(e) == suffix[e] + prefix[e]

(* The deque is ordered by preference, and for every endpoint of the window *)
(* that the node can reach it holds that endpoint or a better one below it. *)
DequeIsMonotone ==
    pc = "window" =>
        /\ \A k \in 1 .. Len(deque) :
              /\ deque[k].endpoint >= previousLo
              /\ deque[k].key = Key(deque[k].endpoint)
        /\ \A j, k \in 1 .. Len(deque) : j < k =>
              /\ deque[j].endpoint > deque[k].endpoint
              /\ ~Worse(deque[j], deque[k].key)
DequeCoversWindow ==
    pc = "window" => \A e \in previousLo .. Nodes :
        suffix[e] # None /\ Reaches(node, e, column) => \E k \in 1 .. Len(deque) :
            /\ deque[k].endpoint <= e
            /\ \/ deque[k].key < Key(e)
               \/ deque[k].key = Key(e) /\ (deque[k].endpoint = e \/ Reluctant(column))

Agrees(f) == \A t \in 0 .. node - 1 : f[t] = assigned[t]

(* Whatever partition there is, one at least as good goes on from what has  *)
(* been rebuilt.                                                            *)
RebuildsTheBest ==
    pc = "rebuild" =>
        /\ Whole(0, 0) # {}
        /\ \A g \in Whole(0, 0) : \E f \in Whole(0, 0) :
              /\ f = g \/ BetterPartition(f, g)
              /\ Agrees(f) /\ f \in Whole(node, column)

NoPartition == (pc \in {"table", "walk"} \/ (pc = "done" /\ ~accepted)) => Whole(0, 0) = {}

LeastLoss(cost, i, c) ==
    /\ \E f \in Partial(i, c) : CostFrom(f, i) = cost
    /\ \A f \in Partial(i, c) : ~Below(CostFrom(f, i), cost)

CellsAreLeast ==
    pc \in {"table", "walk"} => \A i \in Position, c \in 0 .. Columns :
        (pc = "walk" \/ i > node \/ (i = node /\ c > column)) => LeastLoss(table[i][c], i, c)

(* The walk goes past the rule it stands at only where leaving the node     *)
(* out costs too much.                                                      *)
AdvancesForCost ==
    pc = "walk" => \/ column = Stand(assigned, node)
                   \/ node = Nodes
                   \/ Below(table[node][column], LeaveCost(node, column))

WalksTheBest ==
    pc = "walk" => \A g \in Partial(0, 0) : \E f \in Partial(0, 0) :
        /\ f = g \/ BetterRecovery(f, g)
        /\ Agrees(f) /\ f \in Partial(node, column)

CountsAreExact == \A c \in Column : counts[c] = Count(assigned, c)

VInv ==
    /\ IInv /\ RowsAreBest /\ NothingAhead /\ PrefixCounts /\ DequeIsMonotone /\ DequeCoversWindow
    /\ RebuildsTheBest /\ NoPartition /\ CellsAreLeast /\ AdvancesForCost
    /\ WalksTheBest /\ CountsAreExact

-----------------------------------------------------------------------------
(* Counting.                                                               *)

(* What is counted is finite. *)
LEMMA CountedIsFinite ==
    ASSUME NEW S, NEW i \in Int, NEW k \in Int
    PROVE  IsFiniteSet(S \cap (i .. k - 1))
<1>1. IsFiniteSet(i .. k - 1)
  BY FS_Interval
<1>2. QED
  BY <1>1, FS_Intersection

(* A count is a natural number.                                             *)
LEMMA WithinIsNatural ==
    ASSUME NEW S, NEW i \in Int, NEW k \in Int
    PROVE  Within(S, i, k) \in Nat
BY CountedIsFinite, FS_CardinalityType DEF Within

(* Members at the same nodes are as many. *)
LEMMA WithinSame ==
    ASSUME NEW S, NEW T, NEW i \in Int, NEW k \in Int,
           \A t \in i .. k - 1 : t \in S <=> t \in T
    PROVE  Within(S, i, k) = Within(T, i, k)
<1>1. S \cap (i .. k - 1) = T \cap (i .. k - 1)
  OBVIOUS
<1>2. QED
  BY <1>1 DEF Within

(* Counting can be interrupted anywhere. *)
LEMMA WithinSplits ==
    ASSUME NEW S, NEW i \in Int, NEW j \in Int, NEW k \in Int, i <= j, j <= k
    PROVE  Within(S, i, k) = Within(S, i, j) + Within(S, j, k)
<1> DEFINE A == S \cap (i .. j - 1)
           B == S \cap (j .. k - 1)
<1>1. IsFiniteSet(A) /\ IsFiniteSet(B) /\ Cardinality(A) \in Nat /\ Cardinality(B) \in Nat
  BY CountedIsFinite, FS_CardinalityType
<1>2. A \cap B = {} /\ S \cap (i .. k - 1) = A \cup B
  OBVIOUS
<1>3. Cardinality(A \cup B) = Cardinality(A) + Cardinality(B) - Cardinality(A \cap B)
  BY <1>1, FS_Union
<1>4. Cardinality(A \cap B) = 0
  BY <1>2, FS_EmptySet
<1> HIDE DEF A, B
<1>5. Cardinality(A \cup B) = Cardinality(A) + Cardinality(B)
  BY <1>1, <1>3, <1>4
<1>6. QED
  BY <1>2, <1>5 DEF Within, A, B

(* The members of S from i on are a run that ends at e. *)
IsRun(S, i, e, k) == e \in i .. k /\ \A t \in i .. k - 1 : t \in S <=> t < e

(* A run counts as long as it is. *)
LEMMA WithinRun ==
    ASSUME NEW S, NEW i \in Int, NEW e \in Int, NEW k \in Int, IsRun(S, i, e, k)
    PROVE  Within(S, i, k) = e - i
<1>1. S \cap (i .. k - 1) = i .. e - 1
  BY DEF IsRun
<1>2. Cardinality(i .. e - 1) = e - i
  <2>1. Cardinality(i .. e - 1) = IF i > e - 1 THEN 0 ELSE (e - 1) - i + 1
    BY FS_Interval
  <2>2. i <= e
    BY DEF IsRun
  <2>3. QED
    BY <2>1, <2>2
<1>3. QED
  BY <1>1, <1>2 DEF Within

(* The first node counts for itself. *)
LEMMA WithinFirst ==
    ASSUME NEW S, NEW i \in Int, NEW k \in Int, i < k
    PROVE  Within(S, i, k) = (IF i \in S THEN 1 ELSE 0) + Within(S, i + 1, k)
<1>0. Within(S, i + 1, k) \in Nat
  BY WithinIsNatural
<1>1. Within(S, i, k) = Within(S, i, i + 1) + Within(S, i + 1, k)
  BY WithinSplits
<1>2. CASE i \in S
  <2>1. IsRun(S, i, i + 1, i + 1)
    BY <1>2 DEF IsRun
  <2>2. QED
    BY <1>0, <1>1, <1>2, <2>1, WithinRun
<1>3. CASE i \notin S
  <2>1. IsRun(S, i, i, i + 1)
    BY <1>3 DEF IsRun
  <2>2. QED
    BY <1>0, <1>1, <1>3, <2>1, WithinRun
<1>4. QED
  BY <1>2, <1>3

(* Between a node and itself there is nothing to count.                     *)
LEMMA WithinEmpty ==
    ASSUME NEW S, NEW i \in Int
    PROVE  Within(S, i, i) = 0
<1>1. IsRun(S, i, i, i)
  BY DEF IsRun
<1>2. QED
  BY <1>1, WithinRun

(* Any set of naturals that has a member has a least one. *)
LEMMA LeastNatural ==
    ASSUME NEW S, S \subseteq Nat, S # {}
    PROVE  \E m \in S : \A n \in S : m <= n
<1>1. PICK m \in S : \A n \in S : ~(<<n, m>> \in OpToRel(<, Nat))
  BY NatLessThanWellFounded, WFMin
<1>2. \A n \in S : ~(n < m)
  BY <1>1 DEF OpToRel
<1>3. QED
  BY <1>2

-----------------------------------------------------------------------------
(* Assignments from a node on, and what extends them to the node before.   *)

(* Costs are natural numbers.                                               *)
LEMMA CostsAreNatural ==
    ASSUME NEW f, NEW i \in Position
    PROVE  EdgesFrom(f, i) \in Nat /\ LeftFrom(f, i) \in Nat /\ CostFrom(f, i) \in Cost
<1>1. i \in Int /\ Nodes \in Int
  BY SizesAreNatural DEF Position
<1>2. EdgesFrom(f, i) \in Nat /\ LeftFrom(f, i) \in Nat
  BY <1>1, WithinIsNatural DEF EdgesFrom, LeftFrom
<1>3. QED
  BY <1>2 DEF CostFrom, Cost

(* The cost of the nodes from i on is that of node i and of those after it. *)
LEMMA CostOfFirst ==
    ASSUME NEW f, NEW i \in Node
    PROVE  /\ EdgesFrom(f, i) = (IF f[i] # None /\ edges[f[i]][i] = 1 THEN 1 ELSE 0)
                                    + EdgesFrom(f, i + 1)
           /\ LeftFrom(f, i) = (IF f[i] = None THEN 1 ELSE 0) + LeftFrom(f, i + 1)
<1>1. i \in Int /\ Nodes \in Int /\ i < Nodes
  BY SizesAreNatural DEF Node
<1>2. QED
  BY <1>1, WithinFirst DEF EdgesFrom, LeftFrom, Costly, LeftOver

(* Only the assignment of the nodes from i on matters for their cost. *)
LEMMA CostOfSame ==
    ASSUME NEW f, NEW g, NEW i \in Position, \A t \in i .. Nodes - 1 : f[t] = g[t]
    PROVE  EdgesFrom(f, i) = EdgesFrom(g, i) /\ LeftFrom(f, i) = LeftFrom(g, i)
<1>1. \A t \in i .. Nodes - 1 : (t \in Costly(f) <=> t \in Costly(g)) /\ (t \in LeftOver(f) <=> t \in LeftOver(g))
  BY DEF Costly, LeftOver
<1>2. i \in Int /\ Nodes \in Int
  BY SizesAreNatural DEF Position
<1>3. QED
  BY <1>1, <1>2, WithinSame DEF EdgesFrom, LeftFrom

(* At the end of the document there is nothing to assign and nothing to pay. *)
LEMMA NothingAtTheEnd ==
    ASSUME NEW c
    PROVE  /\ Partial(Nodes, c) = Assignment
           /\ \A f : CostFrom(f, Nodes) = Zero
<1>1. Nodes .. Nodes - 1 = {}
  BY SizesAreNatural
<1>2. \A f : EdgesFrom(f, Nodes) = 0 /\ LeftFrom(f, Nodes) = 0
  BY SizesAreNatural, WithinEmpty DEF EdgesFrom, LeftFrom
<1>3. QED
  BY <1>1, <1>2 DEF Partial, CostFrom, Zero

(* What goes on from a rule goes on from every earlier one. *)
LEMMA EarlierRuleAllows ==
    ASSUME NEW i \in Position, NEW c \in 0 .. Columns, NEW d \in 0 .. Columns, c <= d
    PROVE  Partial(i, d) \subseteq Partial(i, c)
<1> SUFFICES ASSUME NEW f \in Partial(i, d) PROVE f \in Partial(i, c)
  OBVIOUS
<1>1. \A t \in i .. Nodes - 1 : t \in Node
  BY SizesAreNatural DEF Node, Position
<1>2. \A t \in i .. Nodes - 1 : f[t] # None => f[t] >= c
  BY <1>1, SizesAreNatural DEF Partial, Assignment, Column
<1>3. QED
  BY <1>2 DEF Partial

(* The nodes after i go on from where node i was given. *)
LEMMA PartialAfter ==
    ASSUME NEW i \in Node, NEW c \in 0 .. Columns, NEW f \in Partial(i, c)
    PROVE  /\ f \in Partial(i + 1, c)
           /\ f[i] # None => f[i] \in Column /\ f[i] >= c /\ Matches(i, f[i]) /\ f \in Partial(i, f[i])
<1>0. i \in Int /\ i >= 0 /\ i < Nodes
  BY SizesAreNatural DEF Node
<1>1. (i + 1) .. Nodes - 1 \subseteq i .. Nodes - 1 /\ i \in i .. Nodes - 1
  BY <1>0, SizesAreNatural
<1>2. f \in Partial(i + 1, c)
  BY <1>1 DEF Partial
<1>3. ASSUME f[i] # None PROVE f[i] \in Column /\ f[i] >= c /\ Matches(i, f[i])
  BY <1>1, <1>3 DEF Partial, Assignment
<1>4. ASSUME f[i] # None, NEW t \in i .. Nodes - 1, f[t] # None PROVE f[t] >= f[i]
  <2>1. t \in Node /\ i <= t
    BY <1>0, SizesAreNatural DEF Node
  <2>2. f[t] \in Int /\ f[i] \in Int
    BY <1>4, <2>1 DEF Partial, Assignment, Column
  <2>3. CASE t = i
    BY <2>2, <2>3
  <2>4. CASE i < t
    BY <1>1, <1>4, <2>2, <2>4 DEF Partial
  <2>5. QED
    BY <2>1, <2>3, <2>4, <1>0
<1>5. f[i] # None => f \in Partial(i, f[i])
  BY <1>4 DEF Partial
<1>6. QED
  BY <1>2, <1>3, <1>5

(* A node before is left out, or given to a rule that matches it and that   *)
(* the nodes after it do not precede.                                       *)
LEMMA PartialBefore ==
    ASSUME NEW i \in Node, NEW c \in 0 .. Columns, NEW f \in Partial(i + 1, c),
           NEW given \in Column \union {None},
           given # None => given = c /\ Matches(i, given)
    PROVE  LET g == [f EXCEPT ![i] = given] IN
           /\ g \in Partial(i, c) /\ g[i] = given
           /\ \A t \in Node \ {i} : g[t] = f[t]
           /\ EdgesFrom(g, i + 1) = EdgesFrom(f, i + 1)
           /\ LeftFrom(g, i + 1) = LeftFrom(f, i + 1)
<1> DEFINE g == [f EXCEPT ![i] = given]
<1>0. i \in Int /\ i >= 0 /\ i < Nodes /\ Nodes \in Nat /\ i + 1 \in Position
  BY SizesAreNatural DEF Node, Position
<1>1. f \in Assignment
  BY DEF Partial
<1>2. g \in Assignment /\ g[i] = given /\ \A t \in Node \ {i} : g[t] = f[t]
  BY <1>1 DEF Assignment
<1>3. \A t \in (i + 1) .. Nodes - 1 : t \in Node /\ g[t] = f[t]
  BY <1>0, <1>2 DEF Node
<1>4. \A t \in i .. Nodes - 1 : t = i \/ t \in (i + 1) .. Nodes - 1
  BY <1>0
<1> HIDE DEF g
<1>5. \A t \in i .. Nodes - 1 : g[t] # None => g[t] >= c /\ Matches(t, g[t])
  BY <1>2, <1>3, <1>4 DEF Partial, Column
<1>6. ASSUME NEW t \in i .. Nodes - 1, NEW u \in i .. Nodes - 1, t < u, g[t] # None, g[u] # None
      PROVE  g[t] <= g[u]
  <2>1. u \in (i + 1) .. Nodes - 1
    BY <1>0, <1>6
  <2>2. CASE t = i
    BY <1>2, <1>5, <1>6, <2>2
  <2>3. CASE t \in (i + 1) .. Nodes - 1
    BY <1>3, <1>6, <2>1, <2>3 DEF Partial
  <2>4. QED
    BY <1>4, <2>2, <2>3
<1>7. EdgesFrom(g, i + 1) = EdgesFrom(f, i + 1) /\ LeftFrom(g, i + 1) = LeftFrom(f, i + 1)
  BY <1>0, <1>3, CostOfSame
<1>8. QED
  BY <1>2, <1>5, <1>6, <1>7 DEF g, Partial

-----------------------------------------------------------------------------
(* Partitions from a node on: a run of the first rule, and the rest.       *)

(* Where the nodes a rule is given come to an end, the next rule starts: a  *)
(* partition is a run of its first rule and a partition for the others.     *)
LEMMA PartitionHasRun ==
    ASSUME Input, NEW i \in Position, NEW c \in Column, NEW f \in Whole(i, c)
    PROVE  \E e \in i .. Nodes :
              /\ StopsAt(f, i, c, e) /\ Reaches(i, e, c) /\ i + cards[c].min <= e
              /\ f \in Whole(e, c + 1)
              /\ EdgesFrom(f, i) = Within(ColumnCost(c), i, e) + EdgesFrom(f, e)
<1> DEFINE others == {t \in i .. Nodes : t = Nodes \/ f[t] # c}
<1>0. i \in Nat /\ i <= Nodes /\ Nodes \in Nat /\ c \in Int /\ c >= 0 /\ c < Columns /\ Columns \in Nat
  BY SizesAreNatural DEF Position, Column
<1>1. \A t \in i .. Nodes - 1 : t \in Node /\ f[t] \in Column /\ f[t] >= c /\ Matches(t, f[t])
  BY <1>0 DEF Whole, Partial, Assignment, Node
<1>2. \A t, u \in i .. Nodes - 1 : t < u => f[t] <= f[u]
  BY DEF Whole, Partial
<1>3. PICK e \in others : \A t \in others : e <= t
  <2>1. others \subseteq Nat /\ Nodes \in others
    BY <1>0
  <2>2. QED
    BY <2>1, LeastNatural
<1>4. e \in i .. Nodes /\ e \in Int
  BY <1>0
<1>5. StopsAt(f, i, c, e)
  <2>1. ASSUME NEW t \in i .. Nodes - 1, t < e PROVE f[t] = c
    BY <1>0, <1>3, <1>4, <2>1
  <2>2. ASSUME NEW t \in i .. Nodes - 1, t >= e PROVE f[t] # c
    <3>1. e # Nodes /\ e \in i .. Nodes - 1 /\ f[e] # c
      BY <1>0, <1>3, <1>4, <2>2
    <3>2. f[e] > c /\ f[e] \in Int
      BY <1>0, <1>1, <3>1 DEF Column
    <3>3. f[t] >= f[e] /\ f[t] \in Int
      BY <1>0, <1>1, <1>2, <1>4, <2>2, <3>1, <3>2 DEF Column
    <3>4. QED
      BY <1>0, <3>2, <3>3
  <2>3. QED
    BY <1>0, <1>4, <2>1, <2>2 DEF StopsAt
<1> HIDE DEF others
<1>6. Within(Given(f, c), i, Nodes) = e - i
  <2>1. IsRun(Given(f, c), i, e, Nodes)
    BY <1>0, <1>1, <1>4, <1>5 DEF Given, StopsAt, IsRun
  <2>2. QED
    BY <1>0, <1>4, <2>1, WithinRun
<1>7. Allowed(e - i, c)
  BY <1>0, <1>6 DEF Whole
<1>8. Reaches(i, e, c) /\ i + cards[c].min <= e
  <2>1. \A t \in i .. e - 1 : Matches(t, c)
    BY <1>0, <1>1, <1>4, <1>5 DEF StopsAt
  <2>2. QED
    BY <1>0, <1>4, <1>7, <2>1, CardinalityTypes DEF Allowed, Reaches
<1>9. f \in Whole(e, c + 1)
  <2>1. \A t \in e .. Nodes - 1 : t \in i .. Nodes - 1 /\ f[t] # None /\ f[t] >= c + 1
    BY <1>0, <1>1, <1>4, <1>5 DEF Whole, StopsAt, Column
  <2>2. f \in Partial(e, c + 1)
    BY <2>1 DEF Whole, Partial
  <2>3. ASSUME NEW d \in c + 1 .. Columns - 1 PROVE Allowed(Within(Given(f, d), e, Nodes), d)
    <3>1. Within(Given(f, d), i, e) = 0
      <4>1. IsRun(Given(f, d), i, i, e)
        BY <1>0, <1>4, <1>5, <2>3 DEF StopsAt, Given, IsRun
      <4>2. QED
        BY <1>0, <1>4, <4>1, WithinRun
    <3>2. Within(Given(f, d), i, Nodes) = Within(Given(f, d), e, Nodes)
      <4>1. Within(Given(f, d), i, Nodes) = Within(Given(f, d), i, e) + Within(Given(f, d), e, Nodes)
        BY <1>0, <1>4, WithinSplits
      <4>2. Within(Given(f, d), e, Nodes) \in Nat
        BY <1>0, <1>4, WithinIsNatural
      <4>3. QED
        BY <3>1, <4>1, <4>2
    <3>3. d \in c .. Columns - 1
      BY <1>0
    <3>4. QED
      BY <3>2, <3>3 DEF Whole
  <2>4. QED
    BY <2>1, <2>2, <2>3 DEF Whole
<1>10. EdgesFrom(f, i) = Within(ColumnCost(c), i, e) + EdgesFrom(f, e)
  <2>1. \A t \in i .. e - 1 : t \in Costly(f) <=> t \in ColumnCost(c)
    BY <1>0, <1>1, <1>4, <1>5 DEF StopsAt, Costly, ColumnCost, Whole
  <2>2. Within(Costly(f), i, e) = Within(ColumnCost(c), i, e)
    BY <1>0, <1>4, <2>1, WithinSame
  <2>3. QED
    BY <1>0, <1>4, <2>2, WithinSplits DEF EdgesFrom
<1>11. QED
  BY <1>4, <1>5, <1>8, <1>9, <1>10

Run(f, i, e, c) == [t \in Node |-> IF i <= t /\ t < e THEN c ELSE f[t]]

(* Conversely, a run of a rule before a partition for the later ones.      *)
LEMMA RunBeforePartition ==
    ASSUME Input, NEW i \in Position, NEW c \in Column, NEW e \in i .. Nodes,
           Reaches(i, e, c), i + cards[c].min <= e, NEW f \in Whole(e, c + 1)
    PROVE  /\ Run(f, i, e, c) \in Whole(i, c)
           /\ StopsAt(Run(f, i, e, c), i, c, e)
           /\ EdgesFrom(Run(f, i, e, c), i) = Within(ColumnCost(c), i, e) + EdgesFrom(f, e)
<1> DEFINE g == Run(f, i, e, c)
<1>0. /\ i \in Nat /\ i <= Nodes /\ Nodes \in Nat /\ c \in Int /\ c >= 0 /\ c < Columns /\ Columns \in Nat
      /\ e \in Nat /\ i <= e /\ e <= Nodes /\ e \in Position
  BY SizesAreNatural DEF Position, Column
<1>1. f \in Assignment
  BY DEF Whole, Partial
<1>2. /\ g \in Assignment
      /\ \A t \in Node : g[t] = IF i <= t /\ t < e THEN c ELSE f[t]
  BY <1>1 DEF Run, Assignment
<1> HIDE DEF g
<1>3. ASSUME NEW t \in i .. e - 1 PROVE t \in Node /\ g[t] = c /\ Matches(t, c)
  <2>1. t \in Node /\ i <= t /\ t < e
    BY <1>0, <1>3 DEF Node
  <2>2. Matches(t, c)
    BY <1>3 DEF Reaches
  <2>3. QED
    BY <1>2, <2>1, <2>2
<1>4. ASSUME NEW t \in e .. Nodes - 1
      PROVE  t \in Node /\ g[t] = f[t] /\ f[t] # None /\ f[t] >= c + 1 /\ Matches(t, f[t]) /\ f[t] \in Column
  <2>1. t \in Node /\ ~(t < e)
    BY <1>0, <1>4 DEF Node
  <2>2. f[t] # None /\ f[t] >= c + 1 /\ Matches(t, f[t])
    BY <1>4 DEF Whole, Partial
  <2>3. QED
    BY <1>1, <1>2, <2>1, <2>2 DEF Assignment
<1>5. \A t \in i .. Nodes - 1 : t \in i .. e - 1 \/ t \in e .. Nodes - 1
  BY <1>0
<1>6. c # None
  BY <1>0, SentinelsAreNotNumbers
<1>7. \A t \in i .. Nodes - 1 : g[t] # None /\ g[t] >= c /\ Matches(t, g[t])
  BY <1>0, <1>3, <1>4, <1>5, <1>6 DEF Column
<1>8. ASSUME NEW t \in i .. Nodes - 1, NEW u \in i .. Nodes - 1, t < u PROVE g[t] <= g[u]
  <2>1. CASE u \in i .. e - 1
    <3>1. t \in i .. e - 1
      BY <1>0, <1>8, <2>1
    <3>2. QED
      BY <1>0, <1>3, <2>1, <3>1
  <2>2. CASE u \in e .. Nodes - 1 /\ t \in i .. e - 1
    BY <1>0, <1>3, <1>4, <2>2 DEF Column
  <2>3. CASE u \in e .. Nodes - 1 /\ t \in e .. Nodes - 1
    <3>1. f[t] <= f[u]
      BY <1>4, <1>8, <2>3 DEF Whole, Partial
    <3>2. QED
      BY <1>4, <2>3, <3>1
  <2>4. QED
    BY <1>5, <2>1, <2>2, <2>3
<1>9. g \in Partial(i, c)
  BY <1>2, <1>7, <1>8 DEF Partial
<1>10. StopsAt(g, i, c, e)
  <2>1. ASSUME NEW t \in i .. Nodes - 1 PROVE g[t] = c <=> t < e
    BY <1>0, <1>3, <1>4, <1>5, <2>1 DEF Column
  <2>2. QED
    BY <2>1 DEF StopsAt
<1>11. ASSUME NEW d \in c .. Columns - 1 PROVE Allowed(Within(Given(g, d), i, Nodes), d)
  <2>1. CASE d = c
    <3>1. IsRun(Given(g, c), i, e, Nodes)
      <4>1. \A t \in i .. Nodes - 1 : t \in Node
        BY <1>3, <1>4, <1>5
      <4>2. QED
        BY <1>10, <4>1 DEF StopsAt, Given, IsRun
    <3>2. Within(Given(g, c), i, Nodes) = e - i
      BY <1>0, <3>1, WithinRun
    <3>3. cards[c].min \in Nat /\ cards[c].max \in Nat \union {Unbounded}
      BY CardinalityTypes
    <3>4. Allowed(e - i, c)
      BY <1>0, <3>3 DEF Allowed, Reaches
    <3>5. QED
      BY <2>1, <3>2, <3>4
  <2>2. CASE d # c
    <3>1. Within(Given(g, d), i, e) = 0
      <4>1. IsRun(Given(g, d), i, i, e)
        BY <1>0, <1>3, <2>2 DEF Given, IsRun
      <4>2. QED
        BY <1>0, <4>1, WithinRun
    <3>2. Within(Given(g, d), e, Nodes) = Within(Given(f, d), e, Nodes)
      <4>1. \A t \in e .. Nodes - 1 : t \in Given(g, d) <=> t \in Given(f, d)
        BY <1>4 DEF Given
      <4>2. QED
        BY <1>0, <4>1, WithinSame
    <3>3. Within(Given(g, d), i, Nodes) = Within(Given(g, d), i, e) + Within(Given(g, d), e, Nodes)
      BY <1>0, WithinSplits
    <3>4. Within(Given(f, d), e, Nodes) \in Nat
      BY <1>0, WithinIsNatural
    <3>5. Within(Given(g, d), i, Nodes) = Within(Given(f, d), e, Nodes)
      BY <3>1, <3>2, <3>3, <3>4
    <3>6. d \in c + 1 .. Columns - 1
      BY <1>0, <2>2
    <3>7. QED
      BY <3>5, <3>6 DEF Whole
  <2>3. QED
    BY <2>1, <2>2
<1>12. g \in Whole(i, c)
  BY <1>7, <1>9, <1>11 DEF Whole
<1>13. EdgesFrom(g, i) = Within(ColumnCost(c), i, e) + EdgesFrom(f, e)
  <2>1. \A t \in i .. e - 1 : t \in Costly(g) <=> t \in ColumnCost(c)
    BY <1>3, <1>6 DEF Costly, ColumnCost
  <2>2. Within(Costly(g), i, e) = Within(ColumnCost(c), i, e)
    BY <1>0, <2>1, WithinSame
  <2>3. EdgesFrom(g, e) = EdgesFrom(f, e)
    BY <1>0, <1>4, CostOfSame
  <2>4. Within(Costly(g), i, Nodes) = Within(Costly(g), i, e) + Within(Costly(g), e, Nodes)
    BY <1>0, WithinSplits
  <2>5. QED
    BY <2>2, <2>3, <2>4 DEF EdgesFrom
<1>14. QED
  BY <1>10, <1>12, <1>13 DEF g

Glue(f, g, i) == [t \in Node |-> IF t < i THEN f[t] ELSE g[t]]

(* What has been assigned up to node i and anything that goes on from there *)
(* are one assignment, and cost what the two cost.                          *)
LEMMA GluedRecovery ==
    ASSUME NEW i \in Position, NEW c \in 0 .. Columns, NEW f \in Partial(0, 0), NEW g \in Partial(i, c),
           \A t \in 0 .. i - 1 : f[t] # None => f[t] <= c
    PROVE  /\ Glue(f, g, i) \in Partial(0, 0) /\ Glue(f, g, i) \in Partial(i, c)
           /\ \A t \in Node : Glue(f, g, i)[t] = IF t < i THEN f[t] ELSE g[t]
           /\ EdgesFrom(Glue(f, g, i), 0) = EdgesFrom(f, 0) - EdgesFrom(f, i) + EdgesFrom(g, i)
           /\ LeftFrom(Glue(f, g, i), 0) = LeftFrom(f, 0) - LeftFrom(f, i) + LeftFrom(g, i)
<1> DEFINE h == Glue(f, g, i)
<1>0. i \in Nat /\ i <= Nodes /\ Nodes \in Nat /\ Columns \in Nat /\ 0 \in Position /\ c \in Nat
  BY SizesAreNatural DEF Position
<1>1. f \in Assignment /\ g \in Assignment
  BY DEF Partial
<1>2. h \in Assignment /\ \A t \in Node : h[t] = IF t < i THEN f[t] ELSE g[t]
  BY <1>1 DEF Glue, Assignment
<1> HIDE DEF h
<1>3. ASSUME NEW t \in 0 .. i - 1
      PROVE  t \in Node /\ h[t] = f[t] /\ t \in 0 .. Nodes - 1
  BY <1>0, <1>2, <1>3 DEF Node
<1>4. ASSUME NEW t \in i .. Nodes - 1
      PROVE  t \in Node /\ h[t] = g[t]
  BY <1>0, <1>2, <1>4 DEF Node
<1>5. \A t \in 0 .. Nodes - 1 : t \in 0 .. i - 1 \/ t \in i .. Nodes - 1
  BY <1>0
<1>6. \A t \in 0 .. Nodes - 1 : h[t] # None => h[t] >= 0 /\ Matches(t, h[t])
  <2>1. ASSUME NEW t \in i .. Nodes - 1, h[t] # None PROVE h[t] >= 0 /\ Matches(t, h[t])
    BY <1>1, <1>4, <2>1 DEF Partial, Assignment, Column
  <2>2. QED
    BY <1>3, <1>5, <2>1 DEF Partial
<1>7. ASSUME NEW t \in 0 .. Nodes - 1, NEW u \in 0 .. Nodes - 1, t < u, h[t] # None, h[u] # None
      PROVE  h[t] <= h[u]
  <2>1. CASE u \in 0 .. i - 1
    <3>1. t \in 0 .. i - 1
      BY <1>0, <1>7, <2>1
    <3>2. QED
      BY <1>3, <1>7, <2>1, <3>1 DEF Partial
  <2>2. CASE u \in i .. Nodes - 1 /\ t \in 0 .. i - 1
    <3>1. h[t] \in Column /\ h[u] \in Column
      BY <1>2, <1>3, <1>4, <1>7, <2>2 DEF Assignment
    <3>2. h[t] <= c /\ h[u] >= c
      BY <1>3, <1>4, <1>7, <2>2 DEF Partial
    <3>3. QED
      BY <1>0, <3>1, <3>2 DEF Column
  <2>3. CASE u \in i .. Nodes - 1 /\ t \in i .. Nodes - 1
    BY <1>4, <1>7, <2>3 DEF Partial
  <2>4. QED
    BY <1>5, <2>1, <2>2, <2>3
<1>8. h \in Partial(0, 0)
  BY <1>2, <1>6, <1>7 DEF Partial
<1>9. h \in Partial(i, c)
  BY <1>2, <1>4 DEF Partial
<1>10. EdgesFrom(h, i) = EdgesFrom(g, i) /\ LeftFrom(h, i) = LeftFrom(g, i)
  BY <1>4, CostOfSame
<1>11. /\ Within(Costly(h), 0, i) = Within(Costly(f), 0, i)
       /\ Within(LeftOver(h), 0, i) = Within(LeftOver(f), 0, i)
  <2>1. \A t \in 0 .. i - 1 : /\ t \in Costly(h) <=> t \in Costly(f)
                              /\ t \in LeftOver(h) <=> t \in LeftOver(f)
    BY <1>3 DEF Costly, LeftOver
  <2>2. QED
    BY <1>0, <2>1, WithinSame
<1>12. \A S : /\ Within(S, 0, Nodes) = Within(S, 0, i) + Within(S, i, Nodes)
              /\ Within(S, 0, i) \in Nat /\ Within(S, i, Nodes) \in Nat
  BY <1>0, WithinSplits, WithinIsNatural
<1>13. /\ EdgesFrom(h, 0) = EdgesFrom(f, 0) - EdgesFrom(f, i) + EdgesFrom(g, i)
       /\ LeftFrom(h, 0) = LeftFrom(f, 0) - LeftFrom(f, i) + LeftFrom(g, i)
  BY <1>10, <1>11, <1>12 DEF EdgesFrom, LeftFrom
<1>14. QED
  BY <1>2, <1>8, <1>9, <1>13 DEF h

(* The same for partitions, where the rules before c have been served by    *)
(* the nodes before i.                                                      *)
LEMMA GluedPartition ==
    ASSUME NEW i \in Position, NEW c \in 0 .. Columns,
           NEW f \in Whole(0, 0), f \in Whole(i, c), NEW g \in Whole(i, c),
           \A t \in 0 .. i - 1 : f[t] < c
    PROVE  /\ Glue(f, g, i) \in Whole(0, 0) /\ Glue(f, g, i) \in Whole(i, c)
           /\ \A t \in Node : Glue(f, g, i)[t] = IF t < i THEN f[t] ELSE g[t]
           /\ EdgesFrom(Glue(f, g, i), 0) = EdgesFrom(f, 0) - EdgesFrom(f, i) + EdgesFrom(g, i)
           /\ \A d \in Column : d < c => Count(Glue(f, g, i), d) = Count(f, d)
           /\ \A d \in Column : d >= c =>
                 /\ Count(Glue(f, g, i), d) = Within(Given(g, d), i, Nodes)
                 /\ Count(f, d) = Within(Given(f, d), i, Nodes)
<1> DEFINE h == Glue(f, g, i)
<1>0. i \in Nat /\ i <= Nodes /\ Nodes \in Nat /\ Columns \in Nat /\ 0 \in Position /\ c \in Nat
  BY SizesAreNatural DEF Position
<1>1. f \in Partial(0, 0) /\ g \in Partial(i, c) /\ g \in Assignment /\ f \in Assignment
  BY DEF Whole, Partial
<1>2. \A t \in 0 .. i - 1 : t \in Node /\ f[t] \in Column /\ f[t] < c /\ f[t] <= c
  BY <1>0, <1>1 DEF Whole, Assignment, Node, Column
<1>3. /\ h \in Partial(0, 0) /\ h \in Partial(i, c)
      /\ \A t \in Node : h[t] = IF t < i THEN f[t] ELSE g[t]
      /\ EdgesFrom(h, 0) = EdgesFrom(f, 0) - EdgesFrom(f, i) + EdgesFrom(g, i)
  BY <1>1, <1>2, GluedRecovery
<1> HIDE DEF h
<1>4. \A t \in 0 .. i - 1 : h[t] = f[t]
  BY <1>0, <1>2, <1>3
<1>5. \A t \in i .. Nodes - 1 : t \in Node /\ h[t] = g[t] /\ g[t] # None /\ g[t] >= c /\ f[t] # None /\ f[t] >= c
  BY <1>0, <1>3 DEF Node, Whole, Partial
<1>6. \A S : /\ Within(S, 0, Nodes) = Within(S, 0, i) + Within(S, i, Nodes)
             /\ Within(S, 0, i) \in Nat /\ Within(S, i, Nodes) \in Nat
  BY <1>0, WithinSplits, WithinIsNatural
<1>7. ASSUME NEW d \in Column, d < c
      PROVE  Count(h, d) = Count(f, d)
  <2>1. \A t \in 0 .. i - 1 : t \in Given(h, d) <=> t \in Given(f, d)
    BY <1>2, <1>4 DEF Given
  <2>2. Within(Given(h, d), 0, i) = Within(Given(f, d), 0, i)
    BY <1>0, <2>1, WithinSame
  <2>3. IsRun(Given(h, d), i, i, Nodes) /\ IsRun(Given(f, d), i, i, Nodes)
    BY <1>0, <1>5, <1>7 DEF IsRun, Given, Column
  <2>4. Within(Given(h, d), i, Nodes) = 0 /\ Within(Given(f, d), i, Nodes) = 0
    BY <1>0, <2>3, WithinRun
  <2>5. QED
    BY <1>6, <2>2, <2>4 DEF Count
<1>8. ASSUME NEW d \in Column, d >= c
      PROVE  /\ Count(h, d) = Within(Given(g, d), i, Nodes)
             /\ Count(f, d) = Within(Given(f, d), i, Nodes)
  <2>1. IsRun(Given(h, d), 0, 0, i) /\ IsRun(Given(f, d), 0, 0, i)
    BY <1>0, <1>2, <1>4, <1>8 DEF IsRun, Given, Column
  <2>2. Within(Given(h, d), 0, i) = 0 /\ Within(Given(f, d), 0, i) = 0
    BY <1>0, <2>1, WithinRun
  <2>3. \A t \in i .. Nodes - 1 : t \in Given(h, d) <=> t \in Given(g, d)
    BY <1>5 DEF Given
  <2>4. Within(Given(h, d), i, Nodes) = Within(Given(g, d), i, Nodes)
    BY <1>0, <2>3, WithinSame
  <2>5. QED
    BY <1>6, <2>2, <2>4 DEF Count
<1>9. \A d \in 0 .. Columns - 1 : d \in Column /\ (d < c \/ d >= c)
  BY <1>0 DEF Column
<1>10. h \in Whole(0, 0)
  <2>1. \A t \in 0 .. Nodes - 1 : h[t] # None
    <3>1. \A t \in 0 .. Nodes - 1 : t \in 0 .. i - 1 \/ t \in i .. Nodes - 1
      BY <1>0
    <3>2. \A t \in 0 .. i - 1 : t \in 0 .. Nodes - 1
      BY <1>0
    <3>3. QED
      BY <1>4, <1>5, <3>1, <3>2 DEF Whole
  <2>2. ASSUME NEW d \in 0 .. Columns - 1 PROVE Allowed(Within(Given(h, d), 0, Nodes), d)
    <3>1. CASE d < c
      BY <1>7, <1>9, <2>2, <3>1 DEF Whole, Count
    <3>2. CASE d >= c
      <4>1. d \in c .. Columns - 1
        BY <1>0, <2>2, <3>2
      <4>2. Allowed(Within(Given(g, d), i, Nodes), d)
        BY <4>1 DEF Whole
      <4>3. QED
        BY <1>8, <1>9, <3>2, <4>2 DEF Count
    <3>3. QED
      BY <1>9, <3>1, <3>2
  <2>3. QED
    BY <1>3, <2>1, <2>2 DEF Whole
<1>11. h \in Whole(i, c)
  <2>1. ASSUME NEW d \in c .. Columns - 1 PROVE Allowed(Within(Given(h, d), i, Nodes), d)
    <3>1. \A t \in i .. Nodes - 1 : t \in Given(h, d) <=> t \in Given(g, d)
      BY <1>5 DEF Given
    <3>2. Within(Given(h, d), i, Nodes) = Within(Given(g, d), i, Nodes)
      BY <1>0, <3>1, WithinSame
    <3>3. QED
      BY <2>1, <3>2 DEF Whole
  <2>2. QED
    BY <1>3, <1>5, <2>1 DEF Whole
<1>12. QED
  BY <1>3, <1>7, <1>8, <1>10, <1>11 DEF h

-----------------------------------------------------------------------------
(* The preferences are orders.                                             *)

(* So is what a rule is given,                                              *)
LEMMA CountIsNatural ==
    ASSUME NEW f, NEW c
    PROVE  Count(f, c) \in Nat
BY SizesAreNatural, WithinIsNatural DEF Count

(* and what a whole assignment costs.                                       *)
LEMMA EdgesAreNatural ==
    ASSUME NEW f
    PROVE  EdgesFrom(f, 0) \in Nat /\ LeftFrom(f, 0) \in Nat
<1>1. 0 \in Position
  BY SizesAreNatural DEF Position
<1>2. QED
  BY <1>1, CostsAreNatural

(* Nothing is preferred to what it loses to. *)
LEMMA BetterPartitionAsymmetric ==
    ASSUME NEW f, NEW g, BetterPartition(f, g)
    PROVE  ~BetterPartition(g, f)
<1> SUFFICES ASSUME BetterPartition(g, f) PROVE FALSE
  OBVIOUS
<1>1. EdgesFrom(f, 0) = EdgesFrom(g, 0)
  BY EdgesAreNatural DEF BetterPartition
<1>2. PICK c \in Column : /\ \A d \in 0 .. c - 1 : Count(f, d) = Count(g, d)
                          /\ PrefersCount(c, Count(f, c), Count(g, c))
  BY <1>1, EdgesAreNatural DEF BetterPartition
<1>3. PICK e \in Column : /\ \A d \in 0 .. e - 1 : Count(g, d) = Count(f, d)
                          /\ PrefersCount(e, Count(g, e), Count(f, e))
  BY <1>1, EdgesAreNatural DEF BetterPartition
<1>4. Count(f, c) # Count(g, c) /\ Count(f, e) # Count(g, e)
  BY <1>2, <1>3, CountIsNatural DEF PrefersCount
<1>5. c \in Nat /\ e \in Nat
  BY SizesAreNatural DEF Column
<1>6. c = e
  BY <1>2, <1>3, <1>4, <1>5
<1>7. QED
  BY <1>2, <1>3, <1>6, CountIsNatural DEF PrefersCount

(* A preference of partitions extends along a chain.                        *)
LEMMA BetterPartitionTransitive ==
    ASSUME NEW f, NEW g, NEW h, BetterPartition(f, g), BetterPartition(g, h)
    PROVE  BetterPartition(f, h)
<1>1. /\ EdgesFrom(f, 0) \in Nat /\ EdgesFrom(g, 0) \in Nat /\ EdgesFrom(h, 0) \in Nat
      /\ EdgesFrom(f, 0) <= EdgesFrom(g, 0) /\ EdgesFrom(g, 0) <= EdgesFrom(h, 0)
  BY EdgesAreNatural DEF BetterPartition
<1>2. CASE EdgesFrom(f, 0) < EdgesFrom(h, 0)
  BY <1>2 DEF BetterPartition
<1>3. CASE EdgesFrom(f, 0) = EdgesFrom(g, 0) /\ EdgesFrom(g, 0) = EdgesFrom(h, 0)
  <2>1. PICK c \in Column : /\ \A d \in 0 .. c - 1 : Count(f, d) = Count(g, d)
                            /\ PrefersCount(c, Count(f, c), Count(g, c))
    BY <1>1, <1>3 DEF BetterPartition
  <2>2. PICK e \in Column : /\ \A d \in 0 .. e - 1 : Count(g, d) = Count(h, d)
                            /\ PrefersCount(e, Count(g, e), Count(h, e))
    BY <1>1, <1>3 DEF BetterPartition
  <2>3. c \in Nat /\ e \in Nat
    BY SizesAreNatural DEF Column
  <2>4. CASE c <= e
    <3>1. \A d \in 0 .. c - 1 : Count(f, d) = Count(h, d)
      BY <2>1, <2>2, <2>3, <2>4
    <3>2. c = e \/ Count(g, c) = Count(h, c)
      BY <2>2, <2>3, <2>4
    <3>3. PrefersCount(c, Count(f, c), Count(h, c))
      BY <2>1, <2>2, <3>2, CountIsNatural DEF PrefersCount
    <3>4. QED
      BY <1>3, <3>1, <3>3 DEF BetterPartition
  <2>5. CASE e < c
    <3>1. \A d \in 0 .. e - 1 : Count(f, d) = Count(h, d)
      BY <2>1, <2>2, <2>3, <2>5
    <3>2. Count(f, e) = Count(g, e)
      BY <2>1, <2>3, <2>5
    <3>3. PrefersCount(e, Count(f, e), Count(h, e))
      BY <2>2, <3>2
    <3>4. QED
      BY <1>3, <3>1, <3>3 DEF BetterPartition
  <2>6. QED
    BY <2>3, <2>4, <2>5
<1>4. QED
  BY <1>1, <1>2, <1>3

Before(f, i) == {f[j] : j \in 0 .. i - 1} \ {None}

(* The latest rule that has been given a node, which is the last of them.   *)
LEMMA StandsAtLatest ==
    ASSUME NEW f, NEW i
    PROVE  /\ Before(f, i) = {} => Stand(f, i) = 0
           /\ \A c \in Before(f, i) :
                 c \in Int /\ (\A d \in Before(f, i) : d \in Int /\ d <= c) => Stand(f, i) = c
<1> DEFINE before == {f[j] : j \in 0 .. i - 1} \ {None}
<1>1. Stand(f, i) = IF before = {} THEN 0 ELSE CHOOSE c \in before : \A d \in before : d <= c
  BY DEF Stand, Abstract!Canonical!StandsAt
<1>2. before = Before(f, i)
  BY DEF Before
<1> HIDE DEF before
<1>3. ASSUME NEW c \in before, c \in Int, \A d \in before : d \in Int /\ d <= c
      PROVE  Stand(f, i) = c
  <2>1. \A b \in before : (\A d \in before : d <= b) => b = c
    BY <1>3
  <2>2. QED
    BY <1>1, <1>3, <2>1
<1>4. QED
  BY <1>1, <1>2, <1>3

(* An assignment stands at a rule it gave a node to, or at the first.       *)
LEMMA StandIsRule ==
    ASSUME NEW f \in Assignment, NEW i \in Position
    PROVE  Stand(f, i) \in Nat /\ (Stand(f, i) = 0 \/ Stand(f, i) \in Before(f, i))
<1> DEFINE gaps == {n \in 0 .. Columns : \E d \in Before(f, i) : n = Columns - d}
<1>1. \A j \in 0 .. i - 1 : j \in Node
  BY SizesAreNatural DEF Node, Position
<1>2. \A d \in Before(f, i) : d \in 0 .. Columns - 1
  BY <1>1 DEF Before, Assignment, Column
<1>3. CASE Before(f, i) = {}
  BY <1>3, StandsAtLatest
<1>4. CASE Before(f, i) # {}
  <2>1. gaps \subseteq Nat /\ gaps # {}
    <3>1. PICK d \in Before(f, i) : d \in 0 .. Columns - 1
      BY <1>2, <1>4
    <3>2. Columns - d \in gaps
      BY <3>1, SizesAreNatural
    <3>3. QED
      BY <3>2
  <2>2. PICK m \in gaps : \A n \in gaps : m <= n
    BY <2>1, LeastNatural
  <2>3. PICK c \in Before(f, i) : m = Columns - c
    BY <2>2
  <2>4. \A d \in Before(f, i) : d \in Int /\ d <= c
    BY <1>2, <2>2, <2>3, SizesAreNatural
  <2>5. Stand(f, i) = c
    BY <2>3, <2>4, StandsAtLatest
  <2>6. QED
    BY <1>2, <2>3, <2>5
<1>5. QED
  BY <1>3, <1>4

(* Where an assignment stands depends on the rules it has given nodes to.   *)
LEMMA StandOfBefore ==
    ASSUME NEW f, NEW g, NEW i, NEW k, Before(f, i) = Before(g, k)
    PROVE  Stand(f, i) = Stand(g, k)
<1> DEFINE latest(before) == IF before = {} THEN 0 ELSE CHOOSE c \in before : \A d \in before : d <= c
<1>1. Stand(f, i) = latest(Before(f, i)) /\ Stand(g, k) = latest(Before(g, k))
  BY DEF Stand, Abstract!Canonical!StandsAt, Before
<1>2. QED
  BY <1>1

(* Where an assignment stands at a node depends on the nodes before. *)
LEMMA StandOfSame ==
    ASSUME NEW f, NEW g, NEW i, \A j \in 0 .. i - 1 : f[j] = g[j]
    PROVE  Stand(f, i) = Stand(g, i)
<1>1. Before(f, i) = Before(g, i)
  BY DEF Before
<1>2. QED
  BY <1>1, StandOfBefore

(* The place of what becomes of a node is a number. *)
LEMMA PlaceIsInteger ==
    ASSUME NEW f \in Assignment, NEW i \in Node
    PROVE  Place(f, i) \in Int
<1>1. i \in Position
  BY SizesAreNatural DEF Node, Position
<1>2. Stand(f, i) \in Nat
  BY <1>1, StandIsRule
<1>3. f[i] # None => f[i] \in Int
  BY SizesAreNatural DEF Assignment, Column
<1>4. QED
  BY <1>2, <1>3 DEF Place

(* Of two recoveries at most one is preferred to the other.                 *)
LEMMA BetterRecoveryAsymmetric ==
    ASSUME NEW f \in Assignment, NEW g \in Assignment, BetterRecovery(f, g)
    PROVE  ~BetterRecovery(g, f)
<1> SUFFICES ASSUME BetterRecovery(g, f) PROVE FALSE
  OBVIOUS
<1>1. CostFrom(f, 0) = CostFrom(g, 0)
  BY EdgesAreNatural DEF BetterRecovery, Below, CostFrom
<1>2. ~Below(CostFrom(f, 0), CostFrom(g, 0)) /\ ~Below(CostFrom(g, 0), CostFrom(f, 0))
  BY <1>1, EdgesAreNatural DEF Below, CostFrom
<1>3. PICK i \in Node : (\A j \in 0 .. i - 1 : f[j] = g[j]) /\ Place(f, i) < Place(g, i)
  BY <1>2 DEF BetterRecovery
<1>4. PICK k \in Node : (\A j \in 0 .. k - 1 : g[j] = f[j]) /\ Place(g, k) < Place(f, k)
  BY <1>2 DEF BetterRecovery
<1>5. i \in Nat /\ k \in Nat
  BY SizesAreNatural DEF Node
<1>6. f[i] # g[i] /\ f[k] # g[k]
  <2>1. Stand(f, i) = Stand(g, i) /\ Stand(f, k) = Stand(g, k)
    BY <1>3, <1>4, StandOfSame
  <2>2. f[i] = g[i] => Place(f, i) = Place(g, i)
    BY <2>1 DEF Place
  <2>3. f[k] = g[k] => Place(f, k) = Place(g, k)
    BY <2>1 DEF Place
  <2>4. QED
    BY <1>3, <1>4, <2>2, <2>3, PlaceIsInteger
<1>7. i = k
  BY <1>3, <1>4, <1>5, <1>6
<1>8. QED
  BY <1>3, <1>4, <1>7, PlaceIsInteger

(* A preference of recoveries extends along a chain: the first node where   *)
(* the ends differ is the earlier of the two where the chain does.          *)
LEMMA BetterRecoveryTransitive ==
    ASSUME NEW f \in Assignment, NEW g \in Assignment, NEW h \in Assignment,
           BetterRecovery(f, g), BetterRecovery(g, h)
    PROVE  BetterRecovery(f, h)
<1>1. \A r \in {f, g, h} : EdgesFrom(r, 0) \in Nat /\ LeftFrom(r, 0) \in Nat
  BY EdgesAreNatural
<1>2. CASE Below(CostFrom(f, 0), CostFrom(h, 0))
  BY <1>2 DEF BetterRecovery
<1>3. CASE ~Below(CostFrom(f, 0), CostFrom(h, 0))
  <2>1. CostFrom(f, 0) = CostFrom(g, 0) /\ CostFrom(g, 0) = CostFrom(h, 0)
    BY <1>1, <1>3 DEF BetterRecovery, Below, CostFrom
  <2>2. ~Below(CostFrom(f, 0), CostFrom(g, 0)) /\ ~Below(CostFrom(g, 0), CostFrom(h, 0))
    BY <1>1, <2>1 DEF Below, CostFrom
  <2>3. PICK i \in Node : (\A j \in 0 .. i - 1 : f[j] = g[j]) /\ Place(f, i) < Place(g, i)
    BY <2>2 DEF BetterRecovery
  <2>4. PICK k \in Node : (\A j \in 0 .. k - 1 : g[j] = h[j]) /\ Place(g, k) < Place(h, k)
    BY <2>2 DEF BetterRecovery
  <2>5. i \in Nat /\ k \in Nat
    BY SizesAreNatural DEF Node
  <2>6. CASE i < k
    <3>1. (\A j \in 0 .. i - 1 : f[j] = h[j]) /\ (\A j \in 0 .. i - 1 : g[j] = h[j]) /\ g[i] = h[i]
      BY <2>3, <2>4, <2>5, <2>6
    <3>2. Place(g, i) = Place(h, i)
      BY <3>1, StandOfSame DEF Place
    <3>3. QED
      BY <2>1, <2>3, <3>1, <3>2 DEF BetterRecovery
  <2>7. CASE k <= i
    <3>1. \A j \in 0 .. k - 1 : f[j] = h[j] /\ f[j] = g[j]
      BY <2>3, <2>4, <2>5, <2>7
    <3>2. Place(f, k) <= Place(g, k)
      <4>1. CASE k = i
        BY <2>3, <4>1, PlaceIsInteger
      <4>2. CASE k < i
        <5>1. f[k] = g[k] /\ Stand(f, k) = Stand(g, k)
          BY <2>3, <2>5, <3>1, <4>2, StandOfSame
        <5>2. QED
          BY <5>1, PlaceIsInteger DEF Place
      <4>3. QED
        BY <2>5, <2>7, <4>1, <4>2
    <3>3. Place(f, k) < Place(h, k)
      BY <2>4, <3>2, PlaceIsInteger
    <3>4. QED
      BY <2>1, <3>1, <3>3 DEF BetterRecovery
  <2>8. QED
    BY <2>5, <2>6, <2>7
<1>4. QED
  BY <1>2, <1>3

-----------------------------------------------------------------------------
(* Acceptance: the front of the deque is the best endpoint.                *)

(* A rule that can stop at an endpoint can stop at any before it,           *)
LEMMA ReachesShorter ==
    ASSUME Input, NEW c \in Column, NEW i \in Int, NEW d \in Int, NEW e \in Int,
           Reaches(i, e, c), d <= e
    PROVE  Reaches(i, d, c)
<1>1. cards[c].max # Unbounded => cards[c].max \in Int
  BY CardinalityTypes
<1>2. \A t \in i .. d - 1 : t \in i .. e - 1
  OBVIOUS
<1>3. QED
  BY <1>1, <1>2 DEF Reaches

(* and what can stop there can be started later.                            *)
LEMMA ReachesFromLater ==
    ASSUME Input, NEW c \in Column, NEW i \in Int, NEW e \in Int, Reaches(i, e, c)
    PROVE  Reaches(i + 1, e, c)
<1>1. cards[c].max # Unbounded => cards[c].max \in Int
  BY CardinalityTypes
<1>2. \A t \in i + 1 .. e - 1 : t \in i .. e - 1
  OBVIOUS
<1>3. QED
  BY <1>1, <1>2 DEF Reaches

(* What a run of the column's rule costs is read off the prefix sums. *)
LEMMA PrefixMeasuresRuns ==
    ASSUME TypeOK, PrefixCounts, pc = "window", NEW i \in Position, NEW e \in Position, i <= e
    PROVE  prefix[e] = prefix[i] + Within(ColumnCost(column), i, e)
<1>1. i \in Int /\ e \in Int /\ 0 <= i
  BY SizesAreNatural DEF Position
<1>2. prefix[e] = Within(ColumnCost(column), 0, e) /\ prefix[i] = Within(ColumnCost(column), 0, i)
  BY DEF PrefixCounts
<1>3. QED
  BY <1>1, <1>2, WithinSplits

(* The types of the window, gathered.                                      *)
LEMMA WindowTypes ==
    ASSUME TypeOK, Control, pc = "window"
    PROVE  /\ Input /\ column \in Column /\ column + 1 \in 0 .. Columns /\ node \in Position /\ node \in Nat
           /\ Nodes \in Nat /\ node <= Nodes
           /\ cards[column].min \in Nat /\ Lo \in Nat /\ Lo = node + cards[column].min
           /\ previousLo \in Nat /\ previousLo <= Nodes + 1
           /\ deque \in Seq(Entry) /\ Len(deque) \in Nat
           /\ \A k \in 1 .. Len(deque) : /\ deque[k] \in Entry /\ deque[k].endpoint \in Position
                                         /\ deque[k].endpoint \in Nat /\ deque[k].key \in Nat
           /\ \A i \in Position : /\ prefix[i] \in Nat
                                  /\ suffix[i] # None => suffix[i] \in Nat /\ Key(i) \in Nat
<1>1. Input /\ column \in Column /\ node \in Position /\ previousLo \in 0 .. Nodes + 1
  BY SizesAreNatural DEF TypeOK, Control, Scanning, Column
<1>2. cards[column].min \in Nat
  BY <1>1, CardinalityTypes
<1>3. deque \in Seq(Entry)
  BY DEF TypeOK
<1>4. \A k \in 1 .. Len(deque) : deque[k] \in Entry
  BY <1>3
<1>5. \A i \in Position : prefix[i] \in Nat /\ suffix[i] \in Nat \union {None}
  BY DEF TypeOK
<1>6. \A i \in Position : i \in Nat
  BY SizesAreNatural DEF Position
<1>7. \A k \in 1 .. Len(deque) : deque[k].endpoint \in Position /\ deque[k].key \in Nat
  BY <1>4 DEF Entry
<1>8. \A i \in Position : suffix[i] # None => suffix[i] \in Nat /\ Key(i) \in Nat
  BY <1>5 DEF Key
<1>9. column + 1 \in 0 .. Columns /\ Lo = node + cards[column].min
  BY <1>1, SizesAreNatural DEF Column, Lo
<1>10. QED
  BY <1>1, <1>2, <1>3, <1>4, <1>5, <1>6, <1>7, <1>8, <1>9, SizesAreNatural DEF Position

(* Every partition from the node on is covered by an entry of the deque     *)
(* that the node can reach.                                                 *)
LEMMA PartitionIsCovered ==
    ASSUME VInv, pc = "window", previousLo <= Lo, NEW f \in Whole(node, column)
    PROVE  \E e \in node .. Nodes, k \in 1 .. Len(deque) :
              /\ StopsAt(f, node, column, e)
              /\ suffix[e] # None
              /\ EdgesFrom(f, node) + prefix[node] >= Key(e)
              /\ Reaches(node, deque[k].endpoint, column)
              /\ deque[k].endpoint <= e
              /\ \/ deque[k].key < Key(e)
                 \/ deque[k].key = Key(e) /\ (deque[k].endpoint = e \/ Reluctant(column))
<1>1. TypeOK /\ Control /\ PrefixCounts /\ DequeCoversWindow /\ RowsAreBest
  BY DEF VInv, IInv
<1>2. /\ Input /\ column \in Column /\ node \in Position /\ node \in Nat /\ Nodes \in Nat
      /\ Lo = node + cards[column].min /\ previousLo \in Nat /\ cards[column].min \in Nat
      /\ \A k \in 1 .. Len(deque) : deque[k].endpoint \in Nat
      /\ \A i \in Position : prefix[i] \in Nat /\ (suffix[i] # None => suffix[i] \in Nat)
  BY <1>1, WindowTypes
<1>3. PICK e \in node .. Nodes :
              /\ StopsAt(f, node, column, e) /\ Reaches(node, e, column) /\ node + cards[column].min <= e
              /\ f \in Whole(e, column + 1)
              /\ EdgesFrom(f, node) = Within(ColumnCost(column), node, e) + EdgesFrom(f, e)
  BY <1>2, PartitionHasRun
<1>4. e \in Position /\ e \in Int /\ node <= e /\ e \in previousLo .. Nodes
  BY <1>2, <1>3 DEF Position
<1>5. suffix[e] # None /\ suffix[e] <= EdgesFrom(f, e)
  <2>1. LeastCost(suffix[e], e, column + 1)
    BY <1>1, <1>4 DEF RowsAreBest, Accepting, SuffixRow
  <2>2. QED
    BY <1>3, <2>1 DEF LeastCost
<1>6. EdgesFrom(f, node) + prefix[node] >= Key(e)
  <2>1. prefix[e] = prefix[node] + Within(ColumnCost(column), node, e)
    BY <1>1, <1>2, <1>4, PrefixMeasuresRuns
  <2>2. EdgesFrom(f, e) \in Nat /\ Within(ColumnCost(column), node, e) \in Nat
    BY <1>2, <1>4, CostsAreNatural, WithinIsNatural
  <2>3. QED
    BY <1>2, <1>3, <1>4, <1>5, <2>1, <2>2 DEF Key
<1>7. PICK k \in 1 .. Len(deque) :
            /\ deque[k].endpoint <= e
            /\ \/ deque[k].key < Key(e)
               \/ deque[k].key = Key(e) /\ (deque[k].endpoint = e \/ Reluctant(column))
  BY <1>1, <1>3, <1>4, <1>5 DEF DequeCoversWindow
<1>8. Reaches(node, deque[k].endpoint, column)
  BY <1>2, <1>3, <1>4, <1>7, ReachesShorter
<1>9. QED
  BY <1>3, <1>5, <1>6, <1>7, <1>8

(* The window of a node is settled by the front of what is left in the      *)
(* deque: it is the best endpoint, and its key the least cost.              *)
LEMMA FrontIsBest ==
    ASSUME VInv, pc = "window", previousLo <= Lo, NEW gone \in 0 .. Len(deque), Settle(gone)
    PROVE  /\ BestEndpoint(node, column, endpoints'[column][node])
           /\ LeastCost(current'[node], node, column)
<1>1. TypeOK /\ Control /\ PrefixCounts /\ DequeIsMonotone /\ DequeHoldsCandidates /\ RowsAreBest /\ NothingAhead
  BY DEF VInv, IInv
<1>2. /\ Input /\ column \in Column /\ node \in Position /\ node \in Nat /\ Nodes \in Nat
      /\ Lo = node + cards[column].min /\ cards[column].min \in Nat /\ Len(deque) \in Nat
      /\ \A k \in 1 .. Len(deque) : deque[k].endpoint \in Nat /\ deque[k].endpoint \in Position /\ deque[k].key \in Nat
      /\ \A i \in Position : prefix[i] \in Nat /\ (suffix[i] # None => suffix[i] \in Nat /\ Key(i) \in Nat)
  BY <1>1, WindowTypes
<1>3. \A j \in 1 .. gone : ~Reaches(node, deque[j].endpoint, column)
  BY DEF Settle
<1>4. CASE gone = Len(deque)
  <2>1. current' = current /\ endpoints' = endpoints
    BY <1>4 DEF Settle
  <2>2. current[node] = None /\ endpoints[column][node] = None
    <3>1. ~Settled(column, node)
      BY <1>2, SizesAreNatural DEF Settled, Column
    <3>2. node \in 0 .. node
      BY <1>2
    <3>3. QED
      BY <1>1, <1>2, <3>1, <3>2 DEF NothingAhead, Accepting
  <2>3. Whole(node, column) = {}
    <3>1. \A f \in Whole(node, column) : FALSE
      BY <1>2, <1>3, <1>4, PartitionIsCovered
    <3>2. QED
      BY <3>1
  <2>4. QED
    BY <2>1, <2>2, <2>3 DEF BestEndpoint, LeastCost
<1>5. CASE gone # Len(deque)
  <2> DEFINE first == gone + 1
             e     == deque[gone + 1].endpoint
             cost  == deque[gone + 1].key - prefix[node]
  <2>1. first \in 1 .. Len(deque)
    BY <1>2, <1>5
  <2>2. /\ Reaches(node, e, column)
        /\ current' = [current EXCEPT ![node] = cost]
        /\ endpoints' = [endpoints EXCEPT ![column][node] = e]
    BY <1>5 DEF Settle
  <2>3. endpoints'[column][node] = e /\ current'[node] = cost
    BY <1>1, <1>2, <2>2 DEF TypeOK
  <2>4. /\ e \in Nat /\ e \in Position /\ e >= Lo /\ suffix[e] # None
        /\ deque[first].key = Key(e) /\ e \in node .. Nodes
    <3>1. e \in Nat /\ e \in Position /\ e >= Lo /\ suffix[e] # None /\ deque[first].key = Key(e)
      BY <1>1, <1>2, <2>1 DEF DequeHoldsCandidates, DequeIsMonotone
    <3>2. QED
      BY <1>2, <3>1 DEF Position
  <2>5. cost = Within(ColumnCost(column), node, e) + suffix[e] /\ cost \in Nat
    <3>1. prefix[e] = prefix[node] + Within(ColumnCost(column), node, e)
      BY <1>1, <1>2, <2>4, PrefixMeasuresRuns
    <3>2. Within(ColumnCost(column), node, e) \in Nat
      BY <1>2, <2>4, WithinIsNatural
    <3>3. deque[first].key = suffix[e] + prefix[e] /\ suffix[e] \in Nat /\ prefix[node] \in Nat
      BY <1>2, <2>4 DEF Key
    <3> HIDE DEF e
    <3>4. QED
      BY <3>1, <3>2, <3>3
  <2>6. PICK h \in Whole(e, column + 1) : EdgesFrom(h, e) = suffix[e]
    <3>1. LeastCost(suffix[e], e, column + 1)
      BY <1>1, <2>4 DEF RowsAreBest, Accepting, SuffixRow
    <3>2. QED
      BY <2>4, <3>1 DEF LeastCost
  <2> DEFINE g == Run(h, node, e, column)
  <2>7. g \in Whole(node, column) /\ StopsAt(g, node, column, e) /\ EdgesFrom(g, node) = cost
    BY <1>2, <2>2, <2>4, <2>5, <2>6, RunBeforePartition
  <2> HIDE DEF first, e, cost, g
  <2>8. ASSUME NEW f \in Whole(node, column)
        PROVE  /\ cost <= EdgesFrom(f, node)
               /\ \/ StopsAt(f, node, column, e)
                  \/ \E k \in node .. Nodes :
                        /\ StopsAt(f, node, column, k)
                        /\ \/ EdgesFrom(g, node) < EdgesFrom(f, node)
                           \/ /\ EdgesFrom(g, node) = EdgesFrom(f, node)
                              /\ PrefersCount(column, e - node, k - node)
    <3>1. PICK stop \in node .. Nodes, k \in 1 .. Len(deque) :
              /\ StopsAt(f, node, column, stop)
              /\ suffix[stop] # None
              /\ EdgesFrom(f, node) + prefix[node] >= Key(stop)
              /\ Reaches(node, deque[k].endpoint, column)
              /\ deque[k].endpoint <= stop
              /\ \/ deque[k].key < Key(stop)
                 \/ deque[k].key = Key(stop) /\ (deque[k].endpoint = stop \/ Reluctant(column))
      BY PartitionIsCovered
    <3>2. /\ k >= first /\ deque[k].key \in Nat /\ deque[k].endpoint \in Nat /\ stop \in Nat /\ stop \in Position
          /\ Key(stop) \in Nat /\ EdgesFrom(f, node) \in Nat /\ prefix[node] \in Nat /\ Key(e) \in Nat
      <4>1. k >= first
        BY <1>3, <2>1, <3>1 DEF first
      <4>2. stop \in Nat /\ stop \in Position
        BY <1>2 DEF Position
      <4>3. EdgesFrom(f, node) \in Nat
        BY <1>2, CostsAreNatural
      <4>4. QED
        BY <1>2, <2>4, <3>1, <4>1, <4>2, <4>3
    <3>3. \/ k = first
          \/ /\ e > deque[k].endpoint
             /\ \/ Key(e) < deque[k].key
                \/ Key(e) = deque[k].key /\ ~Reluctant(column)
      <4>1. k # first => e > deque[k].endpoint /\ ~Worse(deque[first], deque[k].key)
        BY <1>1, <1>2, <2>1, <3>2 DEF DequeIsMonotone, first, e
      <4>2. k # first => ~(Key(e) > deque[k].key) /\ ~(Key(e) = deque[k].key /\ Reluctant(column))
        BY <2>4, <4>1 DEF Worse
      <4>3. QED
        BY <3>2, <4>1, <4>2
    <3>4. k = first => deque[k].key = Key(e) /\ deque[k].endpoint = e
      BY <2>4 DEF first, e
    <3>5. cost + prefix[node] = Key(e)
      BY <1>2, <2>4, <3>2 DEF cost, first
    <3>6. \/ Key(e) < Key(stop)
          \/ Key(e) = Key(stop) /\ (e = stop \/ (Reluctant(column) /\ e < stop) \/ (~Reluctant(column) /\ e > stop))
      BY <2>4, <3>1, <3>2, <3>3, <3>4
    <3>7. cost <= EdgesFrom(f, node) /\ (Key(e) < Key(stop) => cost < EdgesFrom(f, node))
      BY <2>5, <3>1, <3>2, <3>5, <3>6
    <3>8. CASE e = stop
      BY <3>1, <3>7, <3>8
    <3>9. CASE e # stop
      <4>1. cost < EdgesFrom(f, node) \/ PrefersCount(column, e - node, stop - node)
        BY <1>2, <2>4, <3>2, <3>6, <3>7, <3>9 DEF PrefersCount
      <4>2. QED
        BY <2>5, <2>7, <3>1, <3>2, <3>7, <4>1
    <3>10. QED
      BY <3>8, <3>9
  <2>9. e # None /\ cost # None
    BY <2>4, <2>5, SentinelsAreNotNumbers
  <2>10. BestEndpoint(node, column, e)
    BY <2>7, <2>8, <2>9 DEF BestEndpoint
  <2>11. LeastCost(cost, node, column)
    BY <2>7, <2>8, <2>9 DEF LeastCost
  <2>12. QED
    BY <2>3, <2>10, <2>11
<1>6. QED
  BY <1>4, <1>5

(* What is possible, and what is preferred, depends on the input, which no  *)
(* step changes.                                                            *)
LEMMA InputDecides ==
    ASSUME input' = input
    PROVE  /\ \A i, c : Whole(i, c)' = Whole(i, c) /\ Partial(i, c)' = Partial(i, c)
           /\ \A f, i : EdgesFrom(f, i)' = EdgesFrom(f, i) /\ CostFrom(f, i)' = CostFrom(f, i)
           /\ \A c : ColumnCost(c)' = ColumnCost(c) /\ (Reluctant(c)' <=> Reluctant(c))
           /\ \A i, e, c : Reaches(i, e, c)' <=> Reaches(i, e, c)
<1>1. kinds' = kinds /\ cards' = cards /\ edges' = edges
  BY InputParts
<1>2. \A i, c : Partial(i, c)' = Partial(i, c)
  BY <1>1 DEF Partial, Matches
<1>3. \A i, c : Whole(i, c)' = Whole(i, c)
  BY <1>1, <1>2 DEF Whole, Allowed, Within, Given
<1>4. \A f, i : EdgesFrom(f, i)' = EdgesFrom(f, i) /\ CostFrom(f, i)' = CostFrom(f, i)
  BY <1>1 DEF EdgesFrom, CostFrom, LeftFrom, Within, Costly, LeftOver
<1>5. \A c : ColumnCost(c)' = ColumnCost(c) /\ (Reluctant(c)' <=> Reluctant(c))
  BY <1>1 DEF ColumnCost, Reluctant
<1>6. \A i, e, c : Reaches(i, e, c)' <=> Reaches(i, e, c)
  BY <1>1 DEF Reaches, Matches
<1>7. QED
  BY <1>2, <1>3, <1>4, <1>5, <1>6

(* Nor does what is best among them change.                                 *)
LEMMA InputJudges ==
    ASSUME input' = input
    PROVE  /\ \A i, c, e : BestEndpoint(i, c, e)' <=> BestEndpoint(i, c, e)
           /\ \A i, c, v : LeastCost(v, i, c)' <=> LeastCost(v, i, c)
           /\ \A i, c, v : LeastLoss(v, i, c)' <=> LeastLoss(v, i, c)
           /\ \A f, g : BetterPartition(f, g)' <=> BetterPartition(f, g)
           /\ \A f, g : BetterRecovery(f, g)' <=> BetterRecovery(f, g)
<1>1. /\ \A i, c : Whole(i, c)' = Whole(i, c) /\ Partial(i, c)' = Partial(i, c)
      /\ \A f, i : EdgesFrom(f, i)' = EdgesFrom(f, i) /\ CostFrom(f, i)' = CostFrom(f, i)
      /\ \A c : Reluctant(c)' <=> Reluctant(c)
  BY InputDecides
<1>2. \A i, c, e : BestEndpoint(i, c, e)' <=> BestEndpoint(i, c, e)
  BY <1>1 DEF BestEndpoint, StopsAt, PrefersCount
<1>3. \A i, c, v : LeastCost(v, i, c)' <=> LeastCost(v, i, c)
  BY <1>1 DEF LeastCost
<1>4. \A i, c, v : LeastLoss(v, i, c)' <=> LeastLoss(v, i, c)
  BY <1>1 DEF LeastLoss, Below
<1>5. \A f, g : BetterPartition(f, g)' <=> BetterPartition(f, g)
  BY <1>1 DEF BetterPartition, PrefersCount, Count, Within, Given
<1>6. \A f, g : BetterRecovery(f, g)' <=> BetterRecovery(f, g)
  <2>1. \A f, i : Stand(f, i)' = Stand(f, i)
    BY DEF Stand, Abstract!Canonical!StandsAt
  <2>2. \A f, i : Place(f, i)' = Place(f, i)
    BY <2>1 DEF Place
  <2>3. \A f, g : Below(CostFrom(f, 0), CostFrom(g, 0))' <=> Below(CostFrom(f, 0), CostFrom(g, 0))
    BY <1>1 DEF Below
  <2>4. QED
    BY <1>1, <2>2, <2>3 DEF BetterRecovery
<1>7. QED
  BY <1>2, <1>3, <1>4, <1>5, <1>6

(* Settling a node writes its endpoint and its cost, and no others.         *)
LEMMA SettleWritesNode ==
    ASSUME IInv, NeverExhausted', SettleNode
    PROVE  /\ pc = "window" /\ column' = column /\ column \in Column /\ node \in Position
           /\ pc' = (IF node = 0 THEN "column" ELSE "window")
           /\ node' = (IF node = 0 THEN 0 ELSE node - 1)
           /\ suffix' = (IF node = 0 THEN current' ELSE suffix)
           /\ \A c \in Column, i \in Position :
                 c # column \/ i # node => endpoints'[c][i] = endpoints[c][i]
           /\ \A i \in Position : i # node => current'[i] = current[i]
<1>1. TypeOK /\ Control
  BY DEF IInv
<1>2. PICK gone \in 0 .. Len(deque) : Settle(gone)
  BY DEF SettleNode
<1>3. pc = "window" /\ column' = column /\ column \in Column /\ node \in Position
  BY <1>1, WindowTypes DEF SettleNode
<1>4. pc' = AfterNode
  BY <1>2 DEF Settle, NeverExhausted
<1>5. /\ \A c \in Column, i \in Position : c # column \/ i # node => endpoints'[c][i] = endpoints[c][i]
      /\ \A i \in Position : i # node => current'[i] = current[i]
  <2>1. CASE gone = Len(deque)
    BY <1>2, <2>1 DEF Settle
  <2>2. CASE gone # Len(deque)
    BY <1>1, <1>2, <1>3, <2>2 DEF Settle, TypeOK
  <2>3. QED
    BY <2>1, <2>2
<1>6. QED
  BY <1>3, <1>4, <1>5 DEF SettleNode, AfterNode

-----------------------------------------------------------------------------
(* Every row stays best, and is best when it is finished.                  *)
LEMMA RowsStep == VInv /\ IInv' /\ [Next]_vars => RowsAreBest'
<1> SUFFICES ASSUME VInv, IInv', [Next]_vars PROVE RowsAreBest'
  OBVIOUS
<1>0. IInv /\ TypeOK /\ Control /\ RowsAreBest /\ NeverExhausted' /\ Columns \in Nat /\ Nodes \in Nat
  BY SizesAreNatural DEF VInv, IInv
<1>1. /\ \A i, c, e : BestEndpoint(i, c, e)' <=> BestEndpoint(i, c, e)
      /\ \A i, c, v : LeastCost(v, i, c)' <=> LeastCost(v, i, c)
  BY InputStays, InputJudges
<1>2. /\ \A i \in Position : i \in Nat /\ i <= Nodes
      /\ \A c \in Column : c \in Nat
      /\ column \in Nat /\ node \in Nat /\ node <= Nodes
  BY <1>0 DEF Position, Column, TypeOK
<1>3. CASE BeginColumn
  <2>1. pc = "column" /\ pc' = "prefix" /\ column' = column - 1 /\ suffix' = suffix /\ endpoints' = endpoints
    BY <1>3 DEF BeginColumn
  <2>2. \A c \in Column, i \in Position : Settled(c, i)' => Settled(c, i)
    BY <1>2, <2>1 DEF Settled
  <2>3. SuffixRow' = SuffixRow /\ Accepting
    BY <1>2, <2>1 DEF SuffixRow, Accepting
  <2>4. QED
    BY <1>0, <1>1, <2>1, <2>2, <2>3 DEF RowsAreBest
<1>4. CASE AccumulatePrefix \/ PushEndpoint
  <2>1. /\ pc' = pc /\ column' = column /\ suffix' = suffix /\ endpoints' = endpoints /\ current' = current
        /\ pc \in {"prefix", "window"} /\ (pc = "window" => node' = node)
    BY <1>4 DEF AccumulatePrefix, PushEndpoint
  <2>2. \A c \in Column, i \in Position : Settled(c, i)' => Settled(c, i)
    BY <2>1 DEF Settled
  <2>3. SuffixRow' = SuffixRow /\ Accepting
    BY <2>1 DEF SuffixRow, Accepting
  <2>4. QED
    BY <1>0, <1>1, <2>1, <2>2, <2>3 DEF RowsAreBest
<1>5. CASE BeginWindow
  <2>1. /\ pc = "prefix" /\ pc' = "window" /\ column' = column /\ suffix' = suffix
        /\ endpoints' = endpoints /\ current' = current /\ node' = node /\ node = Nodes
    BY <1>5 DEF BeginWindow
  <2>2. \A c \in Column, i \in Position : Settled(c, i)' => Settled(c, i)
    BY <1>2, <2>1 DEF Settled
  <2>3. SuffixRow' = SuffixRow /\ Accepting /\ node' + 1 .. Nodes = {}
    BY <1>0, <2>1 DEF SuffixRow, Accepting
  <2>4. QED
    BY <1>0, <1>1, <2>1, <2>2, <2>3 DEF RowsAreBest
<1>6. CASE SettleNode
  <2>1. /\ pc = "window" /\ column' = column /\ column \in Column /\ node \in Position
        /\ pc' = (IF node = 0 THEN "column" ELSE "window")
        /\ node' = (IF node = 0 THEN 0 ELSE node - 1)
        /\ suffix' = (IF node = 0 THEN current' ELSE suffix)
        /\ \A c \in Column, i \in Position :
              c # column \/ i # node => endpoints'[c][i] = endpoints[c][i]
        /\ \A i \in Position : i # node => current'[i] = current[i]
    BY <1>0, <1>6, SettleWritesNode
  <2>2. BestEndpoint(node, column, endpoints'[column][node]) /\ LeastCost(current'[node], node, column)
    <3>1. previousLo <= Lo /\ \E gone \in 0 .. Len(deque) : Settle(gone)
      BY <1>6 DEF SettleNode
    <3>2. QED
      BY <2>1, <3>1, FrontIsBest
  <2>3. ASSUME NEW c \in Column, NEW i \in Position, Settled(c, i)'
        PROVE  BestEndpoint(i, c, endpoints[c][i])'
    <3>1. CASE c = column /\ i = node
      BY <1>1, <2>1, <2>2, <3>1
    <3>2. CASE c # column \/ i # node
      <4>1. Settled(c, i)
        BY <1>2, <2>1, <2>3, <3>2 DEF Settled
      <4>2. QED
        BY <1>0, <1>1, <2>1, <3>2, <4>1 DEF RowsAreBest
    <3>3. QED
      BY <3>1, <3>2
  <2>4. \A i \in Position : i >= node => LeastCost(current'[i], i, column)
    <3>1. \A i \in Position : i >= node => i = node \/ i \in node + 1 .. Nodes
      BY <1>2
    <3>2. QED
      BY <1>0, <2>1, <2>2, <3>1 DEF RowsAreBest
  <2>5. CASE node = 0
    <3>1. \A i \in Position : LeastCost(suffix'[i], i, column)
      BY <1>2, <2>1, <2>4, <2>5
    <3>2. SuffixRow' = column /\ pc' = "column"
      BY <2>1, <2>5 DEF SuffixRow
    <3>3. \A i \in Position : LeastCost(suffix[i], i, SuffixRow)'
      BY <1>1, <3>1, <3>2
    <3>4. QED
      BY <2>3, <3>2, <3>3 DEF RowsAreBest
  <2>6. CASE node # 0
    <3>1. SuffixRow' = SuffixRow /\ Accepting /\ suffix' = suffix
      BY <2>1, <2>6 DEF SuffixRow, Accepting
    <3>2. \A i \in node' + 1 .. Nodes : i \in Position /\ i >= node
      BY <1>2, <2>1, <2>6 DEF Position
    <3>3. \A i \in node' + 1 .. Nodes : LeastCost(current[i], i, column)'
      BY <1>1, <2>1, <2>4, <3>2
    <3>4. \A i \in Position : LeastCost(suffix[i], i, SuffixRow)'
      BY <1>0, <1>1, <3>1 DEF RowsAreBest
    <3>5. QED
      BY <2>3, <3>3, <3>4 DEF RowsAreBest
  <2>7. QED
    BY <2>5, <2>6
<1>7. CASE DecideAcceptance
  <2>1. pc = "column" /\ column = 0 /\ pc' \in {"rebuild", "table"} /\ endpoints' = endpoints
    BY <1>7 DEF DecideAcceptance
  <2>2. \A c \in Column, i \in Position : Settled(c, i)
    BY <1>2, <2>1 DEF Settled
  <2>3. QED
    BY <1>0, <1>1, <2>1, <2>2 DEF RowsAreBest, Accepting
<1>8. CASE RebuildColumn \/ FinishRebuild \/ FillCell \/ Consume \/ Leave \/ Advance \/ FinishWalk
  <2>1. /\ endpoints' = endpoints
        /\ pc \notin {"column", "prefix", "window"} /\ pc' \notin {"column", "prefix", "window"}
    BY <1>8 DEF RebuildColumn, FinishRebuild, FillCell, Consume, Leave, Advance, FinishWalk, Walking
  <2>2. \A c \in Column, i \in Position : Settled(c, i)
    BY <2>1 DEF Settled
  <2>3. QED
    BY <1>0, <1>1, <2>1, <2>2 DEF RowsAreBest, Accepting
<1>9. CASE UNCHANGED vars
  <2>1. /\ pc' = pc /\ column' = column /\ suffix' = suffix /\ endpoints' = endpoints
        /\ current' = current /\ node' = node
    BY <1>9 DEF vars
  <2>2. /\ \A c \in Column, i \in Position : Settled(c, i)' <=> Settled(c, i)
        /\ SuffixRow' = SuffixRow /\ (Accepting' <=> Accepting)
    BY <2>1 DEF Settled, SuffixRow, Accepting
  <2>3. QED
    BY <1>0, <1>1, <2>1, <2>2 DEF RowsAreBest
<1> QED
  BY <1>3, <1>4, <1>5, <1>6, <1>7, <1>8, <1>9 DEF Next

(* The scan looks at one node after the other, and at one rule after the    *)
(* other.                                                                   *)
LEMMA NothingAheadStep == VInv /\ IInv' /\ [Next]_vars => NothingAhead'
<1> SUFFICES ASSUME VInv, IInv', [Next]_vars PROVE NothingAhead'
  OBVIOUS
<1>0. IInv /\ TypeOK /\ Control /\ NothingAhead /\ NeverExhausted' /\ Columns \in Nat /\ Nodes \in Nat
  BY SizesAreNatural DEF VInv, IInv
<1>2. /\ \A i \in Position : i \in Nat /\ i <= Nodes
      /\ \A c \in Column : c \in Nat
      /\ column \in Nat /\ node \in Nat /\ node <= Nodes
  BY <1>0 DEF Position, Column, TypeOK
<1>3. CASE BeginColumn
  <2>1. /\ pc = "column" /\ pc' = "prefix" /\ column' = column - 1 /\ endpoints' = endpoints
        /\ current' = [i \in Position |-> None]
    BY <1>3 DEF BeginColumn
  <2>2. \A c \in Column, i \in Position : Settled(c, i) => Settled(c, i)'
    BY <1>2, <2>1 DEF Settled
  <2>3. QED
    BY <1>0, <2>1, <2>2 DEF NothingAhead, Accepting
<1>4. CASE AccumulatePrefix \/ PushEndpoint \/ UNCHANGED vars
  <2>1. /\ pc' = pc /\ column' = column /\ endpoints' = endpoints /\ current' = current
        /\ pc # "prefix" => node' = node
    BY <1>4 DEF AccumulatePrefix, PushEndpoint, vars
  <2>2. \A c \in Column, i \in Position : Settled(c, i) <=> Settled(c, i)'
    BY <2>1 DEF Settled
  <2>3. QED
    BY <1>0, <2>1, <2>2 DEF NothingAhead, Accepting
<1>5. CASE BeginWindow
  <2>1. /\ pc = "prefix" /\ pc' = "window" /\ column' = column
        /\ endpoints' = endpoints /\ current' = current /\ node' = node /\ node = Nodes
    BY <1>5 DEF BeginWindow
  <2>2. \A c \in Column, i \in Position : Settled(c, i) => Settled(c, i)'
    BY <1>2, <2>1 DEF Settled
  <2>3. \A i \in 0 .. node' : i \in Position
    BY <2>1 DEF Position
  <2>4. QED
    BY <1>0, <2>1, <2>2, <2>3 DEF NothingAhead, Accepting
<1>6. CASE SettleNode
  <2>1. /\ pc = "window" /\ column' = column /\ column \in Column /\ node \in Position
        /\ pc' = (IF node = 0 THEN "column" ELSE "window")
        /\ node' = (IF node = 0 THEN 0 ELSE node - 1)
        /\ \A c \in Column, i \in Position :
              c # column \/ i # node => endpoints'[c][i] = endpoints[c][i]
        /\ \A i \in Position : i # node => current'[i] = current[i]
    BY <1>0, <1>6, SettleWritesNode
  <2>2. ASSUME NEW c \in Column, NEW i \in Position, ~Settled(c, i)'
        PROVE  endpoints'[c][i] = None
    <3>1. ~Settled(c, i) /\ (c # column \/ i # node)
      BY <1>2, <2>1, <2>2 DEF Settled
    <3>2. QED
      BY <1>0, <2>1, <3>1 DEF NothingAhead, Accepting
  <2>3. ASSUME pc' = "window", NEW i \in 0 .. node' PROVE current'[i] = None
    <3>1. i \in 0 .. node /\ i # node /\ i \in Position
      <4>1. node # 0 /\ node' = node - 1
        BY <2>1, <2>3
      <4>2. i \in 0 .. node - 1
        BY <4>1
      <4>3. QED
        BY <1>0, <1>2, <4>2 DEF Position
    <3>2. QED
      BY <1>0, <2>1, <3>1 DEF NothingAhead
  <2>4. QED
    BY <2>1, <2>2, <2>3 DEF NothingAhead
<1>7. CASE DecideAcceptance \/ RebuildColumn \/ FinishRebuild
  <2>1. pc' \notin {"column", "prefix", "window"}
    BY <1>7 DEF DecideAcceptance, RebuildColumn, FinishRebuild
  <2>2. QED
    BY <2>1 DEF NothingAhead, Accepting
<1>8. CASE FillCell \/ Consume \/ Leave \/ Advance \/ FinishWalk
  <2>1. pc' \notin {"column", "prefix", "window"}
    BY <1>8 DEF FillCell, Consume, Leave, Advance, FinishWalk, Walking
  <2>2. QED
    BY <2>1 DEF NothingAhead, Accepting
<1> QED
  BY <1>3, <1>4, <1>5, <1>6, <1>7, <1>8 DEF Next

(* The prefix sums count the costly nodes of the column.                   *)
LEMMA PrefixCountsStep == VInv /\ IInv' /\ [Next]_vars => PrefixCounts'
<1> SUFFICES ASSUME VInv, IInv', [Next]_vars PROVE PrefixCounts'
  OBVIOUS
<1>0. IInv /\ TypeOK /\ Control /\ PrefixCounts /\ NeverExhausted' /\ Nodes \in Nat
  BY SizesAreNatural DEF VInv, IInv
<1>1. \A c : ColumnCost(c)' = ColumnCost(c)
  BY InputStays, InputDecides
<1>2. \A c, i, k : Within(ColumnCost(c), i, k)' = Within(ColumnCost(c), i, k)
  BY <1>1 DEF Within
<1>3. CASE BeginColumn
  <2>1. pc' = "prefix" /\ node' = 0 /\ prefix' = [i \in Position |-> 0] /\ 0 \in Position
    BY <1>0, <1>3 DEF BeginColumn, Position
  <2>2. \A S : Within(S, 0, 0) = 0
    BY WithinEmpty
  <2>3. prefix'[0] = Within(ColumnCost(column'), 0, 0)
    BY <2>1, <2>2
  <2>4. \A i \in 0 .. node' : prefix'[i] = Within(ColumnCost(column'), 0, i)
    <3>1. \A i \in 0 .. node' : i = 0
      BY <2>1
    <3>2. QED
      BY <2>3, <3>1
  <2>5. QED
    BY <1>2, <2>1, <2>4 DEF PrefixCounts
<1>4. CASE AccumulatePrefix
  <2>1. /\ pc = "prefix" /\ pc' = "prefix" /\ node < Nodes /\ node' = node + 1 /\ column' = column
        /\ prefix' = [prefix EXCEPT ![node + 1] = prefix[node] + EdgeCost(node, column)]
    BY <1>4 DEF AccumulatePrefix
  <2>2. node \in Nat /\ node \in Node /\ column \in Column /\ node + 1 \in Position /\ Input
    BY <1>0, <2>1, SizesAreNatural DEF TypeOK, Control, Scanning, Column, Node, Position
  <2>3. /\ prefix'[node + 1] = prefix[node] + EdgeCost(node, column)
        /\ \A i \in 0 .. node : prefix'[i] = prefix[i]
    <3>1. \A i \in 0 .. node : i \in Position /\ i # node + 1
      BY <1>0, <2>1, <2>2 DEF Position
    <3>2. QED
      BY <1>0, <2>1, <2>2, <3>1 DEF TypeOK
  <2>4. Within(ColumnCost(column), 0, node + 1) = Within(ColumnCost(column), 0, node) + EdgeCost(node, column)
    <3>1. EdgeCost(node, column) = IF node \in ColumnCost(column) THEN 1 ELSE 0
      <4>1. edges[column][node] \in {None, 0, 1}
        BY <2>2 DEF Input
      <4>2. QED
        BY <2>2, <4>1, SentinelsAreNotNumbers DEF EdgeCost, Matches, ColumnCost
    <3>2. Within(ColumnCost(column), node, node + 1) = EdgeCost(node, column)
      <4>1. \A S : Within(S, node, node + 1) = (IF node \in S THEN 1 ELSE 0) + Within(S, node + 1, node + 1)
        <5>1. node \in Int /\ node + 1 \in Int /\ node < node + 1
          BY <2>2
        <5>2. QED
          BY <5>1, WithinFirst
      <4>2. Within(ColumnCost(column), node + 1, node + 1) = 0
        BY <2>2, WithinEmpty
      <4>3. QED
        BY <3>1, <4>1, <4>2
    <3>3. QED
      BY <2>2, <3>2, WithinSplits
  <2>5. \A i \in 0 .. node' : prefix'[i] = Within(ColumnCost(column), 0, i)
    <3>1. \A i \in 0 .. node' : i = node + 1 \/ i \in 0 .. node
      BY <2>1, <2>2
    <3>2. 0 .. node # {} /\ node \in 0 .. node
      BY <2>2
    <3>3. QED
      BY <1>0, <2>1, <2>3, <2>4, <3>1, <3>2 DEF PrefixCounts
  <2>6. QED
    BY <1>2, <2>1, <2>5 DEF PrefixCounts
<1>5. CASE BeginWindow
  <2>1. /\ pc = "prefix" /\ pc' = "window" /\ column' = column /\ prefix' = prefix /\ node = Nodes
    BY <1>5 DEF BeginWindow
  <2>2. \A i \in Position : prefix'[i] = Within(ColumnCost(column), 0, i)
    BY <1>0, <2>1 DEF PrefixCounts, Position
  <2>3. QED
    BY <1>2, <2>1, <2>2 DEF PrefixCounts
<1>6. CASE PushEndpoint \/ SettleNode \/ UNCHANGED vars
  <2>1. /\ prefix' = prefix /\ column' = column
        /\ pc' = "prefix" => pc = "prefix" /\ node' = node
        /\ pc' = "window" => pc = "window"
    <3>1. CASE PushEndpoint
      BY <3>1 DEF PushEndpoint
    <3>2. CASE SettleNode
      <4>1. pc = "window" /\ pc' \in {"column", "window"}
        BY <1>0, <3>2, SettleWritesNode
      <4>2. QED
        BY <3>2, <4>1 DEF SettleNode
    <3>3. CASE UNCHANGED vars
      BY <3>3 DEF vars
    <3>4. QED
      BY <1>6, <3>1, <3>2, <3>3
  <2>2. QED
    BY <1>0, <1>2, <2>1 DEF PrefixCounts
<1>7. CASE DecideAcceptance \/ RebuildColumn \/ FinishRebuild
  BY <1>7 DEF DecideAcceptance, RebuildColumn, FinishRebuild, PrefixCounts
<1>8. CASE FillCell \/ Consume \/ Leave \/ Advance \/ FinishWalk
  BY <1>8 DEF FillCell, Consume, Leave, Advance, FinishWalk, Walking, PrefixCounts
<1> QED
  BY <1>3, <1>4, <1>5, <1>6, <1>7, <1>8 DEF Next

(* An endpoint that enters the deque takes the place of those it is         *)
(* preferred to, and none that could be needed leaves it at the front.      *)
LEMMA DequeWindowStep == VInv /\ IInv' /\ [Next]_vars => DequeIsMonotone' /\ DequeCoversWindow'
<1> SUFFICES ASSUME VInv, IInv', [Next]_vars, pc' = "window" PROVE DequeIsMonotone' /\ DequeCoversWindow'
  BY DEF DequeIsMonotone, DequeCoversWindow
<1>0. IInv /\ TypeOK /\ Control /\ DequeIsMonotone /\ DequeCoversWindow /\ NeverExhausted' /\ Nodes \in Nat
  BY SizesAreNatural DEF VInv, IInv
<1>1. /\ \A c : Reluctant(c)' <=> Reluctant(c)
      /\ \A i, e, c : Reaches(i, e, c)' <=> Reaches(i, e, c)
  BY InputStays, InputDecides
<1>2. CASE BeginWindow
  <2>1. /\ Len(deque') = 0 /\ previousLo' = Nodes + 1
    BY <1>2 DEF BeginWindow
  <2>2. previousLo' .. Nodes = {} /\ 1 .. Len(deque') = {}
    BY <1>0, <2>1
  <2>3. QED
    BY <2>2 DEF DequeIsMonotone, DequeCoversWindow
<1>3. CASE PushEndpoint
  <2> DEFINE n     == previousLo - 1
             fresh == [endpoint |-> n, key |-> Key(n)]
  <2>1. /\ pc = "window" /\ column' = column /\ node' = node /\ suffix' = suffix /\ prefix' = prefix
        /\ previousLo' = n /\ previousLo > Lo
    BY <1>3 DEF PushEndpoint
  <2>2. /\ previousLo \in Nat /\ previousLo <= Nodes + 1 /\ Lo \in Nat
        /\ deque \in Seq(Entry) /\ Len(deque) \in Nat
        /\ \A k \in 1 .. Len(deque) : deque[k].endpoint \in Nat /\ deque[k].key \in Nat
        /\ \A i \in Position : suffix[i] # None => Key(i) \in Nat
    BY <1>0, <2>1, WindowTypes
  <2>3. n \in Nat /\ n \in Position
    BY <1>0, <2>1, <2>2 DEF Position
  <2>4. \A e : Key(e)' = Key(e)
    BY <2>1 DEF Key
  <2>5. \A e \in n .. Nodes : (e = n \/ e \in previousLo .. Nodes) /\ e \in Position /\ e \in Nat
    BY <2>2, <2>3 DEF Position
  <2>6. CASE suffix[n] = None
    <3>1. deque' = deque
      BY <1>3, <2>6 DEF PushEndpoint
    <3>2. DequeIsMonotone'
      <4>1. \A k \in 1 .. Len(deque) : deque[k].endpoint >= n
        BY <1>0, <2>1, <2>2 DEF DequeIsMonotone
      <4>2. QED
        BY <1>0, <1>1, <2>1, <2>4, <3>1, <4>1 DEF DequeIsMonotone, Worse
    <3>3. DequeCoversWindow'
      BY <1>0, <1>1, <2>1, <2>4, <2>5, <2>6, <3>1 DEF DequeCoversWindow
    <3>4. QED
      BY <3>2, <3>3
  <2>7. CASE suffix[n] # None
    <3>1. PICK kept \in 0 .. Len(deque) :
             /\ \A j \in kept + 1 .. Len(deque) : Worse(deque[j], Key(n))
             /\ kept > 0 => ~Worse(deque[kept], Key(n))
             /\ deque' = Append(SubSeq(deque, 1, kept), fresh)
      BY <1>3, <2>7 DEF PushEndpoint, Key
    <3>2. /\ Len(deque') = kept + 1
          /\ \A k \in 1 .. kept : deque'[k] = deque[k] /\ k \in 1 .. Len(deque)
          /\ deque'[kept + 1] = fresh
      <4>1. /\ SubSeq(deque, 1, kept) \in Seq(Entry)
            /\ Len(SubSeq(deque, 1, kept)) = kept
            /\ \A i \in 1 .. kept : SubSeq(deque, 1, kept)[i] = deque[i]
        BY <2>2, SubSeqProperties
      <4>2. QED
        BY <2>2, <3>1, <4>1
    <3>3. fresh.endpoint = n /\ fresh.key = Key(n) /\ Key(n) \in Nat
      BY <2>2, <2>3, <2>7
    <3> HIDE DEF fresh
    <3>4. \A k \in 1 .. Len(deque) :
             /\ deque[k].endpoint >= previousLo /\ deque[k].endpoint > n /\ deque[k].key = Key(deque[k].endpoint)
      BY <1>0, <2>1, <2>2 DEF DequeIsMonotone
    <3>5. \A j \in 1 .. kept : ~Worse(deque[j], Key(n))
      <4>1. SUFFICES ASSUME NEW j \in 1 .. kept PROVE ~Worse(deque[j], Key(n))
        OBVIOUS
      <4>2. CASE j = kept
        BY <3>1, <4>2
      <4>3. CASE j # kept
        <5>1. j < kept /\ kept \in 1 .. Len(deque) /\ j \in 1 .. Len(deque)
          BY <2>2, <4>3
        <5>2. ~Worse(deque[j], deque[kept].key) /\ ~Worse(deque[kept], Key(n))
          BY <1>0, <2>1, <3>1, <5>1 DEF DequeIsMonotone
        <5>3. deque[j].key \in Nat /\ deque[kept].key \in Nat
          BY <2>2, <5>1
        <5>4. QED
          BY <3>3, <5>2, <5>3 DEF Worse
      <4>4. QED
        BY <4>2, <4>3
    <3>6. DequeIsMonotone'
      <4>1. ASSUME NEW k \in 1 .. Len(deque')
            PROVE  deque'[k].endpoint >= n /\ deque'[k].key = Key(deque'[k].endpoint)
        <5>1. CASE k = kept + 1
          BY <2>3, <3>2, <3>3, <5>1
        <5>2. CASE k # kept + 1
          <6>1. k \in 1 .. kept
            BY <3>2, <5>2
          <6>2. deque'[k] = deque[k] /\ k \in 1 .. Len(deque)
            BY <3>2, <6>1
          <6>3. QED
            BY <2>2, <2>3, <3>4, <6>2
        <5>3. QED
          BY <5>1, <5>2
      <4>2. ASSUME NEW j \in 1 .. Len(deque'), NEW k \in 1 .. Len(deque'), j < k
            PROVE  deque'[j].endpoint > deque'[k].endpoint /\ ~Worse(deque'[j], deque'[k].key)
        <5>1. j \in 1 .. kept /\ deque'[j] = deque[j] /\ j \in 1 .. Len(deque)
          BY <3>2, <4>2
        <5>2. CASE k = kept + 1
          BY <3>2, <3>3, <3>4, <3>5, <5>1, <5>2
        <5>3. CASE k # kept + 1
          <6>1. k \in 1 .. kept
            BY <3>2, <5>3
          <6>2. deque'[k] = deque[k] /\ k \in 1 .. Len(deque)
            BY <3>2, <6>1
          <6>3. QED
            BY <1>0, <2>1, <4>2, <5>1, <6>2 DEF DequeIsMonotone
        <5>4. QED
          BY <5>2, <5>3
      <4>3. \A k \in 1 .. Len(deque') : (Key(deque[k].endpoint))' = Key(deque'[k].endpoint)
        BY <2>4
      <4>4. \A old, key : Worse(old, key)' <=> Worse(old, key)
        BY <1>1, <2>1 DEF Worse
      <4>5. QED
        BY <2>1, <4>1, <4>2, <4>3, <4>4 DEF DequeIsMonotone
    <3>7. DequeCoversWindow'
      <4>1. ASSUME NEW e \in n .. Nodes, suffix[e] # None, Reaches(node, e, column)
            PROVE  \E k \in 1 .. Len(deque') :
                      /\ deque'[k].endpoint <= e
                      /\ \/ deque'[k].key < Key(e)
                         \/ deque'[k].key = Key(e) /\ (deque'[k].endpoint = e \/ Reluctant(column))
        <5>0. kept + 1 \in 1 .. Len(deque') /\ e \in Nat /\ e >= n /\ Key(e) \in Nat
          BY <2>2, <2>3, <2>5, <3>2, <4>1
        <5>1. CASE e = n
          BY <2>3, <3>2, <3>3, <5>0, <5>1
        <5>2. CASE e # n
          <6>1. PICK k \in 1 .. Len(deque) :
                      /\ deque[k].endpoint <= e
                      /\ \/ deque[k].key < Key(e)
                         \/ deque[k].key = Key(e) /\ (deque[k].endpoint = e \/ Reluctant(column))
            BY <1>0, <2>1, <2>5, <4>1, <5>2 DEF DequeCoversWindow
          <6>2. CASE k <= kept
            <7>1. k \in 1 .. kept /\ k \in 1 .. Len(deque')
              BY <3>2, <6>2
            <7>2. QED
              BY <3>2, <6>1, <7>1
          <6>3. CASE k > kept
            <7>1. Worse(deque[k], Key(n)) /\ deque[k].key \in Nat
              BY <2>2, <3>1, <6>3
            <7>2. Key(n) < Key(e) \/ (Key(n) = Key(e) /\ Reluctant(column))
              BY <3>3, <5>0, <6>1, <7>1 DEF Worse
            <7>3. QED
              BY <3>2, <3>3, <5>0, <7>2
          <6>4. QED
            BY <2>2, <6>2, <6>3
        <5>3. QED
          BY <5>1, <5>2
      <4>2. QED
        BY <1>1, <2>1, <2>4, <4>1 DEF DequeCoversWindow
    <3>8. QED
      BY <3>6, <3>7
  <2>8. QED
    BY <2>6, <2>7
<1>4. CASE SettleNode
  <2>1. /\ pc = "window" /\ column' = column /\ column \in Column /\ node \in Position
        /\ node # 0 /\ node' = node - 1 /\ suffix' = suffix
    BY <1>0, <1>4, SettleWritesNode
  <2>2. prefix' = prefix /\ previousLo' = previousLo
    BY <1>4 DEF SettleNode
  <2>3. PICK gone \in 0 .. Len(deque) : Settle(gone)
    BY <1>4 DEF SettleNode
  <2>4. /\ previousLo \in Nat /\ deque \in Seq(Entry) /\ Len(deque) \in Nat /\ Input
        /\ \A k \in 1 .. Len(deque) : deque[k].endpoint \in Nat /\ deque[k].key \in Nat
    BY <1>0, <2>1, WindowTypes
  <2>5. deque' = SubSeq(deque, gone + 1, Len(deque)) /\ \A j \in 1 .. gone : ~Reaches(node, deque[j].endpoint, column)
    BY <2>3 DEF Settle
  <2>6. /\ Len(deque') = Len(deque) - gone
        /\ \A k \in 1 .. Len(deque') : gone + k \in 1 .. Len(deque) /\ deque'[k] = deque[gone + k]
    <3>1. Len(SubSeq(deque, gone + 1, Len(deque))) = Len(deque) - gone
      BY <2>4, SubSeqProperties
    <3>2. QED
      BY <2>4, <2>5, <3>1, TailOfSequence
  <2>7. /\ \A e : Key(e)' = Key(e)
        /\ \A old, key : Worse(old, key)' <=> Worse(old, key)
    BY <1>1, <2>1, <2>2 DEF Key, Worse
  <2>8. DequeIsMonotone'
    <3>1. \A j, k \in 1 .. Len(deque') : j < k => gone + j < gone + k
      BY <2>4, <2>6
    <3>2. QED
      BY <1>0, <2>1, <2>2, <2>6, <2>7, <3>1 DEF DequeIsMonotone
  <2>9. DequeCoversWindow'
    <3>1. ASSUME NEW e \in previousLo .. Nodes, suffix[e] # None, Reaches(node - 1, e, column)
          PROVE  \E k \in 1 .. Len(deque') :
                      /\ deque'[k].endpoint <= e
                      /\ \/ deque'[k].key < Key(e)
                         \/ deque'[k].key = Key(e) /\ (deque'[k].endpoint = e \/ Reluctant(column))
      <4>1. node \in Int /\ node - 1 \in Int /\ e \in Int /\ (node - 1) + 1 = node
        BY <1>0, <2>1, <2>4 DEF Position
      <4>2. Reaches(node, e, column)
        BY <2>1, <2>4, <3>1, <4>1, ReachesFromLater
      <4>3. PICK k \in 1 .. Len(deque) :
                      /\ deque[k].endpoint <= e
                      /\ \/ deque[k].key < Key(e)
                         \/ deque[k].key = Key(e) /\ (deque[k].endpoint = e \/ Reluctant(column))
        BY <1>0, <2>1, <3>1, <4>2 DEF DequeCoversWindow
      <4>4. Reaches(node, deque[k].endpoint, column)
        BY <2>1, <2>4, <4>1, <4>2, <4>3, ReachesShorter
      <4>5. k > gone
        BY <2>4, <2>5, <4>4
      <4>6. k - gone \in 1 .. Len(deque') /\ gone + (k - gone) = k
        BY <2>4, <2>6, <4>5
      <4>7. deque'[k - gone] = deque[k]
        BY <2>6, <4>6
      <4>8. QED
        BY <4>3, <4>6, <4>7
    <3>2. QED
      BY <1>1, <2>1, <2>2, <2>7, <3>1 DEF DequeCoversWindow
  <2>10. QED
    BY <2>8, <2>9
<1>5. CASE UNCHANGED vars
  <2>1. /\ pc' = pc /\ column' = column /\ node' = node /\ suffix' = suffix /\ prefix' = prefix
        /\ deque' = deque /\ previousLo' = previousLo
    BY <1>5 DEF vars
  <2>2. /\ \A e : Key(e)' = Key(e)
        /\ \A old, key : Worse(old, key)' <=> Worse(old, key)
    BY <1>1, <2>1 DEF Key, Worse
  <2>3. QED
    BY <1>0, <1>1, <2>1, <2>2 DEF DequeIsMonotone, DequeCoversWindow
<1>6. CASE BeginColumn \/ AccumulatePrefix \/ DecideAcceptance \/ RebuildColumn \/ FinishRebuild
  BY <1>6 DEF BeginColumn, AccumulatePrefix, DecideAcceptance, RebuildColumn, FinishRebuild
<1>7. CASE FillCell \/ Consume \/ Leave \/ Advance \/ FinishWalk
  BY <1>7 DEF FillCell, Consume, Leave, Advance, FinishWalk, Walking
<1> QED
  BY <1>2, <1>3, <1>4, <1>5, <1>6, <1>7 DEF Next

-----------------------------------------------------------------------------
(* Reconstruction keeps the best partition ahead of it.                    *)

(* A rule stops at one place.                                               *)
LEMMA StopsOnce ==
    ASSUME NEW f, NEW c, NEW i \in Nat, NEW d \in i .. Nodes, NEW e \in i .. Nodes,
           StopsAt(f, i, c, d), StopsAt(f, i, c, e)
    PROVE  d = e
<1>1. d \in Nat /\ e \in Nat /\ Nodes \in Nat
  BY SizesAreNatural
<1>2. d < e => d \in i .. Nodes - 1
  BY <1>1
<1>3. e < d => e \in i .. Nodes - 1
  BY <1>1
<1>4. QED
  BY <1>1, <1>2, <1>3 DEF StopsAt

(* A partition that stops elsewhere than at the best endpoint of a rule has *)
(* a better one that stops there and is the same before.                    *)
LEMMA BestEndpointWins ==
    ASSUME Input, NEW i \in Position, NEW c \in Column, NEW e \in Position, BestEndpoint(i, c, e),
           NEW f \in Whole(0, 0), f \in Whole(i, c), \A t \in 0 .. i - 1 : f[t] < c
    PROVE  \E g \in Whole(0, 0) :
              /\ g = f \/ BetterPartition(g, f)
              /\ \A t \in 0 .. i - 1 : g[t] = f[t]
              /\ g \in Whole(i, c) /\ StopsAt(g, i, c, e)
<1>0. /\ i \in Nat /\ i <= Nodes /\ Nodes \in Nat /\ c \in Nat /\ c \in 0 .. Columns
      /\ \A t \in 0 .. i - 1 : t \in Node /\ t < i
      /\ \A t \in i .. Nodes - 1 : t \in Node /\ ~(t < i)
  BY SizesAreNatural DEF Position, Column, Node
<1>1. CASE StopsAt(f, i, c, e)
  BY <1>1
<1>2. CASE ~StopsAt(f, i, c, e)
  <2>1. e # None
    BY SentinelsAreNotNumbers, SizesAreNatural DEF Position
  <2>2. PICK h \in Whole(i, c), k \in i .. Nodes :
            /\ StopsAt(h, i, c, e) /\ StopsAt(f, i, c, k)
            /\ \/ EdgesFrom(h, i) < EdgesFrom(f, i)
               \/ EdgesFrom(h, i) = EdgesFrom(f, i) /\ PrefersCount(c, e - i, k - i)
    BY <1>2, <2>1 DEF BestEndpoint
  <2> DEFINE g == Glue(f, h, i)
  <2>3. /\ g \in Whole(0, 0) /\ g \in Whole(i, c)
        /\ \A t \in Node : g[t] = IF t < i THEN f[t] ELSE h[t]
        /\ EdgesFrom(g, 0) = EdgesFrom(f, 0) - EdgesFrom(f, i) + EdgesFrom(h, i)
        /\ \A d \in Column : d < c => Count(g, d) = Count(f, d)
        /\ \A d \in Column : d >= c =>
              /\ Count(g, d) = Within(Given(h, d), i, Nodes)
              /\ Count(f, d) = Within(Given(f, d), i, Nodes)
    BY <1>0, GluedPartition
  <2> HIDE DEF g
  <2>4. \A t \in 0 .. i - 1 : g[t] = f[t]
    BY <1>0, <2>3
  <2>5. StopsAt(g, i, c, e)
    BY <1>0, <2>2, <2>3 DEF StopsAt
  <2>6. e \in i .. Nodes /\ e \in Int /\ k \in Int
    BY <1>0, <2>2 DEF StopsAt
  <2>7. Count(g, c) = e - i /\ Count(f, c) = k - i
    <3>1. IsRun(Given(h, c), i, e, Nodes) /\ IsRun(Given(f, c), i, k, Nodes)
      BY <1>0, <2>2, <2>6 DEF IsRun, Given, StopsAt
    <3>2. Within(Given(h, c), i, Nodes) = e - i /\ Within(Given(f, c), i, Nodes) = k - i
      BY <1>0, <2>6, <3>1, WithinRun
    <3>3. QED
      BY <1>0, <2>3, <3>2
  <2>8. /\ EdgesFrom(f, 0) \in Nat /\ EdgesFrom(f, i) \in Nat /\ EdgesFrom(h, i) \in Nat
    BY EdgesAreNatural, CostsAreNatural
  <2>9. BetterPartition(g, f)
    <3>1. CASE EdgesFrom(h, i) < EdgesFrom(f, i)
      BY <2>3, <2>8, <3>1 DEF BetterPartition
    <3>2. CASE EdgesFrom(h, i) = EdgesFrom(f, i) /\ PrefersCount(c, e - i, k - i)
      <4>1. EdgesFrom(g, 0) = EdgesFrom(f, 0)
        BY <2>3, <2>8, <3>2
      <4>2. \A d \in 0 .. c - 1 : Count(g, d) = Count(f, d)
        <5>1. \A d \in 0 .. c - 1 : d \in Column /\ d < c
          BY <1>0, SizesAreNatural DEF Column
        <5>2. QED
          BY <2>3, <5>1
      <4>3. PrefersCount(c, Count(g, c), Count(f, c))
        BY <2>7, <3>2
      <4>4. QED
        BY <4>1, <4>2, <4>3 DEF BetterPartition
    <3>3. QED
      BY <2>2, <3>1, <3>2
  <2>10. QED
    BY <2>3, <2>4, <2>5, <2>9
<1>3. QED
  BY <1>1, <1>2

(* Stopping each rule at its recorded endpoint keeps the best partition     *)
(* ahead.                                                                   *)
LEMMA RebuildStep == VInv /\ IInv' /\ [Next]_vars => RebuildsTheBest'
<1> SUFFICES ASSUME VInv, IInv', [Next]_vars, pc' = "rebuild" PROVE RebuildsTheBest'
  BY DEF RebuildsTheBest
<1>0. /\ IInv /\ TypeOK /\ Control /\ RowsAreBest /\ RebuildsTheBest /\ AssignedBehind
      /\ NeverExhausted' /\ Nodes \in Nat /\ Columns \in Nat
  BY SizesAreNatural DEF VInv, IInv
<1>1. /\ \A i, c : Whole(i, c)' = Whole(i, c)
      /\ \A f, g : BetterPartition(f, g)' <=> BetterPartition(f, g)
  BY InputStays, InputDecides, InputJudges
<1>2. CASE DecideAcceptance
  <2>1. pc = "column" /\ column = 0 /\ suffix[0] # None /\ node' = 0 /\ column' = 0
    BY <1>2 DEF DecideAcceptance
  <2>2. LeastCost(suffix[0], 0, 0)
    <3>1. 0 \in Position /\ SuffixRow = 0 /\ Accepting
      BY <1>0, <2>1 DEF Position, SuffixRow, Accepting
    <3>2. QED
      BY <1>0, <3>1 DEF RowsAreBest
  <2>3. Whole(0, 0) # {}
    BY <2>1, <2>2 DEF LeastCost
  <2>4. \A f : Agrees(f)'
    BY <2>1 DEF Agrees
  <2>5. QED
    BY <1>1, <2>1, <2>3, <2>4 DEF RebuildsTheBest
<1>3. CASE RebuildColumn
  <2> DEFINE e == endpoints[column][node]
  <2>1. /\ pc = "rebuild" /\ column < Columns /\ e # None
        /\ assigned' = [i \in Node |-> IF i \in node .. e - 1 THEN column ELSE assigned[i]]
        /\ node' = e /\ column' = column + 1
    BY <1>3 DEF RebuildColumn
  <2>2. /\ column \in Column /\ node \in Position /\ node \in Nat /\ node <= Nodes
        /\ e \in Position /\ e \in Nat /\ Input
    BY <1>0, <2>1 DEF TypeOK, Column, Position
  <2>3. BestEndpoint(node, column, e)
    <3>1. Settled(column, node)
      BY <2>1 DEF Settled
    <3>2. QED
      BY <1>0, <2>2, <3>1 DEF RowsAreBest
  <2> HIDE DEF e
  <2>4. Whole(0, 0) # {} /\ \A g \in Whole(0, 0) : \E f \in Whole(0, 0) :
                              /\ f = g \/ BetterPartition(f, g)
                              /\ Agrees(f) /\ f \in Whole(node, column)
    BY <1>0, <2>1 DEF RebuildsTheBest
  <2>5. ASSUME NEW g \in Whole(0, 0)
        PROVE  \E f \in Whole(0, 0) :
                  /\ f = g \/ BetterPartition(f, g)
                  /\ Agrees(f)' /\ f \in Whole(e, column + 1)
    <3>1. PICK f \in Whole(0, 0) : /\ f = g \/ BetterPartition(f, g)
                                   /\ Agrees(f) /\ f \in Whole(node, column)
      BY <2>4
    <3>2. \A t \in 0 .. node - 1 : f[t] < column
      <4>1. SUFFICES ASSUME NEW t \in 0 .. node - 1 PROVE f[t] < column
        OBVIOUS
      <4>2. t \in Node /\ t \in 0 .. Nodes - 1
        BY <1>0, <2>2 DEF Node
      <4>3. f[t] = assigned[t] /\ f[t] # None
        BY <3>1, <4>2 DEF Agrees, Whole
      <4>4. QED
        BY <1>0, <2>1, <4>2, <4>3 DEF AssignedBehind
    <3>3. PICK h \in Whole(0, 0) :
              /\ h = f \/ BetterPartition(h, f)
              /\ \A t \in 0 .. node - 1 : h[t] = f[t]
              /\ h \in Whole(node, column) /\ StopsAt(h, node, column, e)
      BY <2>2, <2>3, <3>1, <3>2, BestEndpointWins
    <3>4. h = g \/ BetterPartition(h, g)
      BY <3>1, <3>3, BetterPartitionTransitive
    <3>5. h \in Whole(e, column + 1) /\ node <= e
      <4>1. PICK k \in node .. Nodes : StopsAt(h, node, column, k) /\ h \in Whole(k, column + 1)
        BY <2>2, <3>3, PartitionHasRun
      <4>2. e \in node .. Nodes
        BY <3>3 DEF StopsAt
      <4>3. k = e
        BY <2>2, <3>3, <4>1, <4>2, StopsOnce
      <4>4. QED
        BY <2>2, <4>1, <4>2, <4>3
    <3>6. Agrees(h)'
      <4>1. SUFFICES ASSUME NEW t \in 0 .. e - 1 PROVE h[t] = assigned'[t]
        BY <2>1 DEF Agrees
      <4>2. t \in Node /\ t \in 0 .. Nodes - 1
        BY <1>0, <2>2 DEF Node, Position
      <4>3. CASE t < node
        <5>1. t \in 0 .. node - 1 /\ ~(t \in node .. e - 1)
          BY <2>2, <4>3
        <5>2. QED
          BY <2>1, <3>1, <3>3, <4>2, <5>1 DEF Agrees
      <4>4. CASE t >= node
        <5>1. t \in node .. Nodes - 1 /\ t \in node .. e - 1 /\ t < e
          BY <2>2, <4>2, <4>4
        <5>2. h[t] = column
          BY <3>3, <5>1 DEF StopsAt
        <5>3. QED
          BY <2>1, <4>2, <5>1, <5>2
      <4>5. QED
        BY <2>2, <4>2, <4>3, <4>4
    <3>7. QED
      BY <3>4, <3>5, <3>6
  <2>6. QED
    BY <1>1, <2>1, <2>4, <2>5 DEF RebuildsTheBest
<1>4. CASE UNCHANGED vars
  <2>1. pc' = pc /\ node' = node /\ column' = column /\ assigned' = assigned
    BY <1>4 DEF vars
  <2>2. \A f : Agrees(f)' <=> Agrees(f)
    BY <2>1 DEF Agrees
  <2>3. QED
    BY <1>0, <1>1, <2>1, <2>2 DEF RebuildsTheBest
<1>5. CASE BeginColumn \/ AccumulatePrefix \/ BeginWindow \/ PushEndpoint \/ FinishRebuild
  BY <1>5 DEF BeginColumn, AccumulatePrefix, BeginWindow, PushEndpoint, FinishRebuild
<1>6. CASE SettleNode
  BY <1>0, <1>6, SettleWritesNode
<1>7. CASE FillCell \/ Consume \/ Leave \/ Advance \/ FinishWalk
  BY <1>7 DEF FillCell, Consume, Leave, Advance, FinishWalk, Walking
<1> QED
  BY <1>2, <1>3, <1>4, <1>5, <1>6, <1>7 DEF Next

(* Recovery starts, and ends, only where no partition is possible.          *)
LEMMA NoPartitionStep == VInv /\ IInv' /\ [Next]_vars => NoPartition'
<1> SUFFICES ASSUME VInv, IInv', [Next]_vars, (pc \in {"table", "walk"} \/ (pc = "done" /\ ~accepted))'
             PROVE  Whole(0, 0) = {}
  BY InputStays, InputDecides DEF NoPartition
<1>0. IInv /\ Control /\ RowsAreBest /\ NoPartition /\ NeverExhausted' /\ Nodes \in Nat
  BY SizesAreNatural DEF VInv, IInv
<1>1. CASE DecideAcceptance
  <2>1. pc = "column" /\ column = 0 /\ suffix[0] = None
    BY <1>1 DEF DecideAcceptance
  <2>2. LeastCost(suffix[0], 0, 0)
    <3>1. 0 \in Position /\ SuffixRow = 0 /\ Accepting
      BY <1>0, <2>1 DEF Position, SuffixRow, Accepting
    <3>2. QED
      BY <1>0, <3>1 DEF RowsAreBest
  <2>3. QED
    BY <2>1, <2>2 DEF LeastCost
<1>2. CASE FillCell \/ Consume \/ Leave \/ Advance \/ FinishWalk
  BY <1>0, <1>2 DEF FillCell, Consume, Leave, Advance, FinishWalk, Walking, NoPartition
<1>3. CASE UNCHANGED vars
  BY <1>0, <1>3 DEF vars, NoPartition
<1>4. CASE BeginColumn \/ AccumulatePrefix \/ BeginWindow \/ PushEndpoint
  BY <1>4 DEF BeginColumn, AccumulatePrefix, BeginWindow, PushEndpoint
<1>5. CASE SettleNode
  BY <1>0, <1>5, SettleWritesNode
<1>6. CASE RebuildColumn \/ FinishRebuild
  BY <1>0, <1>6 DEF RebuildColumn, FinishRebuild, NeverExhausted
<1> QED
  BY <1>1, <1>2, <1>3, <1>4, <1>5, <1>6 DEF Next

(* The counts are those of the assignment, in whichever loop it grows.      *)
LEMMA CountsStep == VInv /\ IInv' /\ [Next]_vars => CountsAreExact'
<1> SUFFICES ASSUME VInv, IInv', [Next]_vars, NEW c \in Column
             PROVE  counts'[c] = Count(assigned', c)
  BY DEF CountsAreExact, Count, Within, Given
<1>0. /\ IInv /\ TypeOK /\ Control /\ CountsAreExact /\ AssignedBehind
      /\ Nodes \in Nat /\ Columns \in Nat /\ NeverExhausted'
      /\ assigned \in [Node -> Column \union {None}] /\ counts \in [Column -> Nat]
      /\ node \in Nat /\ node <= Nodes
  <2>1. IInv /\ TypeOK /\ Control /\ CountsAreExact /\ AssignedBehind /\ NeverExhausted'
    BY DEF VInv, IInv
  <2>2. QED
    BY <2>1, SizesAreNatural DEF TypeOK, Position
<1>1. \A S, i, j, k : i \in 0 .. Nodes /\ j \in i .. Nodes /\ k \in j .. Nodes =>
         /\ Within(S, i, k) = Within(S, i, j) + Within(S, j, k)
         /\ Within(S, i, k) \in Nat /\ Within(S, i, j) \in Nat /\ Within(S, j, k) \in Nat
  BY <1>0, WithinSplits, WithinIsNatural
<1>2. CASE RebuildColumn
  <2> DEFINE e == endpoints[column][node]
  <2>1. /\ pc = "rebuild" /\ column < Columns /\ e # None
        /\ assigned' = [i \in Node |-> IF i \in node .. e - 1 THEN column ELSE assigned[i]]
        /\ counts' = [counts EXCEPT ![column] = e - node]
    BY <1>0, <1>2 DEF RebuildColumn, NeverExhausted
  <2>2. /\ column \in Column /\ column \in Nat /\ node \in Position
        /\ e \in Position /\ e \in Nat /\ e <= Nodes /\ node <= e /\ Input
    <3>1. column \in Column /\ column \in Nat /\ node \in Position /\ e \in Position /\ e \in Nat /\ e <= Nodes /\ Input
      BY <1>0, <2>1 DEF TypeOK, Column, Position
    <3>2. node + cards[column].min <= e /\ cards[column].min \in Nat
      BY <1>0, <2>1, <3>1, CardinalityTypes DEF IInv, EndpointsChain
    <3>3. QED
      BY <1>0, <3>1, <3>2
  <2> HIDE DEF e
  <2>3. /\ \A t \in Node : t >= node => assigned[t] = None
        /\ \A t \in Node : assigned[t] # None => assigned[t] < column
    <3>1. Assigning
      BY <2>1 DEF Assigning
    <3>2. QED
      BY <1>0, <2>1, <3>1 DEF AssignedBehind
  <2>4. column # None /\ c # None
    BY <1>0, <2>2, SentinelsAreNotNumbers DEF Column
  <2>5. CASE c # column
    <3>1. Given(assigned', c) = Given(assigned, c)
      BY <1>0, <2>1, <2>2, <2>3, <2>4, <2>5 DEF Given
    <3>2. counts'[c] = counts[c]
      BY <1>0, <2>1, <2>5
    <3>3. QED
      BY <1>0, <3>1, <3>2 DEF CountsAreExact, Count
  <2>6. CASE c = column
    <3> DEFINE run == Given(assigned', c)
    <3>1. \A t \in Node : t \in run <=> (node <= t /\ t < e)
      <4>1. ASSUME NEW t \in Node PROVE t \in run <=> (node <= t /\ t < e)
        <5>1. t \in Int /\ t \in run <=> (t \in node .. e - 1 \/ assigned[t] = column)
          BY <2>1, <2>6, SizesAreNatural DEF Given, Node
        <5>2. assigned[t] # column
          BY <2>2, <2>3, <2>4, <4>1
        <5>3. QED
          BY <2>2, <5>1, <5>2, <4>1, SizesAreNatural DEF Node
      <4>2. QED
        BY <4>1
    <3> HIDE DEF run
    <3>2. IsRun(run, 0, 0, node) /\ IsRun(run, node, e, Nodes)
      <4>1. \A t \in 0 .. Nodes - 1 : t \in Node
        BY DEF Node
      <4>2. QED
        BY <1>0, <2>2, <3>1, <4>1 DEF IsRun
    <3>3. Within(run, 0, node) = 0 /\ Within(run, node, Nodes) = e - node
      BY <1>0, <2>2, <3>2, WithinRun
    <3>4. Within(run, 0, Nodes) = e - node
      BY <1>0, <1>1, <2>2, <3>3
    <3>5. QED
      BY <1>0, <2>1, <2>6, <3>4 DEF Count, run
  <2>7. QED
    BY <2>5, <2>6
<1>3. CASE Consume
  <2>1. /\ pc = "walk" /\ node < Nodes /\ column < Columns
        /\ assigned' = [assigned EXCEPT ![node] = column]
        /\ counts' = [counts EXCEPT ![column] = @ + 1]
    BY <1>3 DEF Consume, Walking, ConsumeKeepsCost, CanConsume
  <2>2. node \in Node /\ column \in Column /\ node + 1 \in Nat
    BY <1>0, <2>1 DEF TypeOK, Column, Node
  <2>3. assigned[node] = None
    BY <1>0, <2>1, <2>2 DEF AssignedBehind, Assigning
  <2>4. \A t \in Node : t # node => assigned'[t] = assigned[t]
    BY <1>0, <2>1
  <2>5. assigned'[node] = column /\ column # None /\ c # None
    BY <1>0, <2>1, <2>2, SentinelsAreNotNumbers DEF Column
  <2>6. CASE c # column
    <3>1. Given(assigned', c) = Given(assigned, c)
      BY <2>3, <2>4, <2>5, <2>6 DEF Given
    <3>2. counts'[c] = counts[c]
      BY <1>0, <2>1, <2>6
    <3>3. QED
      BY <1>0, <3>1, <3>2 DEF CountsAreExact, Count
  <2>7. CASE c = column
    <3> DEFINE was == Given(assigned, c)
               is  == Given(assigned', c)
    <3>1. /\ node \in is /\ node \notin was
          /\ \A t \in Node : t # node => (t \in is <=> t \in was)
      BY <2>2, <2>3, <2>4, <2>5, <2>7 DEF Given
    <3> HIDE DEF was, is
    <3>2. /\ \A t \in 0 .. node - 1 : t \in is <=> t \in was
          /\ \A t \in node + 1 .. Nodes - 1 : t \in is <=> t \in was
      BY <1>0, <2>1, <3>1 DEF Node
    <3>3. Within(is, 0, node) = Within(was, 0, node) /\ Within(is, node + 1, Nodes) = Within(was, node + 1, Nodes)
      BY <1>0, <2>2, <3>2, WithinSame
    <3>4. \A S : Within(S, node, Nodes) = (IF node \in S THEN 1 ELSE 0) + Within(S, node + 1, Nodes)
      BY <1>0, <2>1, WithinFirst
    <3>5. Within(was, node + 1, Nodes) \in Nat
      BY <1>0, <2>2, WithinIsNatural
    <3>6. Within(is, 0, Nodes) = Within(was, 0, Nodes) + 1
      <4>1. \A S : Within(S, 0, Nodes) = Within(S, 0, node) + Within(S, node, Nodes) /\ Within(S, 0, node) \in Nat
        BY <1>0, <1>1
      <4>2. QED
        BY <3>1, <3>3, <3>4, <3>5, <4>1
    <3>7. counts'[c] = counts[c] + 1
      BY <1>0, <2>1, <2>7
    <3>8. QED
      BY <1>0, <3>6, <3>7 DEF CountsAreExact, Count, was, is
  <2>8. QED
    BY <2>6, <2>7
<1>4. CASE BeginColumn \/ AccumulatePrefix \/ BeginWindow \/ PushEndpoint \/ SettleNode \/ DecideAcceptance
  BY <1>0, <1>4 DEF BeginColumn, AccumulatePrefix, BeginWindow, PushEndpoint, SettleNode, DecideAcceptance,
                    CountsAreExact
<1>5. CASE FinishRebuild \/ FillCell \/ Leave \/ Advance \/ FinishWalk \/ UNCHANGED vars
  BY <1>0, <1>5 DEF FinishRebuild, FillCell, Leave, Advance, FinishWalk, vars, CountsAreExact
<1> QED
  BY <1>2, <1>3, <1>4, <1>5 DEF Next

-----------------------------------------------------------------------------
(* Recovery: every cell of the table is the least loss.                    *)

(* Costs are compared as numbers.                                          *)
LEMMA CostsCompare ==
    ASSUME NEW a \in Cost, NEW b \in Cost
    PROVE  /\ ~Below(a, b) <=> (a = b \/ Below(b, a))
           /\ Cheaper(a, b) \in {a, b} /\ ~Below(a, Cheaper(a, b)) /\ ~Below(b, Cheaper(a, b))
           /\ ~Below(a, a)
<1>1. /\ a = [unassigned |-> a.unassigned, edge |-> a.edge] /\ a.unassigned \in Nat /\ a.edge \in Nat
      /\ b = [unassigned |-> b.unassigned, edge |-> b.edge] /\ b.unassigned \in Nat /\ b.edge \in Nat
  BY DEF Cost
<1>2. a.unassigned = b.unassigned /\ a.edge = b.edge => a = b
  BY <1>1
<1>3. QED
  BY <1>1, <1>2 DEF Below, Cheaper

(* Costs are ordered.                                                       *)
LEMMA CostsChain ==
    ASSUME NEW a \in Cost, NEW b \in Cost, NEW c \in Cost
    PROVE  /\ ~Below(a, b) /\ ~Below(b, c) => ~Below(a, c)
           /\ ~Below(a, b) /\ Below(c, b) => Below(c, a)
           /\ Below(a, b) /\ Below(b, c) => Below(a, c)
BY DEF Cost, Below

(* What consuming or leaving a node costs is the cost of the assignment     *)
(* that does so, and grows with the cost of what follows.                   *)
LEMMA TransitionCosts ==
    ASSUME TypeOK, NEW i \in Node, NEW c \in 0 .. Columns, NEW f \in Assignment
    PROVE  /\ CostFrom(f, i) \in Cost /\ CostFrom(f, i + 1) \in Cost
           /\ table[i][c] \in Cost /\ table[i + 1][c] \in Cost /\ LeaveCost(i, c) \in Cost
           /\ CanConsume(i, c) => ConsumeCost(i, c) \in Cost
           /\ f[i] = None =>
                 /\ CostFrom(f, i + 1) = table[i + 1][c] => CostFrom(f, i) = LeaveCost(i, c)
                 /\ ~Below(CostFrom(f, i + 1), table[i + 1][c]) => ~Below(CostFrom(f, i), LeaveCost(i, c))
           /\ f[i] = c /\ CanConsume(i, c) =>
                 /\ CostFrom(f, i + 1) = table[i + 1][c] => CostFrom(f, i) = ConsumeCost(i, c)
                 /\ ~Below(CostFrom(f, i + 1), table[i + 1][c]) => ~Below(CostFrom(f, i), ConsumeCost(i, c))
<1>0. Input /\ i \in Position /\ i + 1 \in Position
  BY SizesAreNatural DEF TypeOK, Node, Position
<1>1. /\ EdgesFrom(f, i) \in Nat /\ LeftFrom(f, i) \in Nat /\ CostFrom(f, i) \in Cost
      /\ EdgesFrom(f, i + 1) \in Nat /\ LeftFrom(f, i + 1) \in Nat /\ CostFrom(f, i + 1) \in Cost
  BY <1>0, CostsAreNatural
<1>2. table[i][c] \in Cost /\ table[i + 1][c] \in Cost
  BY <1>0 DEF TypeOK
<1>3. LeaveCost(i, c) \in Cost
  BY <1>2 DEF LeaveCost, Plus, Cost
<1>4. CanConsume(i, c) => EdgeCost(i, c) \in Nat /\ ConsumeCost(i, c) \in Cost
  <2>1. CanConsume(i, c) => EdgeCost(i, c) \in Nat
    <3>1. CanConsume(i, c) => c \in Column
      BY SizesAreNatural DEF CanConsume, Column
    <3>2. QED
      BY <1>0, <3>1, EdgeCostIsNatural
  <2>2. QED
    BY <1>2, <2>1 DEF ConsumeCost, Plus, Cost
<1>5. /\ EdgesFrom(f, i) = (IF f[i] # None /\ edges[f[i]][i] = 1 THEN 1 ELSE 0) + EdgesFrom(f, i + 1)
      /\ LeftFrom(f, i) = (IF f[i] = None THEN 1 ELSE 0) + LeftFrom(f, i + 1)
  BY CostOfFirst
<1> DEFINE rest == table[i + 1][c]
<1>6. rest.unassigned \in Nat /\ rest.edge \in Nat /\ rest = [unassigned |-> rest.unassigned, edge |-> rest.edge]
  BY <1>2 DEF Cost
<1>7. LeaveCost(i, c) = [unassigned |-> rest.unassigned + 1, edge |-> rest.edge]
  BY <1>6 DEF LeaveCost, Plus
<1>8. CanConsume(i, c) =>
        ConsumeCost(i, c) = [unassigned |-> rest.unassigned, edge |-> rest.edge + EdgeCost(i, c)]
  BY <1>4, <1>6 DEF ConsumeCost, Plus
<1> HIDE DEF rest
<1>9. ASSUME f[i] = None
      PROVE  /\ CostFrom(f, i + 1) = rest => CostFrom(f, i) = LeaveCost(i, c)
             /\ ~Below(CostFrom(f, i + 1), rest) => ~Below(CostFrom(f, i), LeaveCost(i, c))
  <2>1. EdgesFrom(f, i) = EdgesFrom(f, i + 1) /\ LeftFrom(f, i) = LeftFrom(f, i + 1) + 1
    BY <1>1, <1>5, <1>9
  <2>2. QED
    BY <1>1, <1>6, <1>7, <2>1 DEF CostFrom, Below
<1>10. ASSUME f[i] = c, CanConsume(i, c)
       PROVE  /\ CostFrom(f, i + 1) = rest => CostFrom(f, i) = ConsumeCost(i, c)
              /\ ~Below(CostFrom(f, i + 1), rest) => ~Below(CostFrom(f, i), ConsumeCost(i, c))
  <2>1. c # None /\ c \in Column
    BY <1>10, SizesAreNatural, SentinelsAreNotNumbers DEF CanConsume, Column
  <2>2. EdgeCost(i, c) = IF edges[c][i] = 1 THEN 1 ELSE 0
    <3>1. edges[c][i] \in {None, 0, 1}
      BY <1>0, <2>1 DEF Input
    <3>2. QED
      BY <3>1, SentinelsAreNotNumbers DEF EdgeCost, Matches
  <2>3. EdgesFrom(f, i) = EdgesFrom(f, i + 1) + EdgeCost(i, c) /\ LeftFrom(f, i) = LeftFrom(f, i + 1)
    BY <1>1, <1>5, <1>10, <2>1, <2>2
  <2>4. EdgeCost(i, c) \in Nat
    BY <2>2
  <2>5. QED
    BY <1>1, <1>6, <1>8, <1>10, <2>3, <2>4 DEF CostFrom, Below
<1>11. QED
  BY <1>1, <1>2, <1>3, <1>4, <1>9, <1>10 DEF rest

(* Whatever becomes of a node costs at least what its transition costs.     *)
LEMMA LossAtLeast ==
    ASSUME TypeOK, NEW i \in Node, NEW c \in 0 .. Columns,
           LeastLoss(table[i + 1][c], i + 1, c), c < Columns => LeastLoss(table[i][c + 1], i, c + 1),
           NEW f \in Partial(i, c)
    PROVE  \/ f[i] = None /\ ~Below(CostFrom(f, i), LeaveCost(i, c))
           \/ f[i] = c /\ CanConsume(i, c) /\ ~Below(CostFrom(f, i), ConsumeCost(i, c))
           \/ /\ f[i] \in Column /\ f[i] > c /\ c < Columns /\ f \in Partial(i, c + 1)
              /\ ~Below(CostFrom(f, i), table[i][c + 1])
<1>0. f \in Assignment /\ Columns \in Nat /\ i < Nodes /\ i \in Position
  BY SizesAreNatural DEF Partial, Node, Position
<1>1. /\ f \in Partial(i + 1, c)
      /\ f[i] # None => f[i] \in Column /\ f[i] >= c /\ Matches(i, f[i]) /\ f \in Partial(i, f[i])
  BY PartialAfter
<1>2. ~Below(CostFrom(f, i + 1), table[i + 1][c])
  BY <1>1 DEF LeastLoss
<1>3. CASE f[i] = None
  BY <1>0, <1>2, <1>3, TransitionCosts
<1>4. CASE f[i] # None /\ f[i] = c
  <2>1. CanConsume(i, c)
    BY <1>0, <1>1, <1>4, SizesAreNatural DEF CanConsume, Column
  <2>2. QED
    BY <1>0, <1>2, <1>4, <2>1, TransitionCosts
<1>5. CASE f[i] # None /\ f[i] # c
  <2>1. f[i] \in Column /\ f[i] > c /\ c < Columns /\ c + 1 \in 0 .. Columns /\ f[i] \in 0 .. Columns /\ c + 1 <= f[i]
    BY <1>0, <1>1, <1>5 DEF Column
  <2>2. f \in Partial(i, c + 1)
    BY <1>0, <1>1, <1>5, <2>1, EarlierRuleAllows
  <2>3. QED
    BY <2>1, <2>2 DEF LeastLoss
<1>6. QED
  BY <1>3, <1>4, <1>5

(* Both transitions that take the node are taken by some assignment.        *)
LEMMA LossReached ==
    ASSUME TypeOK, NEW i \in Node, NEW c \in 0 .. Columns,
           LeastLoss(table[i + 1][c], i + 1, c)
    PROVE  /\ \E f \in Partial(i, c) : f[i] = None /\ CostFrom(f, i) = LeaveCost(i, c)
           /\ CanConsume(i, c) =>
                 \E f \in Partial(i, c) : f[i] = c /\ CostFrom(f, i) = ConsumeCost(i, c)
<1>1. PICK f \in Partial(i + 1, c) : CostFrom(f, i + 1) = table[i + 1][c]
  BY DEF LeastLoss
<1>2. ASSUME NEW given \in Column \union {None}, given # None => given = c /\ CanConsume(i, c)
      PROVE  \E g \in Partial(i, c) : g[i] = given /\ CostFrom(g, i + 1) = table[i + 1][c] /\ g \in Assignment
  <2> DEFINE g == [f EXCEPT ![i] = given]
  <2>1. given # None => given = c /\ Matches(i, given)
    BY <1>2 DEF CanConsume
  <2>2. /\ g \in Partial(i, c) /\ g[i] = given
        /\ EdgesFrom(g, i + 1) = EdgesFrom(f, i + 1) /\ LeftFrom(g, i + 1) = LeftFrom(f, i + 1)
    BY <2>1, PartialBefore
  <2>3. QED
    BY <1>1, <2>2 DEF CostFrom, Partial
<1>3. \E f_1 \in Partial(i, c) : f_1[i] = None /\ CostFrom(f_1, i) = LeaveCost(i, c)
  BY <1>2, TransitionCosts
<1>4. ASSUME CanConsume(i, c)
      PROVE  \E f_1 \in Partial(i, c) : f_1[i] = c /\ CostFrom(f_1, i) = ConsumeCost(i, c)
  <2>1. c \in Column /\ c # None
    BY <1>4, SizesAreNatural, SentinelsAreNotNumbers DEF CanConsume, Column
  <2>2. QED
    BY <1>2, <1>4, <2>1, TransitionCosts
<1>5. QED
  BY <1>3, <1>4

(* A cell computed from least cells is least.                               *)
LEMMA CellIsLeast ==
    ASSUME TypeOK, NEW i \in Position, NEW c \in 0 .. Columns,
           i < Nodes => LeastLoss(table[i + 1][c], i + 1, c),
           c < Columns => LeastLoss(table[i][c + 1], i, c + 1)
    PROVE  LeastLoss(CellCost(i, c), i, c)
<1>0. Nodes \in Nat /\ Columns \in Nat /\ i \in Nat /\ i <= Nodes
  BY SizesAreNatural DEF Position
<1>1. CASE i = Nodes
  <2>1. Partial(i, c) = Assignment /\ Partial(i, c + 1) = Assignment /\ \A f : CostFrom(f, i) = Zero
    BY <1>1, NothingAtTheEnd
  <2>2. CellCost(i, c) = Zero
    BY <1>0, <1>1, <2>1 DEF CellCost, LeastLoss
  <2>3. [t \in Node |-> None] \in Assignment
    BY DEF Assignment
  <2>4. ~Below(Zero, Zero)
    BY DEF Below, Zero
  <2>5. QED
    BY <2>1, <2>2, <2>3, <2>4 DEF LeastLoss
<1>2. CASE i < Nodes
  <2>1. i \in Node /\ LeastLoss(table[i + 1][c], i + 1, c)
    BY <1>0, <1>2 DEF Node
  <2>2. /\ LeaveCost(i, c) \in Cost
        /\ CanConsume(i, c) => ConsumeCost(i, c) \in Cost
        /\ c < Columns => table[i][c + 1] \in Cost
        /\ \A f \in Partial(i, c) : CostFrom(f, i) \in Cost
    <3>1. \A f \in Partial(i, c) : f \in Assignment
      BY DEF Partial
    <3>2. [t \in Node |-> None] \in Assignment
      BY DEF Assignment
    <3>3. c < Columns => c + 1 \in 0 .. Columns
      BY <1>0
    <3>4. QED
      BY <2>1, <3>1, <3>2, <3>3, TransitionCosts DEF TypeOK
  <2>3. /\ CellCost(i, c) \in Cost
        /\ ~Below(LeaveCost(i, c), CellCost(i, c))
        /\ CanConsume(i, c) => ~Below(ConsumeCost(i, c), CellCost(i, c))
        /\ c < Columns => ~Below(table[i][c + 1], CellCost(i, c))
        /\ \/ CellCost(i, c) = LeaveCost(i, c)
           \/ CanConsume(i, c) /\ CellCost(i, c) = ConsumeCost(i, c)
           \/ c < Columns /\ CellCost(i, c) = table[i][c + 1]
    <3> DEFINE leave == LeaveCost(i, c)
               stay  == IF CanConsume(i, c) THEN Cheaper(ConsumeCost(i, c), leave) ELSE leave
    <3>1. CellCost(i, c) = IF c < Columns THEN Cheaper(stay, table[i][c + 1]) ELSE stay
      BY <1>2, <1>0 DEF CellCost
    <3>2. /\ stay \in Cost /\ ~Below(leave, stay)
          /\ CanConsume(i, c) => ~Below(ConsumeCost(i, c), stay)
          /\ stay = leave \/ (CanConsume(i, c) /\ stay = ConsumeCost(i, c))
      BY <2>2, CostsCompare
    <3> HIDE DEF stay
    <3>3. CASE c < Columns
      <4>1. /\ Cheaper(stay, table[i][c + 1]) \in {stay, table[i][c + 1]}
            /\ ~Below(stay, Cheaper(stay, table[i][c + 1]))
            /\ ~Below(table[i][c + 1], Cheaper(stay, table[i][c + 1]))
        BY <2>2, <3>2, <3>3, CostsCompare
      <4>2. CellCost(i, c) \in Cost
        BY <2>2, <3>1, <3>2, <3>3, <4>1
      <4>3. QED
        BY <2>2, <3>1, <3>2, <3>3, <4>1, <4>2, CostsChain
    <3>4. CASE ~(c < Columns)
      BY <2>2, <3>1, <3>2, <3>4, CostsCompare
    <3>5. QED
      BY <3>3, <3>4
  <2>4. \E f \in Partial(i, c) : CostFrom(f, i) = CellCost(i, c)
    <3>1. CASE c < Columns /\ CellCost(i, c) = table[i][c + 1]
      <4>1. c + 1 \in 0 .. Columns /\ c <= c + 1
        BY <1>0, <3>1
      <4>2. Partial(i, c + 1) \subseteq Partial(i, c)
        BY <4>1, EarlierRuleAllows
      <4>3. QED
        BY <3>1, <4>2 DEF LeastLoss
    <3>2. QED
      BY <2>1, <2>3, <3>1, LossReached
  <2>5. ASSUME NEW f \in Partial(i, c) PROVE ~Below(CostFrom(f, i), CellCost(i, c))
    <3>1. \/ ~Below(CostFrom(f, i), LeaveCost(i, c))
          \/ CanConsume(i, c) /\ ~Below(CostFrom(f, i), ConsumeCost(i, c))
          \/ c < Columns /\ ~Below(CostFrom(f, i), table[i][c + 1])
      BY <2>1, LossAtLeast
    <3>2. QED
      BY <2>2, <2>3, <3>1, CostsChain
  <2>6. QED
    BY <2>4, <2>5 DEF LeastLoss
<1>3. QED
  BY <1>0, <1>1, <1>2

(* The table is filled from its last cell.                                 *)
LEMMA CellsStep == VInv /\ IInv' /\ [Next]_vars => CellsAreLeast'
<1> SUFFICES ASSUME VInv, IInv', [Next]_vars, pc' \in {"table", "walk"} PROVE CellsAreLeast'
  BY DEF CellsAreLeast
<1>0. /\ IInv /\ TypeOK /\ CellsAreLeast /\ Nodes \in Nat /\ Columns \in Nat /\ NeverExhausted'
      /\ column \in 0 .. Columns /\ node \in Position /\ node \in Nat /\ node <= Nodes
  <2>1. IInv /\ TypeOK /\ CellsAreLeast /\ NeverExhausted'
    BY DEF VInv, IInv
  <2>2. QED
    BY <2>1, SizesAreNatural DEF TypeOK, Position
<1>1. \A i, c, v : LeastLoss(v, i, c)' <=> LeastLoss(v, i, c)
  BY InputStays, InputJudges
<1>2. CASE FillCell
  <2>1. /\ pc = "table"
        /\ table' = [table EXCEPT ![node][column] = CellCost(node, column)]
        /\ column' = IF column > 0 THEN column - 1 ELSE IF node > 0 THEN Columns ELSE 0
        /\ node' = IF column = 0 /\ node > 0 THEN node - 1 ELSE node
        /\ pc' = IF column = 0 /\ node = 0 THEN "walk" ELSE "table"
    BY <1>2 DEF FillCell
  <2>2. \A i \in Position, c \in 0 .. Columns : i > node \/ (i = node /\ c > column) => LeastLoss(table[i][c], i, c)
    BY <1>0, <2>1 DEF CellsAreLeast
  <2>3. LeastLoss(CellCost(node, column), node, column)
    <3>1. node < Nodes => node + 1 \in Position
      BY <1>0 DEF Position
    <3>2. column < Columns => column + 1 \in 0 .. Columns
      BY <1>0
    <3>3. QED
      BY <1>0, <2>2, <3>1, <3>2, CellIsLeast
  <2>4. ASSUME NEW i \in Position, NEW c \in 0 .. Columns, i > node \/ (i = node /\ c >= column)
        PROVE  LeastLoss(table'[i][c], i, c)
    <3>1. CASE i = node /\ c = column
      <4>1. table'[i][c] = CellCost(node, column)
        BY <1>0, <2>1, <3>1 DEF TypeOK
      <4>2. QED
        BY <2>3, <3>1, <4>1
    <3>2. CASE ~(i = node /\ c = column)
      <4>1. table'[i][c] = table[i][c]
        BY <1>0, <2>1, <3>2 DEF TypeOK
      <4>2. i > node \/ (i = node /\ c > column)
        BY <1>0, <2>4, <3>2
      <4>3. QED
        BY <2>2, <4>1, <4>2
    <3>3. QED
      BY <3>1, <3>2
  <2>5. ASSUME NEW i \in Position, NEW c \in 0 .. Columns,
               pc' = "walk" \/ i > node' \/ (i = node' /\ c > column')
        PROVE  i > node \/ (i = node /\ c >= column)
    <3>1. i \in Nat /\ c \in Nat
      BY SizesAreNatural DEF Position
    <3>2. QED
      BY <1>0, <2>1, <2>5, <3>1
  <2>6. QED
    BY <1>1, <2>4, <2>5 DEF CellsAreLeast
<1>3. CASE DecideAcceptance
  <2>1. pc' = "table" /\ node' = Nodes /\ column' = Columns
    BY <1>3 DEF DecideAcceptance
  <2>2. \A i \in Position, c \in 0 .. Columns : ~(i > Nodes) /\ ~(c > Columns)
    BY <1>0 DEF Position
  <2>3. QED
    BY <2>1, <2>2 DEF CellsAreLeast
<1>4. CASE Consume \/ Leave \/ Advance \/ FinishWalk
  <2>1. pc = "walk" /\ pc' = "walk" /\ table' = table
    BY <1>4 DEF Consume, Leave, Advance, FinishWalk, Walking
  <2>2. QED
    BY <1>0, <1>1, <2>1 DEF CellsAreLeast
<1>5. CASE UNCHANGED vars
  <2>1. pc' = pc /\ table' = table /\ node' = node /\ column' = column
    BY <1>5 DEF vars
  <2>2. QED
    BY <1>0, <1>1, <2>1 DEF CellsAreLeast
<1>6. CASE BeginColumn \/ AccumulatePrefix \/ BeginWindow \/ PushEndpoint
  BY <1>6 DEF BeginColumn, AccumulatePrefix, BeginWindow, PushEndpoint
<1>7. CASE SettleNode
  BY <1>0, <1>7, SettleWritesNode
<1>8. CASE RebuildColumn \/ FinishRebuild
  BY <1>0, <1>8 DEF RebuildColumn, FinishRebuild
<1> QED
  BY <1>2, <1>3, <1>4, <1>5, <1>6, <1>7, <1>8 DEF Next

-----------------------------------------------------------------------------
(* The walk keeps the best recovery ahead of it.                           *)

(* What goes on in a cheaper way, or in one as cheap that comes first, is   *)
(* preferred as a whole.                                                    *)
LEMMA CheaperTailWins ==
    ASSUME NEW i \in Position, NEW c \in 0 .. Columns, NEW d \in 0 .. Columns, c <= d,
           NEW f \in Partial(0, 0), NEW h \in Partial(i, d),
           \A t \in 0 .. i - 1 : f[t] # None => f[t] <= c
    PROVE  LET g == Glue(f, h, i) IN
           /\ g \in Partial(0, 0) /\ g \in Partial(i, d)
           /\ \A t \in 0 .. i - 1 : g[t] = f[t]
           /\ i < Nodes => g[i] = h[i]
           /\ Below(CostFrom(h, i), CostFrom(f, i)) => BetterRecovery(g, f)
           /\ i < Nodes /\ CostFrom(h, i) = CostFrom(f, i) /\ Place(g, i) < Place(f, i) => BetterRecovery(g, f)
<1> DEFINE g == Glue(f, h, i)
<1>0. i \in Nat /\ i <= Nodes /\ Nodes \in Nat /\ Columns \in Nat /\ (i < Nodes => i \in Node) /\ i \in Position
  BY SizesAreNatural DEF Position, Node
<1>1. \A t \in 0 .. i - 1 : t \in Node /\ t < i
  BY <1>0 DEF Node
<1>2. \A t \in 0 .. i - 1 : f[t] # None => f[t] <= d
  <2>1. \A t \in 0 .. i - 1 : f[t] # None => f[t] \in Int
    BY <1>1 DEF Partial, Assignment, Column
  <2>2. QED
    BY <1>0, <2>1
<1>3. /\ g \in Partial(0, 0) /\ g \in Partial(i, d)
      /\ \A t \in Node : g[t] = IF t < i THEN f[t] ELSE h[t]
      /\ EdgesFrom(g, 0) = EdgesFrom(f, 0) - EdgesFrom(f, i) + EdgesFrom(h, i)
      /\ LeftFrom(g, 0) = LeftFrom(f, 0) - LeftFrom(f, i) + LeftFrom(h, i)
  BY <1>2, GluedRecovery
<1> HIDE DEF g
<1>4. (\A t \in 0 .. i - 1 : g[t] = f[t]) /\ (i < Nodes => g[i] = h[i])
  BY <1>0, <1>1, <1>3
<1>5. \A r \in {f, g, h} : /\ EdgesFrom(r, 0) \in Nat /\ LeftFrom(r, 0) \in Nat
                           /\ EdgesFrom(r, i) \in Nat /\ LeftFrom(r, i) \in Nat
  BY EdgesAreNatural, CostsAreNatural
<1>6. Below(CostFrom(h, i), CostFrom(f, i)) => Below(CostFrom(g, 0), CostFrom(f, 0))
  BY <1>3, <1>5 DEF Below, CostFrom
<1>7. CostFrom(h, i) = CostFrom(f, i) => CostFrom(g, 0) = CostFrom(f, 0)
  <2>1. CostFrom(h, i) = CostFrom(f, i) => EdgesFrom(h, i) = EdgesFrom(f, i) /\ LeftFrom(h, i) = LeftFrom(f, i)
    BY DEF CostFrom
  <2>2. QED
    BY <1>3, <1>5, <2>1 DEF CostFrom
<1>8. QED
  BY <1>0, <1>3, <1>4, <1>6, <1>7 DEF BetterRecovery, g

(* Where the walk stands at a node it has not come to the end with.         *)
LEMMA WalkFacts ==
    ASSUME VInv, pc = "walk", node < Nodes,
           NEW f \in Partial(0, 0), Agrees(f), f \in Partial(node, column)
    PROVE  /\ TypeOK /\ node \in Node /\ node \in Position /\ node + 1 \in Position
           /\ column \in 0 .. Columns /\ f \in Assignment /\ column \in Nat /\ node \in Nat
           /\ LeastLoss(table[node][column], node, column)
           /\ LeastLoss(table[node + 1][column], node + 1, column)
           /\ column < Columns => LeastLoss(table[node][column + 1], node, column + 1)
           /\ \A t \in 0 .. node - 1 : f[t] # None => f[t] <= column
           /\ Stand(f, node) = Stand(assigned, node)
           /\ Stand(assigned, node) \in Nat /\ Stand(assigned, node) <= column
           /\ column = Stand(assigned, node) \/ Below(table[node][column], LeaveCost(node, column))
<1>1. TypeOK /\ CellsAreLeast /\ AdvancesForCost /\ AssignedBehind
  BY DEF VInv, IInv
<1>2. /\ node \in Node /\ node \in Position /\ node + 1 \in Position
      /\ column \in 0 .. Columns /\ column \in Nat /\ node \in Nat
      /\ column < Columns => column + 1 \in 0 .. Columns
  BY <1>1, SizesAreNatural DEF TypeOK, Position, Node
<1>3. f \in Assignment /\ assigned \in Assignment
  BY <1>1 DEF Partial, TypeOK, Assignment
<1>4. /\ LeastLoss(table[node][column], node, column)
      /\ LeastLoss(table[node + 1][column], node + 1, column)
      /\ column < Columns => LeastLoss(table[node][column + 1], node, column + 1)
  BY <1>1, <1>2 DEF CellsAreLeast
<1>5. \A t \in 0 .. node - 1 : t \in Node /\ f[t] = assigned[t]
  BY <1>2, SizesAreNatural DEF Agrees, Node
<1>6. \A t \in Node : assigned[t] # None => assigned[t] <= column
  BY <1>1 DEF AssignedBehind, Assigning
<1>7. Stand(f, node) = Stand(assigned, node)
  BY <1>5, StandOfSame
<1>8. Stand(assigned, node) \in Nat /\ Stand(assigned, node) <= column
  <2>1. Stand(assigned, node) \in Nat /\ (Stand(assigned, node) = 0 \/ Stand(assigned, node) \in Before(assigned, node))
    BY <1>2, <1>3, StandIsRule
  <2>2. \A d \in Before(assigned, node) : d <= column
    BY <1>5, <1>6 DEF Before
  <2>3. QED
    BY <1>2, <2>1, <2>2
<1>9. column = Stand(assigned, node) \/ Below(table[node][column], LeaveCost(node, column))
  BY <1>1, <1>2 DEF AdvancesForCost
<1>10. QED
  BY <1>1, <1>2, <1>3, <1>4, <1>5, <1>6, <1>7, <1>8, <1>9

(* Consuming a node, where that keeps the cost, is preferred to everything  *)
(* else that could become of it.                                            *)
LEMMA ConsumingIsBest ==
    ASSUME VInv, Consume,
           NEW f \in Partial(0, 0), Agrees(f), f \in Partial(node, column)
    PROVE  \E g \in Partial(0, 0) :
              /\ g = f \/ BetterRecovery(g, f)
              /\ Agrees(g) /\ g \in Partial(node, column) /\ g[node] = column
<1>1. /\ pc = "walk" /\ node < Nodes /\ CanConsume(node, column)
      /\ ConsumeCost(node, column) = table[node][column]
  BY DEF Consume, Walking, ConsumeKeepsCost, CanConsume
<1>2. /\ TypeOK /\ node \in Node /\ node \in Position /\ node + 1 \in Position
      /\ column \in 0 .. Columns /\ f \in Assignment /\ column \in Nat /\ node \in Nat
      /\ LeastLoss(table[node + 1][column], node + 1, column)
      /\ column < Columns => LeastLoss(table[node][column + 1], node, column + 1)
      /\ \A t \in 0 .. node - 1 : f[t] # None => f[t] <= column
      /\ Stand(f, node) = Stand(assigned, node)
      /\ Stand(assigned, node) \in Nat /\ Stand(assigned, node) <= column
      /\ column = Stand(assigned, node) \/ Below(table[node][column], LeaveCost(node, column))
  BY <1>1, WalkFacts
<1>3. LeastLoss(table[node][column], node, column)
  BY <1>1, WalkFacts
<1>4. PICK h \in Partial(node, column) : h[node] = column /\ CostFrom(h, node) = table[node][column]
  BY <1>1, <1>2, LossReached
<1> DEFINE g == Glue(f, h, node)
<1>5. /\ g \in Partial(0, 0) /\ g \in Partial(node, column) /\ g[node] = column
      /\ \A t \in 0 .. node - 1 : g[t] = f[t]
      /\ Below(CostFrom(h, node), CostFrom(f, node)) => BetterRecovery(g, f)
      /\ CostFrom(h, node) = CostFrom(f, node) /\ Place(g, node) < Place(f, node) => BetterRecovery(g, f)
  BY <1>1, <1>2, <1>4, CheaperTailWins
<1> HIDE DEF g
<1>6. Agrees(g)
  BY <1>5 DEF Agrees
<1>7. Stand(g, node) = Stand(f, node)
  BY <1>5, StandOfSame
<1>8. CostFrom(h, node) = CostFrom(f, node) \/ Below(CostFrom(h, node), CostFrom(f, node))
  <2>1. ~Below(CostFrom(f, node), table[node][column])
    BY <1>3 DEF LeastLoss
  <2>2. CostFrom(f, node) \in Cost /\ table[node][column] \in Cost
    BY <1>2, TransitionCosts
  <2>3. QED
    BY <1>4, <2>1, <2>2, CostsCompare
<1>9. \/ f[node] = None /\ ~Below(CostFrom(f, node), LeaveCost(node, column))
      \/ f[node] = column
      \/ f[node] \in Column /\ f[node] > column
  BY <1>2, LossAtLeast
<1>10. column \in Column /\ column # None
  BY <1>1, <1>2, SizesAreNatural, SentinelsAreNotNumbers DEF CanConsume, Column
<1>11. CASE f[node] = column
  BY <1>11, <1>1
<1>12. CASE f[node] = None /\ ~Below(CostFrom(f, node), LeaveCost(node, column))
  <2>1. CASE column = Stand(assigned, node)
    <3>1. Place(g, node) = 0 /\ Place(f, node) = 1
      BY <1>2, <1>5, <1>7, <1>12, <2>1, <1>10 DEF Place
    <3>2. QED
      BY <1>5, <1>6, <1>8, <3>1
  <2>2. CASE Below(table[node][column], LeaveCost(node, column))
    <3>1. CostFrom(f, node) \in Cost /\ table[node][column] \in Cost /\ LeaveCost(node, column) \in Cost
      BY <1>2, TransitionCosts
    <3>2. Below(table[node][column], CostFrom(f, node))
      BY <1>12, <2>2, <3>1, CostsChain, CostsCompare
    <3>3. QED
      BY <1>4, <1>5, <1>6, <3>2
  <2>3. QED
    BY <1>2, <2>1, <2>2
<1>13. CASE f[node] \in Column /\ f[node] > column
  <2>1. f[node] \in Int /\ f[node] # None
    BY <1>13, SentinelsAreNotNumbers DEF Column
  <2>2. Place(g, node) = (IF column = Stand(assigned, node) THEN 0 ELSE 1 + column - Stand(assigned, node))
    BY <1>2, <1>5, <1>7, <1>10 DEF Place
  <2>3. Place(f, node) = 1 + f[node] - Stand(assigned, node)
    BY <1>2, <1>13, <2>1 DEF Place
  <2>4. Place(g, node) < Place(f, node)
    BY <1>2, <1>13, <2>1, <2>2, <2>3
  <2>5. QED
    BY <1>5, <1>6, <1>8, <2>4
<1>14. QED
  BY <1>9, <1>11, <1>12, <1>13

(* A transition the walk does not take costs too much.                      *)
LEMMA RefusedCostsMore ==
    ASSUME TypeOK, NEW i \in Node, NEW c \in 0 .. Columns,
           LeastLoss(table[i][c], i, c), LeastLoss(table[i + 1][c], i + 1, c)
    PROVE  /\ LeaveCost(i, c) # table[i][c] => Below(table[i][c], LeaveCost(i, c))
           /\ CanConsume(i, c) /\ ConsumeCost(i, c) # table[i][c] => Below(table[i][c], ConsumeCost(i, c))
<1>1. PICK f \in Partial(i, c) : CostFrom(f, i) = LeaveCost(i, c)
  BY LossReached
<1>2. ~Below(LeaveCost(i, c), table[i][c])
  BY <1>1 DEF LeastLoss
<1>3. ASSUME CanConsume(i, c) PROVE ~Below(ConsumeCost(i, c), table[i][c])
  <2>1. PICK h \in Partial(i, c) : CostFrom(h, i) = ConsumeCost(i, c)
    BY <1>3, LossReached
  <2>2. QED
    BY <2>1 DEF LeastLoss
<1>4. /\ table[i][c] \in Cost /\ LeaveCost(i, c) \in Cost
      /\ CanConsume(i, c) => ConsumeCost(i, c) \in Cost
  <2>1. f \in Assignment
    BY <1>1 DEF Partial
  <2>2. QED
    BY <2>1, TransitionCosts
<1>5. QED
  BY <1>2, <1>3, <1>4, CostsCompare

(* Leaving a node out, where consuming it costs too much and leaving it     *)
(* does not, is preferred to giving it to a later rule.                     *)
LEMMA LeavingIsBest ==
    ASSUME VInv, Leave,
           NEW f \in Partial(0, 0), Agrees(f), f \in Partial(node, column)
    PROVE  \E g \in Partial(0, 0) :
              /\ g = f \/ BetterRecovery(g, f)
              /\ Agrees(g) /\ g \in Partial(node, column) /\ g[node] = None
<1>1. /\ pc = "walk" /\ node < Nodes /\ LeaveCost(node, column) = table[node][column]
      /\ CanConsume(node, column) => ConsumeCost(node, column) # table[node][column]
  BY DEF Leave, Walking, ConsumeKeepsCost, LeaveKeepsCost
<1>2. /\ TypeOK /\ node \in Node /\ node \in Position /\ node + 1 \in Position
      /\ column \in 0 .. Columns /\ f \in Assignment /\ column \in Nat /\ node \in Nat
      /\ LeastLoss(table[node][column], node, column)
      /\ LeastLoss(table[node + 1][column], node + 1, column)
      /\ column < Columns => LeastLoss(table[node][column + 1], node, column + 1)
      /\ \A t \in 0 .. node - 1 : f[t] # None => f[t] <= column
      /\ Stand(f, node) = Stand(assigned, node)
      /\ Stand(assigned, node) \in Nat /\ Stand(assigned, node) <= column
  BY <1>1, WalkFacts
<1>3. column = Stand(assigned, node)
  <2>1. column = Stand(assigned, node) \/ Below(table[node][column], LeaveCost(node, column))
    BY <1>1, WalkFacts
  <2>2. table[node][column] \in Cost
    BY <1>2, TransitionCosts
  <2>3. QED
    BY <1>1, <2>1, <2>2, CostsCompare
<1>4. PICK h \in Partial(node, column) : h[node] = None /\ CostFrom(h, node) = table[node][column]
  BY <1>1, <1>2, LossReached
<1> DEFINE g == Glue(f, h, node)
<1>5. /\ g \in Partial(0, 0) /\ g \in Partial(node, column) /\ g[node] = None
      /\ \A t \in 0 .. node - 1 : g[t] = f[t]
      /\ Below(CostFrom(h, node), CostFrom(f, node)) => BetterRecovery(g, f)
      /\ CostFrom(h, node) = CostFrom(f, node) /\ Place(g, node) < Place(f, node) => BetterRecovery(g, f)
  BY <1>1, <1>2, <1>4, CheaperTailWins
<1> HIDE DEF g
<1>6. Agrees(g)
  BY <1>5 DEF Agrees
<1>7. Stand(g, node) = Stand(f, node)
  BY <1>5, StandOfSame
<1>8. CostFrom(f, node) \in Cost /\ table[node][column] \in Cost
      /\ (CanConsume(node, column) => ConsumeCost(node, column) \in Cost)
  BY <1>2, TransitionCosts
<1>9. CostFrom(h, node) = CostFrom(f, node) \/ Below(CostFrom(h, node), CostFrom(f, node))
  <2>1. ~Below(CostFrom(f, node), table[node][column])
    BY <1>2 DEF LeastLoss
  <2>2. QED
    BY <1>4, <1>8, <2>1, CostsCompare
<1>10. \/ f[node] = None
       \/ f[node] = column /\ CanConsume(node, column) /\ ~Below(CostFrom(f, node), ConsumeCost(node, column))
       \/ f[node] \in Column /\ f[node] > column
  BY <1>2, LossAtLeast
<1>11. CASE f[node] = None
  BY <1>11
<1>12. CASE f[node] = column /\ CanConsume(node, column) /\ ~Below(CostFrom(f, node), ConsumeCost(node, column))
  <2>1. Below(table[node][column], ConsumeCost(node, column))
    BY <1>1, <1>2, <1>12, RefusedCostsMore
  <2>2. Below(table[node][column], CostFrom(f, node))
    BY <1>8, <1>12, <2>1, CostsChain, CostsCompare
  <2>3. QED
    BY <1>4, <1>5, <1>6, <2>2
<1>13. CASE f[node] \in Column /\ f[node] > column
  <2>1. f[node] \in Int /\ f[node] # None
    BY <1>13, SentinelsAreNotNumbers DEF Column
  <2>2. Place(g, node) = 1
    <3>1. Stand(g, node) # None
      BY <1>2, <1>7, SentinelsAreNotNumbers
    <3>2. QED
      BY <1>5, <3>1 DEF Place
  <2>3. Place(f, node) = 1 + f[node] - column
    BY <1>2, <1>3, <1>13, <2>1 DEF Place
  <2>4. Place(g, node) < Place(f, node)
    BY <1>2, <1>13, <2>1, <2>2, <2>3
  <2>5. QED
    BY <1>5, <1>6, <1>9, <2>4
<1>14. QED
  BY <1>10, <1>11, <1>12, <1>13

(* What costs no more than the cell goes on from the next rule, where the   *)
(* walk takes neither of the transitions of this one.                       *)
LEMMA AdvancingKeepsCheapest ==
    ASSUME TypeOK, Advance, node < Nodes, column < Columns, node \in Node,
           LeastLoss(table[node][column], node, column),
           LeastLoss(table[node + 1][column], node + 1, column),
           LeastLoss(table[node][column + 1], node, column + 1),
           NEW r \in Partial(node, column)
    PROVE  Below(table[node][column], CostFrom(r, node)) \/ r \in Partial(node, column + 1)
<1>1. /\ LeaveCost(node, column) # table[node][column]
      /\ CanConsume(node, column) => ConsumeCost(node, column) # table[node][column]
  BY DEF Advance, ConsumeKeepsCost, LeaveKeepsCost
<1>2. column \in 0 .. Columns
  BY DEF TypeOK
<1>3. \/ ~Below(CostFrom(r, node), LeaveCost(node, column))
      \/ CanConsume(node, column) /\ ~Below(CostFrom(r, node), ConsumeCost(node, column))
      \/ r \in Partial(node, column + 1)
  BY <1>2, LossAtLeast
<1>4. /\ Below(table[node][column], LeaveCost(node, column))
      /\ CanConsume(node, column) => Below(table[node][column], ConsumeCost(node, column))
  BY <1>1, <1>2, RefusedCostsMore
<1>5. /\ CostFrom(r, node) \in Cost /\ table[node][column] \in Cost /\ LeaveCost(node, column) \in Cost
      /\ CanConsume(node, column) => ConsumeCost(node, column) \in Cost
  <2>1. r \in Assignment
    BY DEF Partial
  <2>2. QED
    BY <1>2, <2>1, TransitionCosts
<1>6. QED
  BY <1>3, <1>4, <1>5, CostsChain, CostsCompare

(* Where neither keeps the cost, what becomes of the node is up to the      *)
(* later rules.                                                             *)
LEMMA AdvancingIsBest ==
    ASSUME VInv, Advance, column < Columns,
           NEW f \in Partial(0, 0), Agrees(f), f \in Partial(node, column)
    PROVE  \E g \in Partial(0, 0) :
              /\ g = f \/ BetterRecovery(g, f)
              /\ Agrees(g) /\ g \in Partial(node, column + 1)
<1>0. /\ pc = "walk" /\ node \in Position /\ column \in 0 .. Columns /\ column + 1 \in 0 .. Columns
      /\ Nodes \in Nat /\ column \in Nat /\ f \in Assignment
  <2>1. TypeOK /\ pc = "walk"
    BY DEF VInv, IInv, Advance, Walking
  <2>2. QED
    BY <2>1, SizesAreNatural DEF TypeOK, Partial
<1>1. CASE node = Nodes
  <2>1. f \in Partial(node, column + 1)
    BY <1>0, <1>1, NothingAtTheEnd
  <2>2. QED
    BY <2>1
<1>2. CASE node < Nodes
  <2>2. /\ TypeOK /\ node \in Node /\ node + 1 \in Position
        /\ LeastLoss(table[node][column], node, column)
        /\ LeastLoss(table[node + 1][column], node + 1, column)
        /\ LeastLoss(table[node][column + 1], node, column + 1)
        /\ \A t \in 0 .. node - 1 : f[t] # None => f[t] <= column
    BY <1>0, <1>2, WalkFacts
  <2>3. \A r \in Partial(node, column) :
           Below(table[node][column], CostFrom(r, node)) \/ r \in Partial(node, column + 1)
    BY <1>2, <2>2, AdvancingKeepsCheapest
  <2>4. PICK h \in Partial(node, column + 1) : CostFrom(h, node) = table[node][column]
    <3>1. PICK r \in Partial(node, column) : CostFrom(r, node) = table[node][column]
      BY <2>2 DEF LeastLoss
    <3>2. table[node][column] \in Cost
      BY <1>0, <2>2, TransitionCosts
    <3>3. ~Below(table[node][column], CostFrom(r, node))
      BY <3>1, <3>2, CostsCompare
    <3>4. QED
      BY <2>3, <3>1, <3>3
  <2>5. CASE f \in Partial(node, column + 1)
    BY <2>5
  <2>6. CASE Below(table[node][column], CostFrom(f, node))
    <3> DEFINE g == Glue(f, h, node)
    <3>1. column <= column + 1
      BY <1>0
    <3>2. /\ g \in Partial(0, 0) /\ g \in Partial(node, column + 1)
          /\ \A t \in 0 .. node - 1 : g[t] = f[t]
          /\ Below(CostFrom(h, node), CostFrom(f, node)) => BetterRecovery(g, f)
      BY <1>0, <2>2, <2>4, <3>1, CheaperTailWins
    <3> HIDE DEF g
    <3>3. Agrees(g)
      BY <3>2 DEF Agrees
    <3>4. QED
      BY <2>4, <2>6, <3>2, <3>3
  <2>7. QED
    BY <2>3, <2>5, <2>6
<1>3. QED
  BY <1>0, <1>1, <1>2 DEF Position

(* At each of its transitions the walk keeps ahead of it a recovery that    *)
(* none is preferred to.                                                    *)
LEMMA WalkStep == VInv /\ IInv' /\ [Next]_vars => WalksTheBest'
<1> SUFFICES ASSUME VInv, IInv', [Next]_vars, pc' = "walk" PROVE WalksTheBest'
  BY DEF WalksTheBest
<1>0. /\ IInv /\ TypeOK /\ WalksTheBest /\ AssignedBehind /\ NeverExhausted'
      /\ Nodes \in Nat /\ Columns \in Nat /\ node \in Position /\ node \in Nat /\ column \in 0 .. Columns
  <2>1. IInv /\ TypeOK /\ WalksTheBest /\ AssignedBehind /\ NeverExhausted'
    BY DEF VInv, IInv
  <2>2. QED
    BY <2>1, SizesAreNatural DEF TypeOK, Position
<1>1. /\ \A i, c : Partial(i, c)' = Partial(i, c)
      /\ \A f, g : BetterRecovery(f, g)' <=> BetterRecovery(f, g)
  BY InputStays, InputDecides, InputJudges
<1>2. \A i, c : Partial(i, c) \subseteq Assignment
  BY DEF Partial
<1>3. pc = "walk" => \A g \in Partial(0, 0) : \E f \in Partial(0, 0) :
                        /\ f = g \/ BetterRecovery(f, g)
                        /\ Agrees(f) /\ f \in Partial(node, column)
  BY <1>0 DEF WalksTheBest
<1>4. CASE FillCell
  <2>1. node = 0 /\ column = 0 /\ node' = 0 /\ column' = 0
    BY <1>4 DEF FillCell
  <2>2. \A f : Agrees(f)'
    BY <2>1 DEF Agrees
  <2>3. QED
    BY <1>1, <2>1, <2>2 DEF WalksTheBest
<1>5. CASE Consume
  <2>1. /\ pc = "walk" /\ node < Nodes /\ node' = node + 1 /\ column' = column
        /\ assigned' = [assigned EXCEPT ![node] = column]
    BY <1>5 DEF Consume, Walking, ConsumeKeepsCost, CanConsume
  <2>2. node \in Node
    BY <1>0, <2>1 DEF Node
  <2>3. ASSUME NEW g \in Partial(0, 0)
        PROVE  \E f \in Partial(0, 0) : /\ f = g \/ BetterRecovery(f, g)
                                        /\ Agrees(f)' /\ f \in Partial(node + 1, column)
    <3>1. PICK f \in Partial(0, 0) : /\ f = g \/ BetterRecovery(f, g)
                                     /\ Agrees(f) /\ f \in Partial(node, column)
      BY <1>3, <2>1
    <3>2. PICK h \in Partial(0, 0) : /\ h = f \/ BetterRecovery(h, f)
                                     /\ Agrees(h) /\ h \in Partial(node, column) /\ h[node] = column
      BY <1>5, <3>1, ConsumingIsBest
    <3>3. h = g \/ BetterRecovery(h, g)
      BY <1>2, <3>1, <3>2, BetterRecoveryTransitive
    <3>4. h \in Partial(node + 1, column)
      BY <1>0, <2>2, <3>2, PartialAfter
    <3>5. Agrees(h)'
      <4>1. SUFFICES ASSUME NEW t \in 0 .. (node + 1) - 1 PROVE h[t] = assigned'[t]
        BY <2>1 DEF Agrees
      <4>2. t \in Node /\ (t = node \/ t \in 0 .. node - 1)
        BY <1>0, <2>1 DEF Node
      <4>3. assigned \in [Node -> Column \union {None}]
        BY <1>0 DEF TypeOK
      <4>4. QED
        BY <1>0, <2>1, <3>2, <4>2, <4>3 DEF Agrees
    <3>6. QED
      BY <3>3, <3>4, <3>5
  <2>4. QED
    BY <1>1, <2>1, <2>3 DEF WalksTheBest
<1>6. CASE Leave
  <2>1. /\ pc = "walk" /\ node < Nodes /\ node' = node + 1 /\ column' = column
        /\ assigned' = assigned
    BY <1>6 DEF Leave, LeaveKeepsCost, Walking
  <2>2. node \in Node /\ assigned[node] = None
    <3>1. node \in Node
      BY <1>0, <2>1 DEF Node
    <3>2. QED
      BY <1>0, <2>1, <3>1 DEF AssignedBehind, Assigning
  <2>3. ASSUME NEW g \in Partial(0, 0)
        PROVE  \E f \in Partial(0, 0) : /\ f = g \/ BetterRecovery(f, g)
                                        /\ Agrees(f)' /\ f \in Partial(node + 1, column)
    <3>1. PICK f \in Partial(0, 0) : /\ f = g \/ BetterRecovery(f, g)
                                     /\ Agrees(f) /\ f \in Partial(node, column)
      BY <1>3, <2>1
    <3>2. PICK h \in Partial(0, 0) : /\ h = f \/ BetterRecovery(h, f)
                                     /\ Agrees(h) /\ h \in Partial(node, column) /\ h[node] = None
      BY <1>6, <3>1, LeavingIsBest
    <3>3. h = g \/ BetterRecovery(h, g)
      BY <1>2, <3>1, <3>2, BetterRecoveryTransitive
    <3>4. h \in Partial(node + 1, column)
      BY <1>0, <2>2, <3>2, PartialAfter
    <3>5. Agrees(h)'
      <4>1. SUFFICES ASSUME NEW t \in 0 .. (node + 1) - 1 PROVE h[t] = assigned[t]
        BY <2>1 DEF Agrees
      <4>2. t = node \/ t \in 0 .. node - 1
        BY <1>0, <2>1
      <4>3. QED
        BY <2>2, <3>2, <4>2 DEF Agrees
    <3>6. QED
      BY <3>3, <3>4, <3>5
  <2>4. QED
    BY <1>1, <2>1, <2>3 DEF WalksTheBest
<1>7. CASE Advance
  <2>1. /\ pc = "walk" /\ column < Columns /\ node' = node /\ column' = column + 1
        /\ assigned' = assigned
    BY <1>7 DEF Advance, Walking
  <2>2. \A f : Agrees(f)' <=> Agrees(f)
    BY <2>1 DEF Agrees
  <2>3. ASSUME NEW g \in Partial(0, 0)
        PROVE  \E f \in Partial(0, 0) : /\ f = g \/ BetterRecovery(f, g)
                                        /\ Agrees(f) /\ f \in Partial(node, column + 1)
    <3>1. PICK f \in Partial(0, 0) : /\ f = g \/ BetterRecovery(f, g)
                                     /\ Agrees(f) /\ f \in Partial(node, column)
      BY <1>3, <2>1
    <3>2. PICK h \in Partial(0, 0) : /\ h = f \/ BetterRecovery(h, f)
                                     /\ Agrees(h) /\ h \in Partial(node, column + 1)
      BY <1>7, <2>1, <3>1, AdvancingIsBest
    <3>3. h = g \/ BetterRecovery(h, g)
      BY <1>2, <3>1, <3>2, BetterRecoveryTransitive
    <3>4. QED
      BY <3>2, <3>3
  <2>4. QED
    BY <1>1, <2>1, <2>2, <2>3 DEF WalksTheBest
<1>8. CASE UNCHANGED vars
  <2>1. pc' = pc /\ node' = node /\ column' = column /\ assigned' = assigned
    BY <1>8 DEF vars
  <2>2. \A f : Agrees(f)' <=> Agrees(f)
    BY <2>1 DEF Agrees
  <2>3. QED
    BY <1>1, <1>3, <2>1, <2>2 DEF WalksTheBest
<1>9. CASE BeginColumn \/ AccumulatePrefix \/ BeginWindow \/ PushEndpoint \/ FinishWalk
  BY <1>9 DEF BeginColumn, AccumulatePrefix, BeginWindow, PushEndpoint, FinishWalk
<1>10. CASE SettleNode
  BY <1>0, <1>10, SettleWritesNode
<1>11. CASE DecideAcceptance \/ RebuildColumn \/ FinishRebuild
  BY <1>11 DEF DecideAcceptance, RebuildColumn, FinishRebuild
<1> QED
  BY <1>4, <1>5, <1>6, <1>7, <1>8, <1>9, <1>10, <1>11 DEF Next

(* The walk consumes where it stands, and goes on where it can no longer    *)
(* leave out.                                                               *)
LEMMA AdvancesStep == VInv /\ IInv' /\ [Next]_vars => AdvancesForCost'
<1> SUFFICES ASSUME VInv, IInv', [Next]_vars, pc' = "walk" PROVE AdvancesForCost'
  BY DEF AdvancesForCost
<1>0. /\ IInv /\ TypeOK /\ AdvancesForCost /\ AssignedBehind /\ NeverExhausted' /\ CellsAreLeast
      /\ Nodes \in Nat /\ Columns \in Nat /\ node \in Position /\ node \in Nat /\ node <= Nodes
      /\ column \in 0 .. Columns /\ column \in Nat /\ assigned \in Assignment
  <2>1. IInv /\ TypeOK /\ AdvancesForCost /\ AssignedBehind /\ NeverExhausted' /\ CellsAreLeast
    BY DEF VInv, IInv
  <2>2. QED
    BY <2>1, SizesAreNatural DEF TypeOK, Position, Assignment
<1>1. \A f, i : Stand(f, i)' = Stand(f, i)
  BY DEF Stand, Abstract!Canonical!StandsAt
<1>2. table' = table => \A i, c : LeaveCost(i, c)' = LeaveCost(i, c)
  BY DEF LeaveCost
<1>3. CASE FillCell
  <2>1. node' = 0 /\ column' = 0
    BY <1>3 DEF FillCell
  <2>2. Before(assigned', 0) = {}
    BY DEF Before
  <2>3. Stand(assigned', 0) = 0
    BY <2>2, StandsAtLatest
  <2>4. Stand(assigned, node)' = Stand(assigned', 0)
    BY <1>1, <2>1
  <2>5. QED
    BY <2>1, <2>3, <2>4 DEF AdvancesForCost
<1>4. CASE Consume
  <2>1. /\ pc = "walk" /\ node < Nodes /\ node' = node + 1 /\ column' = column /\ column < Columns
        /\ assigned' = [assigned EXCEPT ![node] = column]
    BY <1>4 DEF Consume, Walking, ConsumeKeepsCost, CanConsume
  <2>2. node \in Node /\ column \in Column /\ column \in Int /\ column # None
    BY <1>0, <2>1, SentinelsAreNotNumbers DEF Node, Column
  <2>3. assigned'[node] = column /\ \A t \in Node : t # node => assigned'[t] = assigned[t]
    BY <1>0, <2>1, <2>2 DEF Assignment
  <2>4. \A t \in Node : assigned[t] # None => assigned[t] \in Int /\ assigned[t] <= column
    <3>1. \A t \in Node : assigned[t] # None => assigned[t] <= column
      BY <1>0, <2>1 DEF AssignedBehind, Assigning
    <3>2. \A t \in Node : assigned[t] # None => assigned[t] \in Int
      BY <1>0 DEF Assignment, Column
    <3>3. QED
      BY <3>1, <3>2
  <2>5. \A d \in Before(assigned', node + 1) : d \in Int /\ d <= column
    <3>1. \A t \in 0 .. (node + 1) - 1 : t \in Node
      BY <1>0, <2>1 DEF Node
    <3>2. \A t \in Node : assigned'[t] # None => assigned'[t] \in Int /\ assigned'[t] <= column
      BY <1>0, <2>2, <2>3, <2>4
    <3>3. QED
      BY <3>1, <3>2 DEF Before
  <2>6. column \in Before(assigned', node + 1)
    <3>1. node \in 0 .. (node + 1) - 1
      BY <1>0
    <3>2. QED
      BY <2>2, <2>3, <3>1 DEF Before
  <2>7. Stand(assigned', node + 1) = column
    BY <2>2, <2>5, <2>6, StandsAtLatest
  <2>8. Stand(assigned, node)' = Stand(assigned', node + 1)
    BY <1>1, <2>1
  <2>9. QED
    BY <2>1, <2>7, <2>8 DEF AdvancesForCost
<1>5. CASE Leave
  <2>1. /\ pc = "walk" /\ node < Nodes /\ node' = node + 1 /\ column' = column
        /\ assigned' = assigned /\ table' = table /\ LeaveCost(node, column) = table[node][column]
    BY <1>5 DEF Leave, LeaveKeepsCost, Walking
  <2>2. node \in Node
    BY <1>0, <2>1 DEF Node
  <2>3. column = Stand(assigned, node)
    <3>1. table[node][column] \in Cost
      BY <1>0 DEF TypeOK
    <3>2. ~Below(table[node][column], LeaveCost(node, column))
      BY <2>1, <3>1, CostsCompare
    <3>3. QED
      BY <1>0, <2>1, <3>2 DEF AdvancesForCost
  <2>4. assigned[node] = None
    BY <1>0, <2>1, <2>2 DEF AssignedBehind, Assigning
  <2>5. Before(assigned, node + 1) = Before(assigned, node)
    <3>1. \A t : t \in 0 .. (node + 1) - 1 <=> t = node \/ t \in 0 .. node - 1
      BY <1>0
    <3>2. QED
      BY <2>4, <3>1 DEF Before
  <2>6. Stand(assigned, node + 1) = Stand(assigned, node)
    BY <2>5, StandOfBefore
  <2>7. Stand(assigned, node)' = Stand(assigned, node + 1)
    BY <1>1, <2>1
  <2>8. QED
    BY <2>1, <2>3, <2>6, <2>7 DEF AdvancesForCost
<1>6. CASE Advance
  <2>1. /\ pc = "walk" /\ column < Columns /\ node' = node /\ column' = column + 1
        /\ assigned' = assigned /\ table' = table
    BY <1>6 DEF Advance, Walking
  <2>2. CASE node = Nodes
    BY <2>1, <2>2 DEF AdvancesForCost
  <2>3. CASE node < Nodes
    <3>1. LeaveCost(node, column) # table[node][column]
      BY <1>6, <2>3 DEF Advance, LeaveKeepsCost
    <3>2. node \in Node /\ node + 1 \in Position /\ column + 1 \in 0 .. Columns /\ column <= column + 1
      BY <1>0, <2>1, <2>3 DEF Node, Position
    <3>3. /\ LeastLoss(table[node][column], node, column)
          /\ LeastLoss(table[node][column + 1], node, column + 1)
          /\ LeastLoss(table[node + 1][column], node + 1, column)
          /\ LeastLoss(table[node + 1][column + 1], node + 1, column + 1)
      BY <1>0, <2>1, <3>2 DEF CellsAreLeast
    <3>4. Below(table[node][column], LeaveCost(node, column))
      BY <1>0, <3>1, <3>2, <3>3, RefusedCostsMore
    <3>5. PICK f \in Partial(node, column + 1) : f[node] = None /\ CostFrom(f, node) = LeaveCost(node, column + 1)
      BY <1>0, <3>2, <3>3, LossReached
    <3>6. f \in Partial(node, column) /\ f \in Assignment
      BY <1>0, <3>2, EarlierRuleAllows DEF Partial
    <3>7. ~Below(CostFrom(f, node), LeaveCost(node, column))
      <4>1. f \in Partial(node + 1, column)
        BY <1>0, <3>2, <3>6, PartialAfter
      <4>2. ~Below(CostFrom(f, node + 1), table[node + 1][column])
        BY <3>3, <4>1 DEF LeastLoss
      <4>3. QED
        BY <1>0, <3>2, <3>5, <3>6, <4>2, TransitionCosts
    <3>8. ~Below(LeaveCost(node, column + 1), LeaveCost(node, column))
      BY <3>5, <3>7
    <3>9. Below(table[node][column], LeaveCost(node, column + 1))
      <4>1. table[node][column] \in Cost /\ LeaveCost(node, column) \in Cost
        BY <1>0, <3>2, <3>6, TransitionCosts
      <4>2. LeaveCost(node, column + 1) \in Cost
        BY <1>0, <3>2, <3>6, TransitionCosts
      <4>3. QED
        BY <3>4, <3>8, <4>1, <4>2, CostsChain
    <3>10. table[node][column + 1] = table[node][column]
      <4>1. PICK r \in Partial(node, column) : CostFrom(r, node) = table[node][column]
        BY <3>3 DEF LeastLoss
      <4>2. r \in Partial(node, column + 1)
        <5>1. table[node][column] \in Cost
          BY <1>0 DEF TypeOK
        <5>2. ~Below(table[node][column], CostFrom(r, node))
          BY <4>1, <5>1, CostsCompare
        <5>3. QED
          BY <1>0, <1>6, <2>1, <2>3, <3>2, <3>3, <5>2, AdvancingKeepsCheapest
      <4>3. ~Below(table[node][column], table[node][column + 1])
        BY <3>3, <4>1, <4>2 DEF LeastLoss
      <4>4. PICK q \in Partial(node, column + 1) : CostFrom(q, node) = table[node][column + 1]
        BY <3>3 DEF LeastLoss
      <4>5. q \in Partial(node, column)
        BY <1>0, <3>2, EarlierRuleAllows
      <4>6. ~Below(table[node][column + 1], table[node][column])
        BY <3>3, <4>4, <4>5 DEF LeastLoss
      <4>7. table[node][column] \in Cost /\ table[node][column + 1] \in Cost
        BY <1>0, <3>2 DEF TypeOK
      <4>8. QED
        BY <4>3, <4>6, <4>7, CostsCompare
    <3>11. Below(table'[node'][column'], LeaveCost(node, column + 1))
      BY <2>1, <3>9, <3>10
    <3>12. LeaveCost(node, column)' = LeaveCost(node, column + 1)
      BY <1>2, <2>1
    <3>13. \A a, b : Below(a, b)' <=> Below(a, b)
      BY DEF Below
    <3>14. QED
      BY <3>11, <3>12, <3>13 DEF AdvancesForCost
  <2>4. QED
    BY <1>0, <2>2, <2>3
<1>7. CASE UNCHANGED vars
  <2>1. pc' = pc /\ node' = node /\ column' = column /\ assigned' = assigned /\ table' = table
    BY <1>7 DEF vars
  <2>2. /\ Stand(assigned, node)' = Stand(assigned, node)
        /\ LeaveCost(node, column)' = LeaveCost(node, column)
    BY <1>1, <1>2, <2>1
  <2>3. \A a, b : Below(a, b)' <=> Below(a, b)
    BY DEF Below
  <2>4. QED
    BY <1>0, <2>1, <2>2, <2>3 DEF AdvancesForCost
<1>8. CASE BeginColumn \/ AccumulatePrefix \/ BeginWindow \/ PushEndpoint \/ FinishWalk
  BY <1>8 DEF BeginColumn, AccumulatePrefix, BeginWindow, PushEndpoint, FinishWalk
<1>9. CASE SettleNode
  BY <1>0, <1>9, SettleWritesNode
<1>10. CASE DecideAcceptance \/ RebuildColumn \/ FinishRebuild
  BY <1>10 DEF DecideAcceptance, RebuildColumn, FinishRebuild
<1> QED
  BY <1>3, <1>4, <1>5, <1>6, <1>7, <1>8, <1>9, <1>10 DEF Next

-----------------------------------------------------------------------------
(* The invariant holds.                                                    *)

(* Past the last rule nothing can be assigned: there is a partition only    *)
(* where there is no node either.                                           *)
LEMMA LastRowIsBest ==
    ASSUME NEW i \in Position
    PROVE  LeastCost(IF i = Nodes THEN 0 ELSE None, i, Columns)
<1>0. /\ i \in Nat /\ i <= Nodes /\ Nodes \in Nat /\ Columns \in Nat /\ None # 0
      /\ (i < Nodes => i \in Node /\ i \in i .. Nodes - 1)
  BY SizesAreNatural, SentinelsAreNotNumbers DEF Position, Node
<1>1. CASE i = Nodes
  <2>1. Partial(Nodes, Columns) = Assignment
    BY NothingAtTheEnd
  <2>2. \A f : EdgesFrom(f, Nodes) = 0
    BY NothingAtTheEnd DEF CostFrom, Zero
  <2>3. [t \in Node |-> None] \in Whole(Nodes, Columns)
    BY <1>0, <2>1 DEF Whole, Assignment
  <2>4. QED
    BY <1>0, <1>1, <2>2, <2>3 DEF LeastCost
<1>2. CASE i < Nodes
  <2>1. ASSUME NEW f \in Whole(i, Columns) PROVE FALSE
    <3>1. f \in Assignment /\ f[i] # None /\ f[i] >= Columns
      BY <1>0, <1>2 DEF Whole, Partial
    <3>2. f[i] \in Column
      BY <1>0, <1>2, <3>1 DEF Assignment
    <3>3. QED
      BY <1>0, <3>1, <3>2 DEF Column
  <2>2. QED
    BY <1>0, <1>2, <2>1 DEF LeastCost
<1>3. QED
  BY <1>0, <1>1, <1>2

(* It holds before the first rule is looked at.                             *)
LEMMA InitEstablishes == Init => VInv
<1> SUFFICES ASSUME Init PROVE VInv
  OBVIOUS
<1>0. IInv /\ TypeOK /\ Nodes \in Nat /\ Columns \in Nat
  BY InitEstablishesInvariant, SizesAreNatural DEF IInv
<1>1. /\ pc = "column" /\ column = Columns
      /\ suffix = [i \in Position |-> IF i = Nodes THEN 0 ELSE None]
      /\ endpoints = [c \in Column |-> [i \in Position |-> None]]
      /\ assigned = [i \in Node |-> None]
      /\ counts = [c \in Column |-> 0]
  BY DEF Init
<1>2. RowsAreBest
  <2>1. \A c \in Column, i \in Position : ~Settled(c, i)
    BY <1>0, <1>1 DEF Settled, Column
  <2>2. \A i \in Position : LeastCost(suffix[i], i, SuffixRow)
    BY <1>1, LastRowIsBest DEF SuffixRow
  <2>3. QED
    BY <1>1, <2>1, <2>2 DEF RowsAreBest
<1>3. NothingAhead
  BY <1>1 DEF NothingAhead
<1>4. CountsAreExact
  <2>1. ASSUME NEW c \in Column PROVE Count(assigned, c) = 0
    <3>1. c # None
      BY SentinelsAreNotNumbers DEF Column
    <3>2. \A t \in 0 .. Nodes - 1 : t \in Given(assigned, c) <=> t < 0
      BY <1>0, <1>1, <3>1 DEF Given, Node
    <3>3. IsRun(Given(assigned, c), 0, 0, Nodes)
      BY <1>0, <3>2 DEF IsRun
    <3>4. QED
      BY <1>0, <3>3, WithinRun DEF Count
  <2>2. QED
    BY <1>1, <2>1 DEF CountsAreExact
<1>5. /\ PrefixCounts /\ DequeIsMonotone /\ DequeCoversWindow /\ RebuildsTheBest /\ NoPartition
      /\ CellsAreLeast /\ AdvancesForCost /\ WalksTheBest
  BY <1>1 DEF PrefixCounts, DequeIsMonotone, DequeCoversWindow, RebuildsTheBest, NoPartition,
              CellsAreLeast, AdvancesForCost, WalksTheBest
<1>6. QED
  BY <1>0, <1>2, <1>3, <1>4, <1>5 DEF VInv

(* Every step keeps it.                                                     *)
LEMMA VerdictStep == VInv /\ [Next]_vars => VInv'
<1> SUFFICES ASSUME VInv, [Next]_vars PROVE VInv'
  OBVIOUS
<1>1. IInv'
  BY InvariantStep DEF VInv
<1>2. RowsAreBest' /\ NothingAhead' /\ PrefixCounts'
  BY <1>1, RowsStep, NothingAheadStep, PrefixCountsStep
<1>3. DequeIsMonotone' /\ DequeCoversWindow'
  BY <1>1, DequeWindowStep
<1>4. RebuildsTheBest' /\ NoPartition' /\ CountsAreExact'
  BY <1>1, RebuildStep, NoPartitionStep, CountsStep
<1>5. CellsAreLeast' /\ AdvancesForCost' /\ WalksTheBest'
  BY <1>1, CellsStep, AdvancesStep, WalkStep
<1>6. QED
  BY <1>1, <1>2, <1>3, <1>4, <1>5 DEF VInv

(* Whatever `accept` and `recover` have computed is optimal so far, and     *)
(* both loops that assign can still be completed to an assignment that no   *)
(* other is preferred to.                                                   *)
THEOREM OptimalSoFar == Spec => []VInv
<1>1. Init => VInv
  BY InitEstablishes
<1>2. VInv /\ [Next]_vars => VInv'
  BY VerdictStep
<1>3. QED
  BY <1>1, <1>2, PTL DEF Spec

-----------------------------------------------------------------------------
(* The same in the words of module Assignments.                            *)

(* What module Assignments is asked about is the input of the engine. *)
LEMMA ProblemIsInput ==
    /\ Abstract!Problem.edges = edges /\ Abstract!Problem.kinds = kinds
    /\ Abstract!Problem.cards = cards
    /\ Abstract!Canonical!NodesOf(Abstract!Problem) = Node
    /\ Abstract!Canonical!ColumnsOf(Abstract!Problem) = Column
BY DEF Abstract!Problem, Abstract!Canonical!NodesOf, Abstract!Canonical!ColumnsOf, Node, Column

(* A set has one cardinality. *)
LEMMA CardinalitiesAgree == \A S : Abstract!Canonical!Cardinality(S) = Cardinality(S)
BY DEF Abstract!Canonical!Cardinality, Cardinality

(* Both count alike. *)
LEMMA CountsAgree ==
    ASSUME NEW f
    PROVE  /\ \A c : Abstract!Canonical!CountOf(Abstract!Problem, f, c) = Count(f, c)
           /\ Abstract!Canonical!LeftOut(Abstract!Problem, f) = LeftFrom(f, 0)
           /\ Abstract!Canonical!EdgeTotal(Abstract!Problem, f) = EdgesFrom(f, 0)
<1>1. ASSUME NEW c PROVE Abstract!Canonical!CountOf(Abstract!Problem, f, c) = Count(f, c)
  <2>1. Abstract!Canonical!Taken(Abstract!Problem, f, c) = Given(f, c) \cap (0 .. Nodes - 1)
    BY ProblemIsInput DEF Abstract!Canonical!Taken, Given, Node
  <2>2. QED
    BY <2>1, CardinalitiesAgree DEF Abstract!Canonical!CountOf, Count, Within
<1>2. Abstract!Canonical!LeftOut(Abstract!Problem, f) = LeftFrom(f, 0)
  <2>1. Given(f, None) = LeftOver(f)
    BY DEF Given, LeftOver
  <2>2. QED
    BY <1>1, <2>1 DEF Abstract!Canonical!LeftOut, LeftFrom, Count
<1>3. Abstract!Canonical!EdgeTotal(Abstract!Problem, f) = EdgesFrom(f, 0)
  <2>1. {i \in Node : f[i] # None /\ edges[f[i]][i] = 1} = Costly(f) \cap (0 .. Nodes - 1)
    BY DEF Costly, Node
  <2>2. QED
    BY <2>1, ProblemIsInput, CardinalitiesAgree DEF Abstract!Canonical!EdgeTotal, EdgesFrom, Within
<1>4. QED
  BY <1>1, <1>2, <1>3

(* Both allow the same assignments, and the same partitions. *)
LEMMA CandidatesAgree ==
    /\ Abstract!Canonical!Ordered(Abstract!Problem) = Partial(0, 0)
    /\ Abstract!Canonical!Partitions(Abstract!Problem) = Whole(0, 0)
<1> DEFINE P == Abstract!Problem
<1>1. Abstract!Canonical!Ordered(P) = Partial(0, 0)
  <2>1. Abstract!Canonical!Ordered(P) =
          {f \in Assignment :
              /\ \A i, j \in Node : i < j /\ None \notin {f[i], f[j]} => f[i] <= f[j]
              /\ \A i \in Node : f[i] # None => edges[f[i]][i] # None}
    BY ProblemIsInput DEF Abstract!Canonical!Ordered, Assignment
  <2>2. \A f \in Assignment : \A t \in Node : f[t] # None => f[t] >= 0
    BY DEF Assignment, Column
  <2>3. QED
    BY <2>1, <2>2 DEF Partial, Matches, Node
<1>2. ASSUME NEW f \in Partial(0, 0)
      PROVE  Abstract!Canonical!LeftOut(P, f) = 0 <=> \A t \in 0 .. Nodes - 1 : f[t] # None
  <2>1. Abstract!Canonical!LeftOut(P, f) = Cardinality(LeftOver(f) \cap (0 .. Nodes - 1))
    BY CountsAgree DEF LeftFrom, Within
  <2>2. IsFiniteSet(LeftOver(f) \cap (0 .. Nodes - 1))
    BY SizesAreNatural, CountedIsFinite
  <2>3. Cardinality(LeftOver(f) \cap (0 .. Nodes - 1)) = 0 <=> LeftOver(f) \cap (0 .. Nodes - 1) = {}
    BY <2>2, FS_EmptySet
  <2>4. LeftOver(f) \cap (0 .. Nodes - 1) = {} <=> \A t \in 0 .. Nodes - 1 : f[t] # None
    BY DEF LeftOver, Node
  <2>5. QED
    BY <2>1, <2>3, <2>4
<1>3. ASSUME NEW f, NEW c \in Column
      PROVE  Abstract!Canonical!WithinBounds(Abstract!Canonical!CountOf(P, f, c), P.cards[c])
                <=> Allowed(Within(Given(f, c), 0, Nodes), c)
  BY CountsAgree, ProblemIsInput DEF Abstract!Canonical!WithinBounds, Allowed, Count
<1>4. Abstract!Canonical!Partitions(P) =
        {f \in Partial(0, 0) :
            /\ Abstract!Canonical!LeftOut(P, f) = 0
            /\ \A c \in Column : Abstract!Canonical!WithinBounds(Abstract!Canonical!CountOf(P, f, c), P.cards[c])}
  BY <1>1, ProblemIsInput DEF Abstract!Canonical!Partitions
<1>5. Whole(0, 0) = {f \in Partial(0, 0) :
            /\ \A t \in 0 .. Nodes - 1 : f[t] # None
            /\ \A c \in Column : Allowed(Within(Given(f, c), 0, Nodes), c)}
  BY DEF Whole, Column
<1> HIDE DEF P
<1>6. QED
  BY <1>1, <1>2, <1>3, <1>4, <1>5 DEF P

(* Both prefer the same of two assignments. *)
LEMMA PreferencesAgree ==
    ASSUME NEW f \in Assignment, NEW g \in Assignment
    PROVE  /\ Abstract!Canonical!PreferredPartition(Abstract!Problem, f, g) <=> BetterPartition(f, g)
           /\ Abstract!Canonical!PreferredRecovery(Abstract!Problem, f, g) <=> BetterRecovery(f, g)
<1>1. Abstract!Canonical!PreferredPartition(Abstract!Problem, f, g) <=> BetterPartition(f, g)
  BY CountsAgree, ProblemIsInput DEF Abstract!Canonical!PreferredPartition, BetterPartition, PrefersCount, Reluctant
<1>2. ASSUME NEW h \in Assignment, NEW i \in Node
      PROVE  Abstract!Canonical!Rank(h, i) = Place(h, i)
  <2>1. Stand(h, i) # None
    <3>1. i \in Position
      BY SizesAreNatural DEF Node, Position
    <3>2. QED
      BY <3>1, StandIsRule, SentinelsAreNotNumbers
  <2>2. QED
    BY <2>1 DEF Abstract!Canonical!Rank, Place, Stand
<1>3. LeftFrom(f, 0) \in Nat /\ LeftFrom(g, 0) \in Nat /\ EdgesFrom(f, 0) \in Nat /\ EdgesFrom(g, 0) \in Nat
  BY EdgesAreNatural
<1>4. /\ Below(CostFrom(f, 0), CostFrom(g, 0)) <=>
            \/ LeftFrom(f, 0) < LeftFrom(g, 0)
            \/ LeftFrom(f, 0) = LeftFrom(g, 0) /\ EdgesFrom(f, 0) < EdgesFrom(g, 0)
      /\ CostFrom(f, 0) = CostFrom(g, 0) <=>
            LeftFrom(f, 0) = LeftFrom(g, 0) /\ EdgesFrom(f, 0) = EdgesFrom(g, 0)
  BY DEF Below, CostFrom
<1>5. Abstract!Canonical!PreferredRecovery(Abstract!Problem, f, g) <=>
        \/ LeftFrom(f, 0) < LeftFrom(g, 0)
        \/ /\ LeftFrom(f, 0) = LeftFrom(g, 0)
           /\ \/ EdgesFrom(f, 0) < EdgesFrom(g, 0)
              \/ /\ EdgesFrom(f, 0) = EdgesFrom(g, 0)
                 /\ \E i \in Node : /\ \A j \in 0 .. i - 1 : f[j] = g[j]
                                    /\ Place(f, i) < Place(g, i)
  BY <1>2, CountsAgree, ProblemIsInput DEF Abstract!Canonical!PreferredRecovery
<1>6. QED
  BY <1>1, <1>4, <1>5 DEF BetterRecovery

(* Preference picks at most one: what is preferred to everything else is    *)
(* the canonical assignment.                                                *)
LEMMA CanonicalVerdict ==
    ASSUME NEW possible, possible = (IF Whole(0, 0) # {} THEN Whole(0, 0) ELSE Partial(0, 0)),
           NEW f \in possible,
           \A g \in possible :
              f = g \/ (IF Whole(0, 0) # {} THEN BetterPartition(f, g) ELSE BetterRecovery(f, g))
    PROVE  Abstract!Canonical!Verdict(Abstract!Problem) =
              [accepted |-> Whole(0, 0) # {}, assigned |-> f, counts |-> [c \in Column |-> Count(f, c)]]
<1> DEFINE P == Abstract!Problem
           Preferred(g, h) == IF Whole(0, 0) # {} THEN Abstract!Canonical!PreferredPartition(P, g, h)
                                                  ELSE Abstract!Canonical!PreferredRecovery(P, g, h)
           canonical == CHOOSE g \in possible : \A h \in possible \ {g} : Preferred(g, h)
<1>1. possible \subseteq Assignment
  BY DEF Whole, Partial
<1>2. \A g, h \in possible : Preferred(g, h) <=>
         (IF Whole(0, 0) # {} THEN BetterPartition(g, h) ELSE BetterRecovery(g, h))
  BY <1>1, PreferencesAgree
<1>3. \A g, h \in possible : Preferred(g, h) => ~Preferred(h, g)
  <2>1. \A g, h \in possible : /\ BetterPartition(g, h) => ~BetterPartition(h, g)
                               /\ BetterRecovery(g, h) => ~BetterRecovery(h, g)
    BY <1>1, BetterPartitionAsymmetric, BetterRecoveryAsymmetric
  <2> HIDE DEF Preferred
  <2>2. QED
    BY <1>2, <2>1
<1>4. Abstract!Canonical!Verdict(P) =
        [accepted |-> Whole(0, 0) # {}, assigned |-> canonical,
         counts |-> [c \in Column |-> Count(canonical, c)]]
  BY CandidatesAgree, CountsAgree, ProblemIsInput DEF Abstract!Canonical!Verdict
<1> HIDE DEF Preferred
<1>5. \A g \in possible \ {f} : Preferred(f, g)
  BY <1>2
<1>6. \A h \in possible : (\A g \in possible \ {h} : Preferred(h, g)) => h = f
  BY <1>3, <1>5
<1>7. canonical = f
  BY <1>5, <1>6
<1> HIDE DEF canonical, P
<1>8. QED
  BY <1>4, <1>7 DEF P

-----------------------------------------------------------------------------
(* The refinement.                                                         *)

(* The abstract specification starts from the same inputs. *)
LEMMA SameInput == Abstract!Input <=> Input
BY DEF Abstract!Input, Input, Abstract!Column, Column, Abstract!Node, Node, Abstract!Kinds, Kinds,
       Abstract!EdgesOf, EdgesOf

(* What agrees with the assignment up to the end is the assignment. *)
LEMMA AgreesIsSame ==
    ASSUME node = Nodes, assigned \in Assignment, NEW f \in Assignment, Agrees(f)
    PROVE  f = assigned
<1>1. \A t \in Node : f[t] = assigned[t]
  BY DEF Agrees, Node
<1>2. QED
  BY <1>1 DEF Assignment

(* A partition that has been rebuilt to its end is the canonical verdict.   *)
LEMMA RebuiltIsCanonical ==
    ASSUME VInv, pc = "rebuild", column = Columns, node = Nodes
    PROVE  Abstract!Canonical!Verdict(Abstract!Problem) =
              [accepted |-> TRUE, assigned |-> assigned, counts |-> counts]
<1>1. TypeOK /\ RebuildsTheBest /\ CountsAreExact
  BY DEF VInv, IInv
<1>2. \A f \in Assignment : Agrees(f) => f = assigned
  BY <1>1, AgreesIsSame DEF TypeOK, Assignment
<1>3. Whole(0, 0) # {} /\ Whole(0, 0) \subseteq Assignment
  BY <1>1 DEF RebuildsTheBest, Whole, Partial
<1>4. \A g \in Whole(0, 0) : assigned \in Whole(0, 0) /\ (assigned = g \/ BetterPartition(assigned, g))
  BY <1>1, <1>2, <1>3 DEF RebuildsTheBest
<1>5. Abstract!Canonical!Verdict(Abstract!Problem) =
        [accepted |-> Whole(0, 0) # {}, assigned |-> assigned,
         counts |-> [c \in Column |-> Count(assigned, c)]]
  BY <1>3, <1>4, CanonicalVerdict
<1>6. counts = [c \in Column |-> Count(assigned, c)]
  BY <1>1 DEF CountsAreExact, TypeOK
<1>7. QED
  BY <1>3, <1>5, <1>6

(* So is a recovery that has been walked to its end.                        *)
LEMMA WalkedIsCanonical ==
    ASSUME VInv, pc = "walk", node = Nodes
    PROVE  Abstract!Canonical!Verdict(Abstract!Problem) =
              [accepted |-> FALSE, assigned |-> assigned, counts |-> counts]
<1>1. TypeOK /\ WalksTheBest /\ NoPartition /\ CountsAreExact
  BY DEF VInv, IInv
<1>2. \A f \in Assignment : Agrees(f) => f = assigned
  BY <1>1, AgreesIsSame DEF TypeOK, Assignment
<1>3. Whole(0, 0) = {} /\ Partial(0, 0) \subseteq Assignment
  BY <1>1 DEF NoPartition, Partial
<1>4. \A g \in Partial(0, 0) : assigned \in Partial(0, 0) /\ (assigned = g \/ BetterRecovery(assigned, g))
  BY <1>1, <1>2, <1>3 DEF WalksTheBest
<1>5. Partial(0, 0) # {}
  <2>1. [t \in Node |-> None] \in Partial(0, 0)
    BY DEF Partial, Assignment, Node
  <2>2. QED
    BY <2>1
<1>6. Abstract!Canonical!Verdict(Abstract!Problem) =
        [accepted |-> Whole(0, 0) # {}, assigned |-> assigned,
         counts |-> [c \in Column |-> Count(assigned, c)]]
  BY <1>3, <1>4, <1>5, CanonicalVerdict
<1>7. counts = [c \in Column |-> Count(assigned, c)]
  BY <1>1 DEF CountsAreExact, TypeOK
<1>8. QED
  BY <1>3, <1>6, <1>7

(* What `assign` is seen to have decided. *)
Seen == IF pc = "done" THEN Returned ELSE Pending

(* Every step of the engine decides on the canonical verdict, or is not     *)
(* seen.                                                                    *)
LEMMA StepRefines == VInv /\ VInv' /\ [Next]_vars => [Abstract!Decide]_<<Abstract!input, Seen>>
<1> SUFFICES ASSUME VInv, VInv', [Next]_vars PROVE Abstract!Decide \/ UNCHANGED <<Abstract!input, Seen>>
  OBVIOUS
<1>1. Abstract!input' = Abstract!input
  BY InputStays DEF input, Abstract!input
<1>2. TypeOK' /\ NeverExhausted' /\ TypeOK /\ Control
  BY DEF VInv, IInv
<1>3. ASSUME pc # "done", pc' = "done", Returned' = Abstract!Canonical!Verdict(Abstract!Problem)
      PROVE  Abstract!Decide
  <2>1. Returned' # Pending
    <3>1. accepted' \in BOOLEAN /\ assigned' \in [Node -> Column \union {None}] /\ counts' \in [Column -> Nat]
      BY <1>2 DEF TypeOK, Node, Column
    <3>2. QED
      BY <3>1, PendingIsNoVerdict DEF Returned
  <2>2. QED
    BY <1>1, <1>3, <2>1 DEF Abstract!Decide
<1>4. CASE FinishRebuild
  <2>1. /\ pc = "rebuild" /\ column = Columns /\ node = Nodes /\ pc' = "done" /\ accepted' = TRUE
        /\ assigned' = assigned /\ counts' = counts
    BY <1>2, <1>4 DEF FinishRebuild, NeverExhausted
  <2>2. Returned' = [accepted |-> TRUE, assigned |-> assigned, counts |-> counts]
    BY <2>1 DEF Returned
  <2>3. QED
    BY <1>3, <2>1, <2>2, RebuiltIsCanonical
<1>5. CASE FinishWalk
  <2>1. /\ pc = "walk" /\ ~(node < Nodes) /\ pc' = "done" /\ accepted' = accepted
        /\ assigned' = assigned /\ counts' = counts
    BY <1>5 DEF FinishWalk, Walking
  <2>2. node = Nodes
    BY <1>2, <2>1, SizesAreNatural DEF TypeOK, Position
  <2>3. accepted = FALSE
    BY <1>2, <2>1 DEF Control, TypeOK
  <2>4. Returned' = [accepted |-> FALSE, assigned |-> assigned, counts |-> counts]
    BY <2>1, <2>3 DEF Returned
  <2>5. QED
    BY <1>3, <2>1, <2>2, <2>4, WalkedIsCanonical
<1>6. ASSUME pc # "done", pc' # "done" PROVE UNCHANGED <<Abstract!input, Seen>>
  BY <1>1, <1>6 DEF Seen
<1>7. CASE BeginColumn \/ AccumulatePrefix \/ BeginWindow \/ PushEndpoint
  BY <1>6, <1>7 DEF BeginColumn, AccumulatePrefix, BeginWindow, PushEndpoint
<1>8. CASE SettleNode
  <2>1. IInv /\ NeverExhausted'
    BY DEF VInv, IInv
  <2>2. pc # "done" /\ pc' # "done"
    BY <1>8, <2>1, SettleWritesNode
  <2>3. QED
    BY <1>6, <2>2
<1>9. CASE DecideAcceptance \/ RebuildColumn
  BY <1>6, <1>9 DEF DecideAcceptance, RebuildColumn
<1>10. CASE FillCell \/ Consume \/ Leave \/ Advance
  BY <1>6, <1>10 DEF FillCell, Consume, Leave, Advance, Walking
<1>11. CASE UNCHANGED vars
  BY <1>1, <1>11 DEF vars, Seen, Returned
<1> QED
  BY <1>4, <1>5, <1>7, <1>8, <1>9, <1>10, <1>11 DEF Next

(* What `assign` returns is the canonical verdict on its input, for any     *)
(* number of nodes and rules: the cheapest partition, first by preference,  *)
(* when there is one, and otherwise the recovery that loses least and comes *)
(* first in transition order, with the counts of what is returned.          *)
THEOREM EngineImplementsVerdict == Spec => ImplementsVerdict
<1>1. Init => Abstract!Init
  BY SameInput DEF Init, Abstract!Init
<1>2. VInv /\ VInv' /\ [Next]_vars => [Abstract!Decide]_<<Abstract!input, IF pc = "done" THEN Returned ELSE Pending>>
  BY StepRefines DEF Seen
<1>3. QED
  BY <1>1, <1>2, OptimalSoFar, PTL DEF Spec, ImplementsVerdict, Abstract!Spec
=============================================================================
