--------------------------- MODULE SequenceProofs ---------------------------
(***************************************************************************)
(* Theorems about the assignment engine, for any number of nodes and rules *)
(* and any cardinalities.                                                  *)
(***************************************************************************)
EXTENDS Sequence, SequenceTheorems, TLAPS

-----------------------------------------------------------------------------
(* The inductive invariant.                                                *)

(* What follows rule c when its run stops at i: the end of the document, or *)
(* a run of the next rule that starts there.                                *)
Continues(c, i) == IF c = Columns THEN i = Nodes ELSE endpoints[c][i] # None

(* Every recorded endpoint respects the rule and can be continued from, so  *)
(* the chain of endpoints reaches the last node.                            *)
EndpointsChain ==
    \A c \in Column, i \in Position : endpoints[c][i] # None =>
        /\ i + cards[c].min <= endpoints[c][i]
        /\ Reaches(i, endpoints[c][i], c)
        /\ Continues(c + 1, endpoints[c][i])

Accepting == pc \in {"column", "prefix", "window"}
Scanning  == pc \in {"prefix", "window"}
SuffixRow == IF pc = "column" THEN column ELSE column + 1

(* A cost exists only where an endpoint does. *)
CostsHaveEndpoints ==
    /\ Accepting => \A i \in Position : suffix[i] # None => Continues(SuffixRow, i)
    /\ Scanning  => \A i \in Position : current[i] # None => endpoints[column][i] # None

(* Cumulative costs grow, as far as they are computed. *)
PrefixGrows ==
    /\ pc = "prefix" => /\ \A i, j \in 0 .. node : i <= j => prefix[i] <= prefix[j]
    /\ pc = "window" => \A i, j \in Position : i <= j => prefix[i] <= prefix[j]

(* Every candidate in the deque is far enough for the minimum and can be    *)
(* continued from, and its key covers the prefix it is compared against.    *)
DequeHoldsCandidates ==
    pc = "window" => \A k \in 1 .. Len(deque) :
        /\ deque[k].endpoint >= Lo
        /\ suffix[deque[k].endpoint] # None
        /\ deque[k].key >= prefix[deque[k].endpoint]

Assigning == pc \in {"rebuild", "walk"}

(* The loops assign nodes and rules from the first on. *)
AssignedBehind ==
    /\ pc \in {"column", "prefix", "window", "table"} => \A i \in Node : assigned[i] = None
    /\ Assigning => \A i \in Node :
          /\ i >= node => assigned[i] = None
          /\ assigned[i] # None => assigned[i] <= column
    /\ pc = "rebuild" => \A i \in Node : assigned[i] # None => assigned[i] < column

(* Reconstruction leaves no node behind it, and each finished rule has a    *)
(* count within its cardinality.                                            *)
RebuiltSoFar ==
    pc = "rebuild" =>
        /\ Continues(column, node)
        /\ \A i \in Node : i < node => assigned[i] # None
        /\ \A c \in Column : c < column =>
              /\ counts[c] >= cards[c].min
              /\ cards[c].max # Unbounded => counts[c] <= cards[c].max

(* Past the last rule a node can only be left out. *)
LastColumnLeaves ==
    pc \in {"table", "walk"} => \A i \in Node :
        (pc = "walk" \/ i > node \/ (i = node /\ column < Columns))
            => table[i][Columns] = LeaveCost(i, Columns)

Control ==
    /\ Scanning => column < Columns
    /\ pc = "done" \/ ~accepted

IInv ==
    /\ TypeOK /\ NeverExhausted /\ AssignedInOrder /\ AcceptedIsPartition
    /\ Control /\ EndpointsChain /\ CostsHaveEndpoints /\ PrefixGrows
    /\ DequeHoldsCandidates /\ AssignedBehind /\ RebuiltSoFar /\ LastColumnLeaves

-----------------------------------------------------------------------------
(* Facts about the input, which no step changes.                           *)

(* An edge costs a natural number wherever it is read.                      *)
LEMMA EdgeCostIsNatural ==
    ASSUME Input, NEW i \in Node, NEW c \in Column
    PROVE  EdgeCost(i, c) \in Nat
BY SentinelsAreNotNumbers DEF Input, EdgeCost, Matches

(* A rule has a natural minimum, and a natural or unbounded maximum.        *)
LEMMA CardinalityTypes ==
    ASSUME Input, NEW c \in Column
    PROVE  cards[c].min \in Nat /\ cards[c].max \in Nat \union {Unbounded}
BY CardinalitiesAreBounds DEF Input

(* The engine never writes the matrix it was given.                         *)
LEMMA InputStays == [Next]_vars => input' = input
BY DEF Next, vars, BeginColumn, AccumulatePrefix, BeginWindow, PushEndpoint, SettleNode,
       DecideAcceptance, RebuildColumn, FinishRebuild, FillCell, Consume, Leave, Advance,
       FinishWalk

(* A prepared matrix that no step changes is still a prepared matrix.       *)
LEMMA InputStaysInput == Input /\ input' = input => Input'
BY DEF Input, input

(* An unchanged input has unchanged kinds, cardinalities and edges.         *)
LEMMA InputParts == input' = input => kinds' = kinds /\ cards' = cards /\ edges' = edges
BY DEF input

(* Recovery costs are pairs of natural numbers. *)
LEMMA CellCostIsCost ==
    ASSUME TypeOK, NEW i \in Position, NEW c \in 0 .. Columns
    PROVE  CellCost(i, c) \in Cost
<1> USE SizesAreNatural
<1>1. Zero \in Cost
  BY DEF Zero, Cost
<1>2. c # Columns => table[i][c + 1] \in Cost
  BY DEF TypeOK
<1>3. CASE i = Nodes
  BY <1>1, <1>2, <1>3 DEF CellCost
<1>4. CASE i # Nodes
  <2>1. i \in Node /\ table[i + 1][c] \in Cost
    BY <1>4 DEF TypeOK, Node, Position
  <2>2. LeaveCost(i, c) \in Cost
    BY <2>1 DEF LeaveCost, Plus, Cost
  <2>3. CanConsume(i, c) => ConsumeCost(i, c) \in Cost
    <3>1. CanConsume(i, c) => EdgeCost(i, c) \in Nat
      BY <2>1, EdgeCostIsNatural DEF CanConsume, Column, TypeOK
    <3>2. QED
      BY <2>1, <3>1 DEF ConsumeCost, Plus, Cost
  <2>4. QED
    BY <1>2, <1>4, <2>2, <2>3 DEF CellCost, Cheaper
<1>5. QED
  BY <1>3, <1>4

-----------------------------------------------------------------------------
(* Initially nothing is assigned and only the end of the document has a    *)
(* cost.                                                                   *)
LEMMA InitEstablishesInvariant == Init => IInv
<1> SUFFICES ASSUME Init PROVE IInv
  OBVIOUS
<1> USE SizesAreNatural, SentinelsAreNotNumbers DEF Init
<1>1. TypeOK
  <2>1. suffix \in [Position -> Nat \union {None}] /\ node \in Position
    BY DEF Position
  <2>2. endpoints \in [Column -> [Position -> Position \union {None}]]
    OBVIOUS
  <2>3. table \in [Position -> [0 .. Columns -> Cost]]
    BY DEF Cost, Zero
  <2>4. QED
    BY <2>1, <2>2, <2>3 DEF TypeOK
<1>2. /\ NeverExhausted /\ AssignedInOrder /\ AcceptedIsPartition /\ Control
      /\ PrefixGrows /\ DequeHoldsCandidates /\ AssignedBehind
      /\ RebuiltSoFar /\ LastColumnLeaves
  BY DEF NeverExhausted, AssignedInOrder, AcceptedIsPartition, Control, Scanning,
         PrefixGrows, DequeHoldsCandidates, AssignedBehind, Assigning, RebuiltSoFar,
         LastColumnLeaves
<1>3. EndpointsChain /\ CostsHaveEndpoints
  BY DEF EndpointsChain, CostsHaveEndpoints, Scanning, SuffixRow, Continues, Column
<1> QED
  BY <1>1, <1>2, <1>3 DEF IInv

(* The cost of a candidate covers what the nodes before the run cost, so    *)
(* the subtraction `checked_sub` guards never fails.                        *)
LEMMA KeysCoverPrefix ==
    ASSUME TypeOK, PrefixGrows, DequeHoldsCandidates, pc = "window", column \in Column,
           NEW k \in 1 .. Len(deque)
    PROVE  /\ deque[k].key - prefix[node] \in Nat
           /\ deque[k].key >= prefix[node]
           /\ deque[k].endpoint \in Position
           /\ node + cards[column].min <= deque[k].endpoint
<1>1. deque[k] \in Entry
  BY DEF TypeOK
<1>2. cards[column].min \in Nat
  BY CardinalityTypes DEF TypeOK
<1>3. deque[k].endpoint \in Position /\ deque[k].key \in Nat
  BY <1>1 DEF Entry
<1>4. node + cards[column].min <= deque[k].endpoint
  BY <1>3 DEF DequeHoldsCandidates, Lo
<1>5. node \in Position /\ node <= deque[k].endpoint
  <2>1. node \in Position
    BY DEF TypeOK
  <2>2. QED
    BY <1>2, <1>3, <1>4, <2>1, SizesAreNatural DEF Position
<1>6. prefix[node] <= prefix[deque[k].endpoint] /\ prefix[node] \in Nat
      /\ prefix[deque[k].endpoint] \in Nat
  BY <1>3, <1>5 DEF PrefixGrows, TypeOK
<1>7. deque[k].key >= prefix[deque[k].endpoint]
  BY DEF DequeHoldsCandidates
<1>8. QED
  BY <1>3, <1>4, <1>6, <1>7

(* Every loop step of `accept`, `reconstruct` and `recover` keeps every     *)
(* index, cost and endpoint in its range.                                   *)
LEMMA TypeStep == IInv /\ [Next]_vars => TypeOK'
<1> SUFFICES ASSUME IInv, [Next]_vars PROVE TypeOK'
  OBVIOUS
<1> USE SizesAreNatural, SentinelsAreNotNumbers
<1>0. TypeOK /\ Input /\ Input'
  BY InputStays, InputStaysInput DEF IInv, TypeOK
<1>1. CASE BeginColumn
  BY <1>0, <1>1 DEF BeginColumn, TypeOK, Position
<1>2. CASE AccumulatePrefix
  <2>1. EdgeCost(node, column) \in Nat
    BY <1>0, <1>2, EdgeCostIsNatural
       DEF AccumulatePrefix, IInv, Control, Scanning, TypeOK, Node, Column, Position
  <2>2. node + 1 \in Position /\ prefix' \in [Position -> Nat]
    BY <1>0, <1>2, <2>1 DEF AccumulatePrefix, TypeOK, Position
  <2>3. QED
    BY <1>0, <1>2, <2>2 DEF AccumulatePrefix, TypeOK
<1>3. CASE BeginWindow
  BY <1>0, <1>3 DEF BeginWindow, TypeOK, Entry
<1>4. CASE PushEndpoint
  <2>1. column \in Column /\ cards[column].min \in Nat
    BY <1>0, <1>4, CardinalityTypes DEF PushEndpoint, IInv, Control, Scanning, TypeOK, Column
  <2>2. previousLo - 1 \in Position
    BY <1>0, <1>4, <2>1 DEF PushEndpoint, TypeOK, Lo, Position
  <2>3. deque' \in Seq(Entry)
    <3>1. CASE suffix[previousLo - 1] = None
      BY <1>0, <1>4, <3>1 DEF PushEndpoint, TypeOK
    <3>2. CASE suffix[previousLo - 1] # None
      <4> DEFINE key == suffix[previousLo - 1] + prefix[previousLo - 1]
      <4>1. PICK kept \in 0 .. Len(deque) :
              deque' = Append(SubSeq(deque, 1, kept), [endpoint |-> previousLo - 1, key |-> key])
        BY <1>4, <3>2 DEF PushEndpoint
      <4>2. [endpoint |-> previousLo - 1, key |-> key] \in Entry
        BY <1>0, <2>2, <3>2 DEF TypeOK, Entry
      <4>3. SubSeq(deque, 1, kept) \in Seq(Entry)
        BY <1>0, <4>1 DEF TypeOK
      <4>4. QED
        BY <4>1, <4>2, <4>3
    <3>3. QED
      BY <3>1, <3>2
  <2>4. previousLo' \in 0 .. Nodes + 1
    BY <1>0, <1>4, <2>2 DEF PushEndpoint, TypeOK, Position
  <2>5. QED
    BY <1>0, <1>4, <2>3, <2>4 DEF PushEndpoint, TypeOK
<1>5. CASE SettleNode
  <2>1. column \in Column /\ node \in Position
    BY <1>0, <1>5 DEF SettleNode, IInv, Control, Scanning, TypeOK, Column
  <2>2. PICK gone \in 0 .. Len(deque) : Settle(gone)
    BY <1>5 DEF SettleNode
  <2>3. deque' \in Seq(Entry)
    BY <1>0, <2>2 DEF Settle, TypeOK
  <2>4. /\ current' \in [Position -> Nat \union {None}]
        /\ endpoints' \in [Column -> [Position -> Position \union {None}]]
    <3>1. CASE gone = Len(deque)
      BY <1>0, <2>2, <3>1 DEF Settle, TypeOK
    <3>2. CASE gone # Len(deque)
      <4>1. deque[gone + 1] \in Entry /\ gone + 1 \in 1 .. Len(deque)
        BY <1>0, <2>2, <3>2 DEF TypeOK
      <4>2. deque[gone + 1].key - prefix[node] \in Nat
        BY <1>0, <1>5, <2>1, <4>1, KeysCoverPrefix DEF SettleNode, IInv
      <4>3. deque[gone + 1].endpoint \in Position
        BY <4>1 DEF Entry
      <4>4. /\ current' = [current EXCEPT ![node] = deque[gone + 1].key - prefix[node]]
            /\ endpoints' = [endpoints EXCEPT ![column][node] = deque[gone + 1].endpoint]
        BY <2>2, <3>2 DEF Settle
      <4>5. QED
        BY <1>0, <2>1, <4>2, <4>3, <4>4 DEF TypeOK
    <3>3. QED
      BY <3>1, <3>2
  <2>5. suffix' \in [Position -> Nat \union {None}]
    BY <1>0, <1>5, <2>4 DEF SettleNode, TypeOK
  <2>6. node' \in Position
    BY <1>5, <2>1 DEF SettleNode, Position
  <2>7. pc' \in {"exhausted", "column", "window"}
    BY <2>2 DEF Settle, AfterNode
  <2>8. QED
    BY <1>0, <1>5, <2>3, <2>4, <2>5, <2>6, <2>7 DEF SettleNode, TypeOK
<1>6. CASE DecideAcceptance
  BY <1>0, <1>6 DEF DecideAcceptance, TypeOK, Position
<1>7. CASE RebuildColumn
  <2>1. CASE endpoints[column][node] = None
    BY <1>0, <1>7, <2>1 DEF RebuildColumn, TypeOK
  <2>2. CASE endpoints[column][node] # None
    <3>1. column \in Column /\ cards[column].min \in Nat
      BY <1>0, <1>7, CardinalityTypes DEF RebuildColumn, TypeOK, Column
    <3>2. node \in Position /\ endpoints[column][node] \in Position
      BY <1>0, <2>2, <3>1 DEF TypeOK
    <3>3. node + cards[column].min <= endpoints[column][node]
      BY <2>2, <3>1, <3>2 DEF IInv, EndpointsChain
    <3>4. endpoints[column][node] - node \in Nat
      BY <3>1, <3>2, <3>3 DEF Position
    <3>5. counts' \in [Column -> Nat] /\ assigned' \in [Node -> Column \union {None}]
      BY <1>0, <1>7, <2>2, <3>1, <3>4 DEF RebuildColumn, TypeOK
    <3>6. node' \in Position /\ column' \in 0 .. Columns
      BY <1>7, <2>2, <3>1, <3>2 DEF RebuildColumn, Column
    <3>7. QED
      BY <1>0, <1>7, <2>2, <3>5, <3>6 DEF RebuildColumn, TypeOK
  <2>3. QED
    BY <2>1, <2>2
<1>8. CASE FinishRebuild
  BY <1>0, <1>8 DEF FinishRebuild, TypeOK
<1>9. CASE FillCell
  <2>1. CellCost(node, column) \in Cost
    BY <1>0, CellCostIsCost DEF TypeOK
  <2>2. table' \in [Position -> [0 .. Columns -> Cost]]
    BY <1>0, <1>9, <2>1 DEF FillCell, TypeOK
  <2>3. QED
    BY <1>0, <1>9, <2>2 DEF FillCell, TypeOK, Position
<1>10. CASE Consume
  <2>1. node \in Node /\ column \in Column /\ node + 1 \in Position
    BY <1>0, <1>10 DEF Consume, ConsumeKeepsCost, CanConsume, TypeOK, Node, Column, Position
  <2>2. QED
    BY <1>0, <1>10, <2>1 DEF Consume, TypeOK
<1>11. CASE Leave
  BY <1>0, <1>11 DEF Leave, LeaveKeepsCost, TypeOK, Position
<1>12. CASE Advance
  BY <1>0, <1>12 DEF Advance, TypeOK
<1>13. CASE FinishWalk
  BY <1>0, <1>13 DEF FinishWalk, TypeOK
<1>14. CASE UNCHANGED vars
  BY <1>0, <1>14 DEF vars, TypeOK
<1> QED
  BY <1>1, <1>2, <1>3, <1>4, <1>5, <1>6, <1>7, <1>8, <1>9, <1>10, <1>11, <1>12, <1>13, <1>14
     DEF Next

(* Only a finished reconstruction accepts, and a scanned column is a column. *)
LEMMA ControlStep == IInv /\ [Next]_vars => Control'
<1> SUFFICES ASSUME IInv, [Next]_vars PROVE Control'
  OBVIOUS
<1> USE SizesAreNatural DEF Control, Scanning
<1>0. TypeOK /\ Control
  BY DEF IInv
<1>1. CASE BeginColumn
  BY <1>0, <1>1 DEF BeginColumn, TypeOK
<1>2. CASE AccumulatePrefix \/ BeginWindow \/ PushEndpoint
  BY <1>0, <1>2 DEF AccumulatePrefix, BeginWindow, PushEndpoint
<1>3. CASE SettleNode
  BY <1>0, <1>3 DEF SettleNode, Settle, AfterNode
<1>4. CASE DecideAcceptance \/ RebuildColumn \/ FinishRebuild
  BY <1>0, <1>4 DEF DecideAcceptance, RebuildColumn, FinishRebuild
<1>5. CASE FillCell \/ Consume \/ Leave \/ Advance \/ FinishWalk
  BY <1>0, <1>5 DEF FillCell, Consume, Leave, Advance, FinishWalk, Walking
<1>6. CASE UNCHANGED vars
  BY <1>0, <1>6 DEF vars
<1> QED
  BY <1>1, <1>2, <1>3, <1>4, <1>5, <1>6 DEF Next

(* The cumulative costs of a column only grow: an edge never costs less     *)
(* than nothing.                                                            *)
LEMMA PrefixStep == IInv /\ [Next]_vars => PrefixGrows'
<1> SUFFICES ASSUME IInv, [Next]_vars PROVE PrefixGrows'
  OBVIOUS
<1> USE SizesAreNatural DEF PrefixGrows
<1>0. TypeOK /\ Control /\ PrefixGrows
  BY DEF IInv
<1>1. CASE BeginColumn
  BY <1>0, <1>1 DEF BeginColumn, Position
<1>2. CASE AccumulatePrefix
  <2>1. EdgeCost(node, column) \in Nat /\ node \in Node
    BY <1>0, <1>2, EdgeCostIsNatural
       DEF AccumulatePrefix, Control, Scanning, TypeOK, Node, Column, Position
  <2> SUFFICES ASSUME NEW i \in 0 .. node', NEW j \in 0 .. node', i <= j
               PROVE  prefix'[i] <= prefix'[j]
    BY <1>2 DEF AccumulatePrefix
  <2>2. /\ node' = node + 1 /\ node' \in Position
        /\ \A t \in 0 .. node : t \in Position /\ prefix[t] \in Nat /\ prefix'[t] = prefix[t]
        /\ prefix'[node + 1] = prefix[node] + EdgeCost(node, column)
    BY <1>0, <1>2, <2>1 DEF AccumulatePrefix, TypeOK, Node, Position
  <2>3. \A t \in 0 .. node : prefix[t] <= prefix[node]
    BY <1>0, <1>2, <2>1 DEF AccumulatePrefix, Node
  <2>4. CASE j <= node
    <3>1. i \in 0 .. node /\ j \in 0 .. node
      BY <2>1, <2>2, <2>4 DEF Node
    <3>2. QED
      BY <1>0, <1>2, <2>2, <3>1 DEF AccumulatePrefix
  <2>5. CASE j = node + 1 /\ i <= node
    BY <2>1, <2>2, <2>3, <2>5 DEF Node
  <2>6. CASE j = node + 1 /\ i = node + 1
    BY <2>1, <2>2, <2>6 DEF Node
  <2>7. QED
    BY <2>1, <2>2, <2>4, <2>5, <2>6 DEF Node
<1>3. CASE BeginWindow
  BY <1>0, <1>3 DEF BeginWindow, Position
<1>4. CASE PushEndpoint
  BY <1>0, <1>4 DEF PushEndpoint
<1>5. CASE SettleNode
  BY <1>0, <1>5 DEF SettleNode, Settle, AfterNode
<1>6. CASE DecideAcceptance \/ RebuildColumn \/ FinishRebuild
  BY <1>6 DEF DecideAcceptance, RebuildColumn, FinishRebuild
<1>7. CASE FillCell \/ Consume \/ Leave \/ Advance \/ FinishWalk
  BY <1>7 DEF FillCell, Consume, Leave, Advance, FinishWalk, Walking
<1>8. CASE UNCHANGED vars
  BY <1>0, <1>8 DEF vars
<1> QED
  BY <1>1, <1>2, <1>3, <1>4, <1>5, <1>6, <1>7, <1>8 DEF Next

(* Dropping the first `gone` entries of a sequence shifts the others.       *)
LEMMA TailOfSequence ==
    ASSUME NEW S, NEW s \in Seq(S), NEW gone \in 0 .. Len(s),
           NEW k \in 1 .. Len(SubSeq(s, gone + 1, Len(s)))
    PROVE  /\ gone + k \in 1 .. Len(s)
           /\ SubSeq(s, gone + 1, Len(s))[k] = s[gone + k]
BY SubSeqProperties

(* When the scan moves to the node before, its window starts one endpoint   *)
(* earlier.                                                                 *)
LEMMA WindowFollows ==
    ASSUME TypeOK, column \in Column, node \in Nat,
           input' = input, node' = node - 1, column' = column
    PROVE  Lo' = Lo - 1 /\ Lo \in Nat
<1>1. cards[column].min \in Nat
  BY CardinalityTypes DEF TypeOK
<1>2. cards' = cards
  BY InputParts
<1>3. QED
  BY <1>1, <1>2 DEF Lo

(* An endpoint enters the deque only when the window of the node reaches    *)
(* it, and stays far enough for every earlier node.                         *)
LEMMA DequeStep == IInv /\ [Next]_vars => DequeHoldsCandidates'
<1> SUFFICES ASSUME IInv, [Next]_vars, pc' = "window", NEW k \in 1 .. Len(deque')
             PROVE  /\ deque'[k].endpoint >= Lo'
                    /\ suffix'[deque'[k].endpoint] # None
                    /\ deque'[k].key >= prefix'[deque'[k].endpoint]
  BY DEF DequeHoldsCandidates
<1> USE SizesAreNatural
<1>0. TypeOK /\ Control /\ DequeHoldsCandidates
  BY DEF IInv
<1>1. CASE BeginWindow
  BY <1>1 DEF BeginWindow
<1>2. CASE PushEndpoint
  <2>1. column \in Column /\ cards[column].min \in Nat /\ node \in Nat
    BY <1>0, <1>2, CardinalityTypes
       DEF PushEndpoint, Control, Scanning, TypeOK, Column, Position
  <2>2. previousLo - 1 \in Position /\ previousLo - 1 >= Lo
    <3>1. Lo \in Nat /\ previousLo \in 0 .. Nodes + 1 /\ previousLo > Lo
      <4>1. previousLo \in 0 .. Nodes + 1
        BY <1>0 DEF TypeOK
      <4>2. previousLo > Lo
        BY <1>2 DEF PushEndpoint
      <4>3. QED
        BY <2>1, <4>1, <4>2 DEF Lo
    <3>2. QED
      BY <3>1 DEF Position
  <2>3. suffix' = suffix /\ prefix' = prefix /\ Lo' = Lo
    BY <1>2, InputStays, InputParts DEF PushEndpoint, Lo
  <2>4. CASE suffix[previousLo - 1] = None
    BY <1>0, <1>2, <2>3, <2>4 DEF PushEndpoint, DequeHoldsCandidates
  <2>5. CASE suffix[previousLo - 1] # None
    <3> DEFINE key   == suffix[previousLo - 1] + prefix[previousLo - 1]
               fresh == [endpoint |-> previousLo - 1, key |-> key]
    <3>1. PICK kept \in 0 .. Len(deque) : deque' = Append(SubSeq(deque, 1, kept), fresh)
      BY <1>2, <2>5 DEF PushEndpoint
    <3>2. deque \in Seq(Entry) /\ Len(deque) \in Nat
      BY <1>0 DEF TypeOK
    <3>3. /\ SubSeq(deque, 1, kept) \in Seq(Entry)
          /\ Len(SubSeq(deque, 1, kept)) = kept
          /\ \A i \in 1 .. kept : SubSeq(deque, 1, kept)[i] = deque[i]
      BY <3>2, SubSeqProperties
    <3>4. fresh.key >= prefix[fresh.endpoint]
      BY <1>0, <2>2, <2>5 DEF TypeOK
    <3>5. CASE k <= kept
      <4>1. k \in 1 .. kept /\ k \in 1 .. Len(deque)
        BY <3>1, <3>2, <3>3, <3>5
      <4>2. deque'[k] = deque[k]
        BY <3>1, <3>3, <4>1
      <4>3. QED
        BY <1>0, <1>2, <2>3, <4>1, <4>2 DEF PushEndpoint, DequeHoldsCandidates
    <3>6. CASE k > kept
      <4>1. deque'[k] = fresh
        BY <3>1, <3>2, <3>3, <3>6
      <4>2. QED
        BY <2>2, <2>3, <2>5, <3>4, <4>1
    <3>7. QED
      BY <3>1, <3>2, <3>5, <3>6
  <2>6. QED
    BY <2>4, <2>5
<1>3. CASE SettleNode
  <2>1. PICK gone \in 0 .. Len(deque) : Settle(gone)
    BY <1>3 DEF SettleNode
  <2>2. deque \in Seq(Entry) /\ Len(deque) \in Nat
    BY <1>0 DEF TypeOK
  <2>3. /\ gone + k \in 1 .. Len(deque)
        /\ deque'[k] = deque[gone + k]
    <3>1. deque' = SubSeq(deque, gone + 1, Len(deque))
      BY <2>1 DEF Settle
    <3>2. QED
      BY <2>2, <3>1, TailOfSequence
  <2>4. node # 0 /\ suffix' = suffix /\ prefix' = prefix
    BY <1>3, <2>1 DEF SettleNode, Settle, AfterNode
  <2>5. column \in Column /\ node \in Nat
    BY <1>0, <1>3 DEF SettleNode, Control, Scanning, TypeOK, Column, Position
  <2>6. cards[column].min \in Nat /\ deque[gone + k].endpoint \in Position
    <3>1. deque[gone + k] \in Entry
      BY <2>2, <2>3
    <3>2. QED
      BY <1>0, <2>5, <3>1, CardinalityTypes DEF TypeOK, Entry
  <2>7. Lo' = Lo - 1 /\ Lo \in Nat
    <3>1. node' = node - 1 /\ column' = column
      BY <1>3, <2>4 DEF SettleNode
    <3>2. QED
      BY <1>0, <2>5, <3>1, InputStays, WindowFollows
  <2>8. QED
    BY <1>0, <1>3, <2>3, <2>4, <2>6, <2>7 DEF SettleNode, DequeHoldsCandidates, Position
<1>4. CASE BeginColumn \/ AccumulatePrefix \/ DecideAcceptance \/ RebuildColumn \/ FinishRebuild
  BY <1>4 DEF BeginColumn, AccumulatePrefix, DecideAcceptance, RebuildColumn, FinishRebuild
<1>5. CASE FillCell \/ Consume \/ Leave \/ Advance \/ FinishWalk
  BY <1>5 DEF FillCell, Consume, Leave, Advance, FinishWalk, Walking
<1>6. CASE UNCHANGED vars
  BY <1>0, <1>6, InputStays, InputParts DEF vars, DequeHoldsCandidates, Lo
<1> QED
  BY <1>1, <1>2, <1>3, <1>4, <1>5, <1>6 DEF Next

(* A cost and its endpoint are recorded together, the endpoint is one the   *)
(* next rule continues from, and no recorded endpoint is ever erased.       *)
LEMMA EndpointsStep == IInv /\ [Next]_vars => (EndpointsChain /\ CostsHaveEndpoints)'
<1> SUFFICES ASSUME IInv, [Next]_vars PROVE EndpointsChain' /\ CostsHaveEndpoints'
  OBVIOUS
<1> USE SizesAreNatural
<1>0. TypeOK /\ Control /\ EndpointsChain /\ CostsHaveEndpoints
  BY DEF IInv
<1>1. input' = input /\ kinds' = kinds /\ cards' = cards /\ edges' = edges
  BY InputStays, InputParts
<1>2. endpoints' = endpoints => EndpointsChain'
  BY <1>0, <1>1 DEF EndpointsChain, Reaches, Matches, Continues
<1>3. CASE BeginColumn
  <2>1. /\ column' + 1 = column /\ pc = "column" /\ pc' = "prefix"
        /\ \A i \in Position : current'[i] = None
        /\ suffix' = suffix /\ endpoints' = endpoints
    BY <1>0, <1>3 DEF BeginColumn, TypeOK
  <2>2. QED
    BY <1>0, <1>2, <2>1 DEF CostsHaveEndpoints, Accepting, Scanning, SuffixRow, Continues
<1>4. CASE AccumulatePrefix \/ BeginWindow \/ PushEndpoint
  BY <1>0, <1>2, <1>4 DEF AccumulatePrefix, BeginWindow, PushEndpoint, CostsHaveEndpoints,
                           Accepting, Scanning, SuffixRow, Continues
<1>5. CASE SettleNode
  <2>1. PICK gone \in 0 .. Len(deque) : Settle(gone)
    BY <1>5 DEF SettleNode
  <2>2. column \in Column /\ node \in Position /\ column' = column /\ pc = "window"
    BY <1>0, <1>5 DEF SettleNode, Control, Scanning, TypeOK, Column
  <2>3. CASE gone = Len(deque)
    <3>1. endpoints' = endpoints /\ current' = current /\ pc' = AfterNode
      BY <2>1, <2>3 DEF Settle
    <3>2. CASE node = 0
      <4>1. suffix' = current /\ pc' = "column"
        BY <1>5, <3>1, <3>2 DEF SettleNode, AfterNode
      <4>2. \A i \in Position : suffix'[i] # None => endpoints'[column][i] # None
        BY <1>0, <2>2, <3>1, <4>1 DEF CostsHaveEndpoints, Scanning
      <4>3. QED
        BY <1>2, <2>2, <3>1, <4>1, <4>2
           DEF CostsHaveEndpoints, Accepting, Scanning, SuffixRow, Continues, Column
    <3>3. CASE node # 0
      BY <1>0, <1>2, <1>5, <2>2, <3>1, <3>3
         DEF SettleNode, CostsHaveEndpoints, Accepting, Scanning, SuffixRow, Continues, AfterNode
    <3>4. QED
      BY <3>2, <3>3
  <2>4. CASE gone # Len(deque)
    <3>1. PICK e : e = deque[gone + 1].endpoint
      OBVIOUS
    <3>2. /\ Reaches(node, e, column)
          /\ current' = [current EXCEPT ![node] = deque[gone + 1].key - prefix[node]]
          /\ endpoints' = [endpoints EXCEPT ![column][node] = e]
          /\ pc' \in {AfterNode, "exhausted"}
      BY <2>1, <2>4, <3>1 DEF Settle
    <3>3. /\ e \in Position /\ node + cards[column].min <= e
          /\ suffix[e] # None
      <4>1. gone + 1 \in 1 .. Len(deque)
        BY <1>0, <2>4 DEF TypeOK
      <4>2. QED
        BY <1>0, <2>2, <3>1, <4>1, KeysCoverPrefix DEF IInv, DequeHoldsCandidates
    <3>4. Continues(column + 1, e)
      BY <1>0, <2>2, <3>3 DEF CostsHaveEndpoints, Accepting, SuffixRow
    <3>5. e # None
      BY <3>3, SentinelsAreNotNumbers DEF Position
    <3>6. \A c \in Column, i \in Position :
            endpoints'[c][i] = IF c = column /\ i = node THEN e ELSE endpoints[c][i]
      BY <1>0, <2>2, <3>2 DEF TypeOK
    <3>7. \A c \in 0 .. Columns, i \in Position : Continues(c, i) => Continues(c, i)'
      BY <3>5, <3>6 DEF Continues, Column
    <3>8. ASSUME NEW c \in Column, NEW i \in Position, endpoints'[c][i] # None
          PROVE  /\ i + cards'[c].min <= endpoints'[c][i]
                 /\ Reaches(i, endpoints[c][i], c)'
                 /\ Continues(c + 1, endpoints[c][i])'
      <4>1. CASE c = column /\ i = node
        <5>1. endpoints'[c][i] = e
          BY <3>6, <4>1
        <5>2. Reaches(i, endpoints[c][i], c)'
          BY <1>1, <3>2, <4>1, <5>1 DEF Reaches, Matches
        <5>3. Continues(c + 1, e)'
          <6>1. column + 1 \in 0 .. Columns
            BY <2>2 DEF Column
          <6>2. QED
            BY <3>3, <3>4, <3>7, <4>1, <6>1
        <5>4. QED
          BY <1>1, <3>3, <4>1, <5>1, <5>2, <5>3 DEF Continues
      <4>2. CASE ~(c = column /\ i = node)
        <5>1. endpoints'[c][i] = endpoints[c][i] /\ endpoints[c][i] # None
          BY <3>6, <3>8, <4>2
        <5>2. endpoints[c][i] \in Position
          BY <1>0, <5>1 DEF TypeOK
        <5>3. /\ i + cards[c].min <= endpoints[c][i]
              /\ Reaches(i, endpoints[c][i], c)
              /\ Continues(c + 1, endpoints[c][i])
          BY <1>0, <5>1 DEF EndpointsChain
        <5>4. Reaches(i, endpoints[c][i], c)'
          BY <1>1, <5>1, <5>3 DEF Reaches, Matches
        <5>5. Continues(c + 1, endpoints[c][i])'
          BY <3>7, <5>1, <5>2, <5>3 DEF Column, Continues
        <5>6. QED
          BY <1>1, <5>1, <5>3, <5>4, <5>5
      <4>3. QED
        BY <4>1, <4>2
    <3>9. EndpointsChain'
      BY <3>8 DEF EndpointsChain
    <3>10. \A i \in Position : current'[i] # None => endpoints'[column][i] # None
      BY <1>0, <2>2, <3>2, <3>5, <3>6 DEF CostsHaveEndpoints, Scanning, TypeOK
    <3>11. CASE node = 0
      <4>1. suffix' = current' /\ pc' \in {"column", "exhausted"}
        BY <1>5, <3>2, <3>11 DEF SettleNode, AfterNode
      <4>2. \A i \in Position : suffix'[i] # None => Continues(column, i)'
        BY <2>2, <3>10, <4>1 DEF Continues, Column
      <4>3. QED
        BY <2>2, <3>9, <4>1, <4>2 DEF CostsHaveEndpoints, Accepting, Scanning, SuffixRow, Continues
    <3>12. CASE node # 0
      <4>1. suffix' = suffix /\ pc' \in {"window", "exhausted"}
        BY <1>5, <3>2, <3>12 DEF SettleNode, AfterNode
      <4>2. \A i \in Position : suffix'[i] # None => Continues(column + 1, i)'
        <5>1. \A i \in Position : suffix[i] # None => Continues(column + 1, i)
          BY <1>0, <2>2 DEF CostsHaveEndpoints, Accepting, SuffixRow
        <5>2. column + 1 \in 0 .. Columns
          BY <2>2 DEF Column
        <5>3. QED
          BY <2>2, <3>7, <4>1, <5>1, <5>2
      <4>3. QED
        BY <2>2, <3>9, <3>10, <4>1, <4>2
           DEF CostsHaveEndpoints, Accepting, Scanning, SuffixRow, Continues
    <3>13. QED
      BY <3>11, <3>12
  <2>5. QED
    BY <2>3, <2>4
<1>6. CASE DecideAcceptance \/ RebuildColumn \/ FinishRebuild
  BY <1>0, <1>2, <1>6 DEF DecideAcceptance, RebuildColumn, FinishRebuild, CostsHaveEndpoints,
                           Accepting, Scanning
<1>7. CASE FillCell \/ Consume \/ Leave \/ Advance \/ FinishWalk
  BY <1>0, <1>2, <1>7 DEF FillCell, Consume, Leave, Advance, FinishWalk, Walking,
                           CostsHaveEndpoints, Accepting, Scanning
<1>8. CASE UNCHANGED vars
  BY <1>0, <1>2, <1>8 DEF vars, CostsHaveEndpoints, Accepting, Scanning, SuffixRow, Continues
<1> QED
  BY <1>3, <1>4, <1>5, <1>6, <1>7, <1>8 DEF Next

(* The last column of the recovery table, once filled, is never rewritten. *)
LEMMA LastColumnStep == IInv /\ [Next]_vars => LastColumnLeaves'
<1> SUFFICES ASSUME IInv, [Next]_vars, pc' \in {"table", "walk"}, NEW i \in Node,
                    pc' = "walk" \/ i > node' \/ (i = node' /\ column' < Columns)
             PROVE  table'[i][Columns] = LeaveCost(i, Columns)'
  BY DEF LastColumnLeaves
<1> USE SizesAreNatural
<1>0. TypeOK /\ LastColumnLeaves /\ Control
  BY DEF IInv
<1>1. i \in Position /\ i + 1 \in Position /\ Columns \in 0 .. Columns
  BY DEF Node, Position
<1>2. CASE DecideAcceptance
  BY <1>2 DEF DecideAcceptance, Node
<1>3. CASE FillCell
  <2>1. \A j \in Position, c \in 0 .. Columns :
          table'[j][c] = IF j = node /\ c = column THEN CellCost(node, column) ELSE table[j][c]
    BY <1>0, <1>3 DEF FillCell, TypeOK
  <2>2. node \in Position /\ column \in 0 .. Columns /\ i \in 0 .. Nodes - 1
    BY <1>0 DEF TypeOK, Node
  <2>3. i >= node
    BY <1>3, <2>2 DEF FillCell, Position
  <2>4. table'[i + 1] [Columns] = table[i + 1][Columns]
    BY <1>1, <2>1, <2>2, <2>3 DEF Position
  <2>5. CASE i = node /\ column = Columns
    <3>1. table'[i][Columns] = LeaveCost(i, Columns)
      BY <1>1, <2>1, <2>2, <2>5 DEF CellCost, CanConsume
    <3>2. QED
      BY <2>4, <3>1 DEF LeaveCost
  <2>6. CASE ~(i = node /\ column = Columns)
    <3>1. i > node \/ (i = node /\ column < Columns)
      BY <2>2, <2>3, <2>6 DEF Position
    <3>2. table[i][Columns] = LeaveCost(i, Columns)
      BY <1>0, <1>3, <3>1 DEF FillCell, LastColumnLeaves
    <3>3. table'[i][Columns] = table[i][Columns]
      BY <1>1, <2>1, <2>6
    <3>4. QED
      BY <2>4, <3>2, <3>3 DEF LeaveCost
  <2>7. QED
    BY <2>5, <2>6
<1>4. CASE Consume \/ Leave \/ Advance \/ FinishWalk
  BY <1>0, <1>4 DEF Consume, Leave, Advance, FinishWalk, Walking, LastColumnLeaves, LeaveCost
<1>5. CASE BeginColumn \/ AccumulatePrefix \/ BeginWindow \/ PushEndpoint
  BY <1>5 DEF BeginColumn, AccumulatePrefix, BeginWindow, PushEndpoint
<1>6. CASE SettleNode
  BY <1>6 DEF SettleNode, Settle, AfterNode
<1>7. CASE RebuildColumn \/ FinishRebuild
  BY <1>7 DEF RebuildColumn, FinishRebuild
<1>8. CASE UNCHANGED vars
  BY <1>0, <1>8 DEF vars, LastColumnLeaves, LeaveCost
<1> QED
  BY <1>2, <1>3, <1>4, <1>5, <1>6, <1>7, <1>8 DEF Next

(* No checked access or subtraction of the engine fails: the window never   *)
(* goes below zero, reconstruction always finds the next endpoint and ends  *)
(* on the last node, and the walk never leaves the table.                   *)
LEMMA NeverExhaustedStep == IInv /\ [Next]_vars => NeverExhausted'
<1> SUFFICES ASSUME IInv, [Next]_vars PROVE pc' # "exhausted"
  BY DEF NeverExhausted
<1> USE SizesAreNatural
<1>0. TypeOK /\ Control /\ pc # "exhausted"
  BY DEF IInv, NeverExhausted
<1>1. CASE BeginColumn \/ AccumulatePrefix \/ BeginWindow \/ PushEndpoint \/ DecideAcceptance
  BY <1>0, <1>1 DEF BeginColumn, AccumulatePrefix, BeginWindow, PushEndpoint, DecideAcceptance
<1>2. CASE SettleNode
  <2>1. PICK gone \in 0 .. Len(deque) : Settle(gone)
    BY <1>2 DEF SettleNode
  <2>2. CASE gone = Len(deque)
    BY <2>1, <2>2 DEF Settle, AfterNode
  <2>3. CASE gone # Len(deque)
    <3>1. gone + 1 \in 1 .. Len(deque) /\ column \in Column
      BY <1>0, <1>2, <2>3 DEF SettleNode, Control, Scanning, TypeOK, Column
    <3>2. deque[gone + 1].key >= prefix[node] /\ deque[gone + 1].key \in Nat
          /\ prefix[node] \in Nat
      <4>1. deque[gone + 1] \in Entry
        BY <1>0, <3>1 DEF TypeOK
      <4>2. QED
        BY <1>0, <1>2, <3>1, <4>1, KeysCoverPrefix DEF SettleNode, IInv, TypeOK, Entry
    <3>3. pc' = IF deque[gone + 1].key < prefix[node] THEN "exhausted" ELSE AfterNode
      BY <2>1, <2>3 DEF Settle
    <3>4. QED
      BY <3>2, <3>3 DEF AfterNode
  <2>4. QED
    BY <2>2, <2>3
<1>3. CASE RebuildColumn
  BY <1>0, <1>3 DEF RebuildColumn, IInv, RebuiltSoFar, Continues
<1>4. CASE FinishRebuild
  BY <1>0, <1>4 DEF FinishRebuild, IInv, RebuiltSoFar, Continues
<1>5. CASE FillCell \/ Consume \/ Leave \/ FinishWalk
  BY <1>0, <1>5 DEF FillCell, Consume, Leave, FinishWalk, Walking
<1>6. CASE Advance
  <2>1. ASSUME column = Columns PROVE FALSE
    <3>1. node \in Node /\ pc = "walk"
      BY <1>0, <1>6, <2>1 DEF Advance, Walking, TypeOK, Node, Position
    <3>2. LeaveCost(node, column) = table[node][column]
      BY <2>1, <3>1 DEF IInv, LastColumnLeaves
    <3>3. QED
      BY <1>6, <3>1, <3>2 DEF Advance, LeaveKeepsCost, Node
  <2>2. QED
    BY <1>0, <1>6, <2>1 DEF Advance, Walking, TypeOK
<1>7. CASE UNCHANGED vars
  BY <1>0, <1>7 DEF vars
<1> QED
  BY <1>1, <1>2, <1>3, <1>4, <1>5, <1>6, <1>7 DEF Next

(* Nodes are assigned from the first on, to the rule the loop stands at, so *)
(* the assignment stays in order; a finished reconstruction is a partition. *)
AssignmentInv == AssignedInOrder /\ AssignedBehind /\ RebuiltSoFar /\ AcceptedIsPartition

(* Every step of the three walks keeps what has been assigned so far in     *)
(* order and behind the loop that assigns it.                               *)
LEMMA AssignmentStep == IInv /\ [Next]_vars => AssignmentInv'
<1> SUFFICES ASSUME IInv, [Next]_vars PROVE AssignmentInv'
  OBVIOUS
<1> USE SizesAreNatural, SentinelsAreNotNumbers
<1>0. TypeOK /\ Control /\ AssignmentInv
  BY DEF IInv, AssignmentInv
<1>1. kinds' = kinds /\ cards' = cards /\ edges' = edges
  BY InputStays, InputParts
<1>2. assigned' = assigned => AssignedInOrder'
  BY <1>0, <1>1 DEF AssignmentInv, AssignedInOrder, Matches
<1>3. CASE BeginColumn \/ AccumulatePrefix \/ BeginWindow \/ PushEndpoint
  BY <1>0, <1>2, <1>3 DEF BeginColumn, AccumulatePrefix, BeginWindow, PushEndpoint,
       AssignmentInv, AssignedBehind, Assigning, RebuiltSoFar, AcceptedIsPartition
<1>4. CASE SettleNode
  BY <1>0, <1>2, <1>4 DEF SettleNode, Settle, AfterNode, AssignmentInv, AssignedBehind,
       Assigning, RebuiltSoFar, AcceptedIsPartition
<1>5. CASE DecideAcceptance
  <2>1. CASE suffix[0] = None
    BY <1>0, <1>2, <1>5, <2>1 DEF DecideAcceptance, AssignmentInv, AssignedBehind,
         Assigning, RebuiltSoFar, AcceptedIsPartition
  <2>2. CASE suffix[0] # None
    <3>1. /\ pc' = "rebuild" /\ node' = 0 /\ column' = 0 /\ assigned' = assigned
          /\ endpoints' = endpoints /\ pc = "column" /\ column = 0 /\ 0 \in Position
      BY <1>5, <2>2 DEF DecideAcceptance, Position
    <3>2. Continues(column, node)'
      BY <2>2, <3>1 DEF IInv, CostsHaveEndpoints, Accepting, SuffixRow, Continues
    <3>3. QED
      BY <1>0, <1>2, <3>1, <3>2 DEF AssignmentInv, AssignedBehind, Assigning, RebuiltSoFar,
           AcceptedIsPartition, Node, Column
  <2>3. QED
    BY <2>1, <2>2
<1>6. CASE RebuildColumn
  <2>1. PICK e : e = endpoints[column][node]
    OBVIOUS
  <2>2. pc = "rebuild" /\ column \in Column /\ node \in Position /\ cards[column].min \in Nat
    BY <1>0, <1>6, CardinalityTypes DEF RebuildColumn, TypeOK, Column
  <2>3. e # None
    BY <2>1, <2>2 DEF IInv, RebuiltSoFar, Continues, Column
  <2>4. /\ e \in Position /\ node + cards[column].min <= e
        /\ Reaches(node, e, column) /\ Continues(column + 1, e)
    BY <1>0, <2>1, <2>2, <2>3 DEF IInv, EndpointsChain, TypeOK
  <2>5. /\ assigned' = [i \in Node |-> IF i \in node .. e - 1 THEN column ELSE assigned[i]]
        /\ counts' = [counts EXCEPT ![column] = e - node]
        /\ node' = e /\ column' = column + 1 /\ pc' = "rebuild" /\ endpoints' = endpoints
    BY <1>6, <2>1, <2>3 DEF RebuildColumn
  <2>6. node <= e /\ node \in Nat /\ e \in Nat /\ column \in Nat
    BY <2>2, <2>4 DEF Position, Column
  <2>7. \A i \in Node : /\ i >= node => assigned[i] = None
                        /\ i < node => assigned[i] # None
                        /\ assigned[i] # None => assigned[i] < column
    BY <1>0, <2>2 DEF AssignmentInv, AssignedBehind, Assigning, RebuiltSoFar
  <2>8. \A i \in Node : assigned'[i] = IF i \in node .. e - 1 THEN column ELSE assigned[i]
    BY <2>5
  <2>9. AssignedInOrder'
    <3>1. ASSUME NEW i \in Node, NEW j \in Node, i < j,
                 assigned'[i] # None, assigned'[j] # None
          PROVE  assigned'[i] <= assigned'[j]
      <4>1. i \in Int /\ j \in Int
        BY DEF Node
      <4>2. CASE j \in node .. e - 1
        <5>1. assigned'[j] = column
          BY <2>8, <4>2
        <5>2. CASE i \in node .. e - 1
          BY <2>6, <2>8, <5>1, <5>2
        <5>3. CASE i \notin node .. e - 1
          <6>1. assigned'[i] = assigned[i] /\ assigned[i] # None /\ assigned[i] < column
            BY <2>7, <2>8, <3>1, <5>3
          <6>2. assigned[i] \in Column
            BY <1>0, <6>1 DEF TypeOK
          <6>3. QED
            BY <2>6, <5>1, <6>1, <6>2 DEF Column
        <5>4. QED
          BY <5>2, <5>3
      <4>3. CASE j \notin node .. e - 1
        <5>1. assigned'[j] = assigned[j] /\ j < node
          BY <2>6, <2>7, <2>8, <3>1, <4>1, <4>3
        <5>2. i \notin node .. e - 1
          BY <2>6, <3>1, <4>1, <5>1
        <5>3. assigned'[i] = assigned[i]
          BY <2>8, <5>2
        <5>4. QED
          BY <1>0, <3>1, <5>1, <5>3 DEF AssignmentInv, AssignedInOrder
      <4>4. QED
        BY <4>2, <4>3
    <3>2. ASSUME NEW i \in Node, assigned'[i] # None
          PROVE  Matches(i, assigned'[i])
      <4>1. CASE i \in node .. e - 1
        BY <2>4, <2>8, <4>1 DEF Reaches
      <4>2. CASE i \notin node .. e - 1
        BY <1>0, <2>8, <3>2, <4>2 DEF AssignmentInv, AssignedInOrder
      <4>3. QED
        BY <4>1, <4>2
    <3>3. QED
      BY <1>1, <3>1, <3>2 DEF AssignedInOrder, Matches
  <2>10. AssignedBehind'
    <3>1. ASSUME NEW i \in Node
          PROVE  /\ i >= e => assigned'[i] = None
                 /\ assigned'[i] # None => assigned'[i] < column + 1 /\ assigned'[i] <= column + 1
      <4>1. CASE i \in node .. e - 1
        BY <2>6, <2>8, <4>1
      <4>2. CASE i \notin node .. e - 1
        <5>1. assigned[i] # None => assigned[i] \in Column
          BY <1>0 DEF TypeOK
        <5>2. QED
          BY <2>6, <2>7, <2>8, <4>2, <5>1 DEF Node, Column
      <4>3. QED
        BY <4>1, <4>2
    <3>2. QED
      BY <2>5, <3>1 DEF AssignedBehind, Assigning
  <2>11. RebuiltSoFar'
    <3>1. Continues(column, node)'
      BY <2>4, <2>5 DEF Continues
    <3>2. ASSUME NEW i \in Node, i < e PROVE assigned'[i] # None
      BY <2>2, <2>6, <2>7, <2>8, <3>2 DEF Node, Column
    <3>3. ASSUME NEW c \in Column, c < column + 1
          PROVE  /\ counts'[c] >= cards[c].min
                 /\ cards[c].max # Unbounded => counts'[c] <= cards[c].max
      <4>1. CASE c = column
        <5>1. counts'[c] = e - node
          BY <1>0, <2>2, <2>5, <4>1 DEF TypeOK
        <5>2. QED
          BY <2>2, <2>4, <2>6, <4>1, <5>1 DEF Reaches
      <4>2. CASE c # column
        <5>1. counts'[c] = counts[c] /\ c < column
          BY <1>0, <2>2, <2>5, <2>6, <3>3, <4>2 DEF TypeOK, Column
        <5>2. QED
          BY <1>0, <2>2, <5>1 DEF AssignmentInv, RebuiltSoFar
      <4>3. QED
        BY <4>1, <4>2
    <3>4. QED
      BY <1>1, <2>5, <3>1, <3>2, <3>3 DEF RebuiltSoFar
  <2>12. AcceptedIsPartition'
    BY <2>5 DEF AcceptedIsPartition
  <2>13. QED
    BY <2>9, <2>10, <2>11, <2>12 DEF AssignmentInv
<1>7. CASE FinishRebuild
  <2>1. pc = "rebuild" /\ column = Columns /\ node = Nodes /\ pc' = "done"
        /\ assigned' = assigned /\ counts' = counts
    BY <1>7 DEF FinishRebuild, IInv, RebuiltSoFar, Continues
  <2>2. AcceptedIsPartition'
    BY <1>0, <1>1, <2>1 DEF AssignmentInv, RebuiltSoFar, AcceptedIsPartition, Node, Column
  <2>3. QED
    BY <1>2, <2>1, <2>2 DEF AssignmentInv, AssignedBehind, Assigning, RebuiltSoFar
<1>8. CASE FillCell
  BY <1>0, <1>2, <1>8 DEF FillCell, AssignmentInv, AssignedBehind, Assigning, RebuiltSoFar,
       AcceptedIsPartition
<1>9. CASE Consume
  <2>1. /\ pc = "walk" /\ pc' = "walk" /\ node \in Node /\ column \in Column
        /\ Matches(node, column) /\ node' = node + 1 /\ column' = column
    BY <1>0, <1>9 DEF Consume, Walking, ConsumeKeepsCost, CanConsume, TypeOK, Node, Column, Position
  <2>2. \A i \in Node : assigned'[i] = IF i = node THEN column ELSE assigned[i]
    BY <1>0, <1>9, <2>1 DEF Consume, TypeOK
  <2>3. \A i \in Node : /\ i >= node => assigned[i] = None
                        /\ assigned[i] # None => assigned[i] <= column /\ assigned[i] \in Column
    BY <1>0, <2>1 DEF AssignmentInv, AssignedBehind, Assigning, TypeOK
  <2>4. AssignedInOrder'
    <3>1. ASSUME NEW i \in Node, NEW j \in Node, i < j,
                 assigned'[i] # None, assigned'[j] # None
          PROVE  assigned'[i] <= assigned'[j]
      <4>1. CASE j = node
        BY <2>1, <2>2, <2>3, <3>1, <4>1 DEF Node, Column
      <4>2. CASE j # node
        <5>1. j < node /\ assigned'[j] = assigned[j]
          BY <2>1, <2>2, <2>3, <3>1, <4>2 DEF Node
        <5>2. assigned'[i] = assigned[i]
          BY <2>1, <2>2, <3>1, <5>1 DEF Node
        <5>3. QED
          BY <1>0, <3>1, <5>1, <5>2 DEF AssignmentInv, AssignedInOrder
      <4>3. QED
        BY <4>1, <4>2
    <3>2. ASSUME NEW i \in Node, assigned'[i] # None
          PROVE  Matches(i, assigned'[i])
      BY <1>0, <2>1, <2>2, <3>2 DEF AssignmentInv, AssignedInOrder
    <3>3. QED
      BY <1>1, <3>1, <3>2 DEF AssignedInOrder, Matches
  <2>5. AssignedBehind'
    BY <2>1, <2>2, <2>3 DEF AssignedBehind, Assigning, Node, Column
  <2>6. QED
    BY <2>1, <2>4, <2>5 DEF AssignmentInv, RebuiltSoFar, AcceptedIsPartition
<1>10. CASE Leave
  <2>1. /\ pc = "walk" /\ pc' = "walk" /\ node \in Node /\ assigned' = assigned
        /\ node' = node + 1 /\ column' = column
    BY <1>0, <1>10 DEF Leave, Walking, LeaveKeepsCost, TypeOK, Node, Position
  <2>2. QED
    BY <1>0, <1>2, <2>1 DEF AssignmentInv, AssignedBehind, Assigning, RebuiltSoFar,
         AcceptedIsPartition, Node
<1>11. CASE Advance
  <2>1. /\ pc = "walk" /\ assigned' = assigned /\ node' = node
        /\ \/ pc' = "walk" /\ column' = column + 1
           \/ pc' = "exhausted"
    BY <1>11 DEF Advance, Walking
  <2>2. \A i \in Node : assigned[i] # None => assigned[i] <= column + 1
    <3>1. \A i \in Node : assigned[i] # None => assigned[i] \in Column /\ assigned[i] <= column
      BY <1>0, <2>1 DEF AssignmentInv, AssignedBehind, Assigning, TypeOK
    <3>2. QED
      BY <1>0, <3>1 DEF TypeOK, Column
  <2>3. QED
    BY <1>0, <1>2, <2>1, <2>2 DEF AssignmentInv, AssignedBehind, Assigning, RebuiltSoFar,
         AcceptedIsPartition
<1>12. CASE FinishWalk
  BY <1>0, <1>2, <1>12 DEF FinishWalk, Control, AssignmentInv, AssignedBehind, Assigning,
       RebuiltSoFar, AcceptedIsPartition
<1>13. CASE UNCHANGED vars
  BY <1>0, <1>1, <1>2, <1>13 DEF vars, AssignmentInv, AssignedBehind, Assigning,
       RebuiltSoFar, Continues, AcceptedIsPartition
<1> QED
  BY <1>3, <1>4, <1>5, <1>6, <1>7, <1>8, <1>9, <1>10, <1>11, <1>12, <1>13 DEF Next

-----------------------------------------------------------------------------
(* The invariant is inductive: each loop step of the engine preserves it.   *)
LEMMA InvariantStep == IInv /\ [Next]_vars => IInv'
BY TypeStep, ControlStep, PrefixStep, DequeStep, EndpointsStep, LastColumnStep,
   NeverExhaustedStep, AssignmentStep DEF IInv, AssignmentInv

(* The inductive invariant holds throughout a run of `assign`: the parts of *)
(* the properties below, the control of the loops, and the chain of stored  *)
(* endpoints that makes reconstruction possible.                            *)
THEOREM InvariantHolds == Spec => []IInv
<1>1. Init => IInv
  BY InitEstablishesInvariant
<1>2. IInv /\ [Next]_vars => IInv'
  BY InvariantStep
<1>3. QED
  BY <1>1, <1>2, PTL DEF Spec

(* Whatever the document and the schema, every index, cost and endpoint of  *)
(* the engine stays in its range.                                           *)
THEOREM TypeCorrect == Spec => []TypeOK
<1>1. IInv => TypeOK
  BY DEF IInv
<1>2. QED
  BY <1>1, InvariantHolds, PTL

(* `assign` never fails with SequenceExhausted for a reason other than the  *)
(* size of its tables: the error path of engine.rs is not reachable from a  *)
(* prepared matrix.                                                         *)
THEOREM EngineNeverExhausted == Spec => []NeverExhausted
<1>1. IInv => NeverExhausted
  BY DEF IInv
<1>2. QED
  BY <1>1, InvariantHolds, PTL

(* No assignment, of an accepted sequence or a recovered one, crosses two   *)
(* rules or gives a rule a node it does not match.                          *)
THEOREM AssignmentKeepsOrder == Spec => []AssignedInOrder
<1>1. IInv => AssignedInOrder
  BY DEF IInv
<1>2. QED
  BY <1>1, InvariantHolds, PTL

(* Acceptance is sound: an accepted sequence assigns every node and meets   *)
(* every cardinality.                                                       *)
THEOREM AcceptanceIsSound == Spec => []AcceptedIsPartition
<1>1. IInv => AcceptedIsPartition
  BY DEF IInv
<1>2. QED
  BY <1>1, InvariantHolds, PTL
=============================================================================
