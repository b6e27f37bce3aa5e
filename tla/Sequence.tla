------------------------------ MODULE Sequence ------------------------------
(***************************************************************************)
(* The ordered-assignment engine of the validator                          *)
(* (crates/outlint-core/src/validator/sequence.rs), used for the headings  *)
(* of a scope, the blocks of a preamble and the items of a list alike.     *)
(*                                                                         *)
(* Given one prepared matrix of edges between document nodes and schema    *)
(* rules, `assign` first runs `accept`: for each rule, from the last to    *)
(* the first, it slides a monotone deque over the nodes and records in     *)
(* `endpoints` where the run of nodes the rule consumes best ends.  If the *)
(* whole sequence can be partitioned, the partition is read off            *)
(* `endpoints`; otherwise `recover` fills a cost table over                *)
(* (node, column) and walks it forward.                                    *)
(*                                                                         *)
(* Nodes and columns are 0-based, as in the code.  One action is one       *)
(* iteration of one of its loops.                                          *)
(***************************************************************************)
EXTENDS SequenceInput, Sequences

Cost  == [unassigned : Nat, edge : Nat]
Entry == [endpoint : Position, key : Nat]

VARIABLES
    pc, column, node,       \* where the loops stand
    suffix, current,        \* least cost from a node on, for the next rule and for this one
    prefix,                 \* cumulative edge cost of this column
    deque, previousLo,      \* candidate endpoints, and the lowest one considered
    endpoints,              \* endpoints[c][i]: where rule c stops when it starts at i
    table,                  \* recovery costs
    assigned, counts, accepted

vars  == <<input, pc, column, node, suffix, current, prefix, deque, previousLo,
           endpoints, table, assigned, counts, accepted>>

EdgeCost(i, c) == IF Matches(i, c) THEN edges[c][i] ELSE 0
Zero           == [unassigned |-> 0, edge |-> 0]

Plus(a, b) == [unassigned |-> a.unassigned + b.unassigned, edge |-> a.edge + b.edge]
Below(a, b) ==
    \/ a.unassigned < b.unassigned
    \/ a.unassigned = b.unassigned /\ a.edge < b.edge
Cheaper(a, b) == IF Below(b, a) THEN b ELSE a

-----------------------------------------------------------------------------
Init ==
    /\ Input
    /\ pc = "column"
    /\ column = Columns
    /\ node = Nodes
    /\ suffix = [i \in Position |-> IF i = Nodes THEN 0 ELSE None]
    /\ current = [i \in Position |-> None]
    /\ prefix = [i \in Position |-> 0]
    /\ deque = <<>>
    /\ previousLo = Nodes + 1
    /\ endpoints = [c \in Column |-> [i \in Position |-> None]]
    /\ table = [i \in Position |-> [c \in 0 .. Columns |-> Zero]]
    /\ assigned = [i \in Node |-> None]
    /\ counts = [c \in Column |-> 0]
    /\ accepted = FALSE

(***************************************************************************)
(* accept: the rules from the last to the first.                           *)
(***************************************************************************)
BeginColumn ==
    /\ pc = "column" /\ column > 0
    /\ pc' = "prefix"
    /\ column' = column - 1
    /\ node' = 0
    /\ current' = [i \in Position |-> None]
    /\ prefix' = [i \in Position |-> 0]
    /\ UNCHANGED <<input, suffix, deque, previousLo, endpoints, table, assigned, counts, accepted>>

AccumulatePrefix ==
    /\ pc = "prefix" /\ node < Nodes
    /\ prefix' = [prefix EXCEPT ![node + 1] = prefix[node] + EdgeCost(node, column)]
    /\ node' = node + 1
    /\ UNCHANGED <<input, pc, column, suffix, current, deque, previousLo, endpoints,
                   table, assigned, counts, accepted>>

(* Bug: the window starts one endpoint beyond the last. *)
BeginWindowBeyond ==
    /\ pc = "prefix" /\ node = Nodes
    /\ pc' = "window"
    /\ deque' = <<>>
    /\ previousLo' = Nodes + 2
    /\ UNCHANGED <<input, column, node, suffix, current, prefix, endpoints, table,
                   assigned, counts, accepted>>

BeginWindow ==
    /\ pc = "prefix" /\ node = Nodes
    /\ pc' = "window"
    /\ deque' = <<>>
    /\ previousLo' = Nodes + 1
    /\ UNCHANGED <<input, column, node, suffix, current, prefix, endpoints, table,
                   assigned, counts, accepted>>

(* Bug: the minimum of the cardinality is ignored. *)
LoIgnoringMin == node
Lo == node + cards[column].min      \* the nearest endpoint the minimum allows

(* Whether rule c, starting at node i, can stop at endpoint e: every node in *)
(* between matches (`run_end`) and the maximum is respected (`hi`).          *)
Reaches(i, e, c) ==
    /\ \A t \in i .. e - 1 : Matches(t, c)
    /\ cards[c].max # Unbounded => e - i <= cards[c].max

(* Bug: the preferences of wildcards and other rules are swapped. *)
WorseSwapped(old, key) == old.key > key \/ (old.key = key /\ ~Reluctant(column))
Worse(old, key) == old.key > key \/ (old.key = key /\ Reluctant(column))

(* One more endpoint enters the window of `node` from below.  An endpoint the *)
(* later rules cannot continue from is skipped; the others push out of the    *)
(* back of the deque whatever they are preferred to.                          *)
PushEndpoint ==
    /\ pc = "window" /\ previousLo > Lo
    /\ LET endpoint == previousLo - 1
           key      == suffix[endpoint] + prefix[endpoint]
       IN  IF suffix[endpoint] = None
           THEN UNCHANGED deque
           ELSE \E kept \in 0 .. Len(deque) :
                   /\ \A j \in kept + 1 .. Len(deque) : Worse(deque[j], key)
                   /\ kept > 0 => ~Worse(deque[kept], key)
                   /\ deque' = Append(SubSeq(deque, 1, kept),
                                      [endpoint |-> endpoint, key |-> key])
    /\ previousLo' = previousLo - 1
    /\ UNCHANGED <<input, pc, column, node, suffix, current, prefix, endpoints, table,
                   assigned, counts, accepted>>

AfterNode == IF node = 0 THEN "column" ELSE "window"

(* The window of `node` is complete: endpoints out of reach leave the deque at *)
(* the front, and the new front, if there is one, is the best place to stop.   *)
(* `checked_sub` refuses a cost below zero.                                    *)
Settle(gone) ==
    /\ \A j \in 1 .. gone : ~Reaches(node, deque[j].endpoint, column)
    /\ deque' = SubSeq(deque, gone + 1, Len(deque))
    /\ IF gone = Len(deque)
       THEN pc' = AfterNode /\ UNCHANGED <<current, endpoints>>
       ELSE LET front == deque[gone + 1] IN
            /\ Reaches(node, front.endpoint, column)
            /\ current' = [current EXCEPT ![node] = front.key - prefix[node]]
            /\ endpoints' = [endpoints EXCEPT ![column][node] = front.endpoint]
            /\ pc' = IF front.key < prefix[node] THEN "exhausted" ELSE AfterNode

SettleNode ==
    /\ pc = "window" /\ previousLo <= Lo
    /\ \E gone \in 0 .. Len(deque) : Settle(gone)
    /\ suffix' = IF node = 0 THEN current' ELSE suffix
    /\ node' = IF node = 0 THEN 0 ELSE node - 1
    /\ UNCHANGED <<input, column, prefix, previousLo, table, assigned, counts, accepted>>

(* Every rule has its row.  If the first rule can start at the first node the *)
(* partition is rebuilt, otherwise recovery starts from the last cell.        *)
DecideAcceptance ==
    /\ pc = "column" /\ column = 0
    /\ IF suffix[0] # None
       THEN pc' = "rebuild" /\ node' = 0 /\ column' = 0
       ELSE pc' = "table" /\ node' = Nodes /\ column' = Columns
    /\ UNCHANGED <<input, suffix, current, prefix, deque, previousLo, endpoints, table,
                   assigned, counts, accepted>>

RebuildColumn ==
    /\ pc = "rebuild" /\ column < Columns
    /\ LET endpoint == endpoints[column][node] IN
       IF endpoint = None
       THEN pc' = "exhausted" /\ UNCHANGED <<assigned, counts, node, column>>
       ELSE /\ assigned' = [i \in Node |->
                              IF i \in node .. endpoint - 1 THEN column ELSE assigned[i]]
            /\ counts' = [counts EXCEPT ![column] = endpoint - node]
            /\ node' = endpoint
            /\ column' = column + 1
            /\ UNCHANGED pc
    /\ UNCHANGED <<input, suffix, current, prefix, deque, previousLo, endpoints, table, accepted>>

FinishRebuild ==
    /\ pc = "rebuild" /\ column = Columns
    /\ IF node = Nodes
       THEN pc' = "done" /\ accepted' = TRUE
       ELSE pc' = "exhausted" /\ UNCHANGED accepted
    /\ UNCHANGED <<input, column, node, suffix, current, prefix, deque, previousLo,
                   endpoints, table, assigned, counts>>

(***************************************************************************)
(* recover: a cost for every (node, column), from the end; then a walk     *)
(* from (0, 0) that takes the first transition preserving the cost, in the *)
(* order consume, leave, advance.                                          *)
(***************************************************************************)
ConsumeCost(i, c) == Plus(table[i + 1][c], [unassigned |-> 0, edge |-> EdgeCost(i, c)])
LeaveCost(i, c)   == Plus(table[i + 1][c], [unassigned |-> 1, edge |-> 0])

(* Bug: a node without an edge to the rule can be consumed. *)
CanConsumeAny(i, c) == i < Nodes /\ c < Columns
CanConsume(i, c) == i < Nodes /\ c < Columns /\ Matches(i, c)

CellCost(i, c) ==
    IF i = Nodes
    THEN IF c = Columns THEN Zero ELSE table[i][c + 1]
    ELSE LET leave == LeaveCost(i, c)
             stay  == IF CanConsume(i, c) THEN Cheaper(ConsumeCost(i, c), leave) ELSE leave
         IN  IF c < Columns THEN Cheaper(stay, table[i][c + 1]) ELSE stay

FillCell ==
    /\ pc = "table"
    /\ table' = [table EXCEPT ![node][column] = CellCost(node, column)]
    /\ column' = IF column > 0 THEN column - 1 ELSE IF node > 0 THEN Columns ELSE 0
    /\ node' = IF column = 0 /\ node > 0 THEN node - 1 ELSE node
    /\ pc' = IF column = 0 /\ node = 0 THEN "walk" ELSE "table"
    /\ UNCHANGED <<input, suffix, current, prefix, deque, previousLo, endpoints,
                   assigned, counts, accepted>>

ConsumeKeepsCost ==
    CanConsume(node, column) /\ ConsumeCost(node, column) = table[node][column]
LeaveKeepsCost == node < Nodes /\ LeaveCost(node, column) = table[node][column]
(* Bug: the walk goes on after the last node and rule. *)
WalkingOn == pc = "walk"
Walking == pc = "walk" /\ (node < Nodes \/ column < Columns)

Consume ==
    /\ Walking /\ ConsumeKeepsCost
    /\ assigned' = [assigned EXCEPT ![node] = column]
    /\ counts' = [counts EXCEPT ![column] = @ + 1]
    /\ node' = node + 1
    /\ UNCHANGED <<input, pc, column, suffix, current, prefix, deque, previousLo,
                   endpoints, table, accepted>>

(* Bug: a node left out is not stepped over. *)
LeaveInPlace ==
    /\ Walking /\ ~ConsumeKeepsCost /\ LeaveKeepsCost
    /\ UNCHANGED vars

Leave ==
    /\ Walking /\ ~ConsumeKeepsCost /\ LeaveKeepsCost
    /\ node' = node + 1
    /\ UNCHANGED <<input, pc, column, suffix, current, prefix, deque, previousLo,
                   endpoints, table, assigned, counts, accepted>>

(* Past the last column the next table read fails. *)
Advance ==
    /\ Walking /\ ~ConsumeKeepsCost /\ ~LeaveKeepsCost
    /\ IF column < Columns
       THEN column' = column + 1 /\ UNCHANGED pc
       ELSE pc' = "exhausted" /\ UNCHANGED column
    /\ UNCHANGED <<input, node, suffix, current, prefix, deque, previousLo, endpoints,
                   table, assigned, counts, accepted>>

FinishWalk ==
    /\ pc = "walk" /\ ~Walking
    /\ pc' = "done"
    /\ UNCHANGED <<input, column, node, suffix, current, prefix, deque, previousLo,
                   endpoints, table, assigned, counts, accepted>>

Next ==
    \/ BeginColumn \/ AccumulatePrefix \/ BeginWindow \/ PushEndpoint \/ SettleNode
    \/ DecideAcceptance \/ RebuildColumn \/ FinishRebuild
    \/ FillCell \/ Consume \/ Leave \/ Advance \/ FinishWalk

(* `assign` runs on one thread with no wait: it is only assumed not to be stopped. *)
Spec == Init /\ [][Next]_vars /\ WF_vars(Next)

-----------------------------------------------------------------------------
(* Every variable keeps its type: no table cell holds a negative cost, no   *)
(* endpoint, row or column leaves the bounds the checked accesses of the    *)
(* code assume.                                                             *)
TypeOK ==
    /\ Input
    /\ pc \in {"column", "prefix", "window", "rebuild", "table", "walk", "done", "exhausted"}
    /\ column \in 0 .. Columns
    /\ node \in Position
    /\ suffix \in [Position -> Nat \union {None}]
    /\ current \in [Position -> Nat \union {None}]
    /\ prefix \in [Position -> Nat]
    /\ deque \in Seq(Entry)
    /\ previousLo \in 0 .. Nodes + 1
    /\ endpoints \in [Column -> [Position -> Position \union {None}]]
    /\ table \in [Position -> [0 .. Columns -> Cost]]
    /\ assigned \in [Node -> Column \union {None}]
    /\ counts \in [Column -> Nat]
    /\ accepted \in BOOLEAN

(* `assign` never returns SequenceExhausted for want of a table cell: the   *)
(* endpoints always chain to the last node, no cost underflows, and the     *)
(* recovery walk never advances past the last rule.                         *)
NeverExhausted == pc # "exhausted"

(* At every moment the nodes assigned so far follow the rule order and each *)
(* matches its rule, whichever of the two phases assigned them.             *)
AssignedInOrder ==
    /\ \A i, j \in Node :
          i < j /\ assigned[i] # None /\ assigned[j] # None => assigned[i] <= assigned[j]
    /\ \A i \in Node : assigned[i] # None => Matches(i, assigned[i])

(* An accepted sequence leaves no node over and gives every rule a count    *)
(* within its cardinality, so validation reports nothing for it.            *)
AcceptedIsPartition ==
    pc = "done" /\ accepted =>
        /\ \A i \in Node : assigned[i] # None
        /\ \A c \in Column : /\ counts[c] >= cards[c].min
                             /\ cards[c].max # Unbounded => counts[c] <= cards[c].max

(* `assign` returns: neither of its loops runs for ever, in particular the  *)
(* recovery walk consumes a node or a rule at every step.                   *)
Terminates == <>(pc = "done")
=============================================================================
