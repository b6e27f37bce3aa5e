----------------------------- MODULE Constraints -----------------------------
(***************************************************************************)
(* The truth of a constraint (crates/outlint-core/src/validator/           *)
(* constraints.rs).  A proposition is satisfied, unsatisfied or suspended: *)
(* what it rests on did not hold, so it is no fair question.  Every        *)
(* operand is evaluated before any rule is applied, and one that is        *)
(* suspended suspends the constraint.                                      *)
(*                                                                         *)
(* A constraint is [is, condition, refs]; `condition` is a proposition for *)
(* "requires" and "conflicts" and None otherwise.  A proposition is        *)
(* [is, anchor, steps, query, literal, name]: a "rule" located from the    *)
(* anchor, a "query" or a "capture".  A bound scope is [sections, scope,   *)
(* path]: the headings it was given, and the rules of the schema node.     *)
(***************************************************************************)
EXTENDS FrontmatterValues

LOCAL SeqOf == INSTANCE SequencesExt
LOCAL SetOf == INSTANCE FiniteSetsExt

Rules(scope) == IF scope = None THEN <<>> ELSE IF scope.mode = "guards_only" THEN <<>> ELSE scope.rules
ConstraintsOf(scope) == IF scope = None THEN <<>> ELSE IF scope.mode = "guards_only" THEN <<>> ELSE scope.constraints

(* Bug: an operand that is satisfied outweighs one that is suspended. *)
SuspendedUnlessSatisfied(truths) ==
    "suspended" \in SeqOf!ToSet(truths) /\ "satisfied" \notin SeqOf!ToSet(truths)

(* One operand that is suspended suspends them all. *)
Suspended(truths) == "suspended" \in SeqOf!ToSet(truths)

(* combine: `admitted` holds the numbers of satisfied operands that will do. *)
Combine(truths, admitted) ==
    IF Suspended(truths) THEN "suspended"
    ELSE FromBool(Cardinality({i \in DOMAIN truths : truths[i] = "satisfied"}) \in admitted)

Implication(condition, truths, required) ==
    IF Suspended(<<condition>> \o truths) THEN "suspended"
    ELSE FromBool(condition = "unsatisfied" \/ \A i \in DOMAIN truths : truths[i] = required)

(* `ordered`: each list that is not empty ends before the next begins.      *)
InOrder(lists) ==
    LET present == SelectSeq(lists, LAMBDA hs : hs # <<>>)
    IN  IF None \in SeqOf!ToSet(lists) THEN "suspended"
        ELSE FromBool(\A i \in 1 .. Len(present) - 1 :
                        SetOf!Max(SeqOf!ToSet(present[i])) < SetOf!Min(SeqOf!ToSet(present[i + 1])))

-----------------------------------------------------------------------------
Operands(constraint) ==
    (IF constraint.condition = None THEN <<>> ELSE <<constraint.condition>>) \o constraint.refs

(* Resolved: the truth of a proposition, and the headings that it names (None *)
(* if they cannot be told).                                                 *)
OfRule(headings) ==
    [truth |-> IF headings = None THEN "suspended" ELSE FromBool(headings # <<>>), headings |-> headings]
OfFrontmatter(truth) == [truth |-> truth, headings |-> <<>>]

(* constraint_evaluation, of its operands as they were resolved.            *)
Evaluate(constraint, resolved) ==
    LET truths == [i \in DOMAIN resolved |-> resolved[i].truth]
        count  == Len(truths)
    IN  CASE constraint.is = "one_of"      -> Combine(truths, {1})
          [] constraint.is = "any_of"      -> Combine(truths, 1 .. count)
          [] constraint.is = "at_most_one" -> Combine(truths, {0, 1})
          [] constraint.is = "all_or_none" -> Combine(truths, {0, count})
          [] constraint.is = "requires"    -> Implication(Head(truths), Tail(truths), "satisfied")
          [] constraint.is = "conflicts"   -> Implication(Head(truths), Tail(truths), "unsatisfied")
          [] constraint.is = "ordered"     -> InOrder([i \in DOMAIN resolved |-> resolved[i].headings])

(* The headings its locators name.                                          *)
Involved(resolved) == UNION {SeqOf!ToSet(r.headings) : r \in {q \in SeqOf!ToSet(resolved) : q.headings # None}}
=============================================================================
