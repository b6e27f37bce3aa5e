------------------------------ MODULE MCSearch ------------------------------
(* Small instances of the search index for TLC. *)
EXTENDS SearchIndex

CONSTANTS p1, p2, p3, f, g, ours, theirs

(* p1 and p3 search the whole repository, p2 only the subtree of f *)
MCScope == [p \in Invocations |-> IF p = p2 THEN {f} ELSE Files]

OneVersion  == [p \in Invocations |-> ours]
TwoVersions == [p \in Invocations |-> IF p = p2 THEN theirs ELSE ours]
=============================================================================
