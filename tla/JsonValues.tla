----------------------------- MODULE JsonValues -----------------------------
(***************************************************************************)
(* JSON values and pointers to their parts, as the frontmatter of a        *)
(* document reads (serde_json::Value).                                     *)
(*                                                                         *)
(* A JSON value is [is, text, items, members]: a scalar has a text, an     *)
(* array items, an object members <<name, value>>.  A path is a sequence   *)
(* of tokens, member names and indexes as they are spelled in a pointer.   *)
(***************************************************************************)
EXTENDS Integers, Sequences, FiniteSets

LOCAL SeqOf == INSTANCE SequencesExt

CONSTANTS None

FromEnd(length, index) == IF length + index >= 0 THEN length + index ELSE None
Spelled(index) == <<"0", "1", "2", "3", "4", "5">>[index + 1]

(* The children of a value, as <<token, value>>. *)
Children(v) ==
    CASE v.is = "object" -> v.members
      [] v.is = "array"  -> [i \in DOMAIN v.items |-> <<Spelled(i - 1), v.items[i]>>]
      [] OTHER           -> <<>>

Member(v, token) ==
    LET found == SelectSeq(Children(v), LAMBDA child : child[1] = token)
    IN  IF found = <<>> THEN None ELSE found[1][2]
(* RFC 6901: what a pointer leads to. *)
At(root, pointer) == SeqOf!FoldLeft(LAMBDA v, token : IF v = None THEN None ELSE Member(v, token), root, pointer)
=============================================================================
