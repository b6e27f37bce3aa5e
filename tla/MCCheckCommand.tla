--------------------------- MODULE MCCheckCommand ---------------------------
(* Small instances of the check commands for TLC. *)
EXTENDS CheckCommand, TLC

CONSTANTS a, b,                 \* documents, b in a directory below that of a
          far, linked           \* schemas

Lines ==
    {[command |-> "check", files |-> files, schema |-> None] :
        files \in {<<b, b, a>>, <<a, b, b>>}}
    \union
    {[command |-> "check", files |-> files, schema |-> schema] :
        files \in {<<Stdin, a, Stdin>>}, schema \in {linked}}
    \union
    {[command |-> "schema", files |-> files, schema |-> None] :
        files \in {<<far, linked>>, <<far, far>>}}

(* b has a schema of its own, and shares the one further up with a *)
SchemaCandidates == (a :> <<far>>) @@ (b :> <<linked, far>>)
Uri(origin, dir, file) == [origin |-> origin, dir |-> <<dir>>, file |-> file]

SchemaLink == [s \in Schemas |->
    IF s = linked THEN [logical |-> Uri("outlint", "d", "m"), path |-> Uri(Local, "d", "m")] ELSE None]

(* Two files of directory d, which has another name, e; and there is no     *)
(* file `n`.                                                                *)
LinkOrigins  == {Local, "outlint", "ids"}
LinkSegments == {"d", "e", "sub", "m", "n", "o", "", "root"}
LinkFiles    == {Uri(Local, "d", file) : file \in {"m", "o"}}
LinkFileAt   == [p \in {Uri(Local, dir, file) : dir \in {"d", "e"}, file \in {"m", "o"}} |->
                    Uri(Local, "d", p.file)]

To(up, dir, file)  == [origin |-> None, up |-> up, dir |-> dir, file |-> file]
Here(file)         == To(0, <<>>, file)
At(origin, file)   == [origin |-> origin, up |-> 0, dir |-> <<"d">>, file |-> file]
Plain(to)          == [id |-> None, to |-> to]
Under(id, to)      == [id |-> id, to |-> to]

(* The first text refers to the other file by two names and to itself; the  *)
(* second renames itself, has a remote reference and one to no file, and a  *)
(* part with an identity of another origin.                                 *)
AllRefers ==
    ("first"  :> <<Plain(Here("o")), Plain(To(1, <<"e">>, "o")), Plain(None)>>) @@
    ("second" :> <<Under(Here("root"), None), Under(Here("root"), Here("m")),
                   Plain(At("ids", "m")), Plain(Here("n")),
                   Under(At("ids", "m"), To(1, <<"e">>, "m"))>>)

LinkRefers == [t \in Texts |-> AllRefers[t]]

(* The linked schema alone.                                                 *)
LinkedAlone ==
    {[command |-> "schema", files |-> <<linked>>, schema |-> None],
     [command |-> "check", files |-> <<a>>, schema |-> None]}
LinkedCandidates == a :> <<linked>>

(* A text that gives itself an `$id` in a directory and refers to itself.   *)
GrowingRefers == "only" :> <<Under(To(0, <<"sub">>, "root"), None)>>
=============================================================================
