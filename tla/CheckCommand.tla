---------------------------- MODULE CheckCommand ----------------------------
(***************************************************************************)
(* `outlint check` and `outlint schema check`                              *)
(* (crates/outlint-cli/src/app.rs, schema_loading.rs): every input is read *)
(* and its schema found, then every schema is loaded once, then the inputs *)
(* are validated in order, and the exit status says what happened.  A      *)
(* failure ends what it concerns and nothing else.                         *)
(*                                                                         *)
(* Reading a document, what the loader makes of a schema and what          *)
(* validation makes of a document can go any way they can in the code; the *)
(* files change while the command runs.                                    *)
(***************************************************************************)
EXTENDS SchemaPreload

CONSTANTS
    Stdin,          \* the argument `-`
    CommandLines,   \* the [command, files, schema] to consider
    Schemas,        \* paths of schemas
    Candidates,     \* where discovery looks for the schema of a document, nearest first
    Link,           \* what a schema names as its frontmatter schema: [logical, path] or None
    MaxChanges      \* bound: changes to the files while the command runs

ASSUME ArgumentsNameSchemas ==
    /\ None \notin Schemas \union Nat \union {"text", "unreadable"}
    /\ \A line \in CommandLines :
          /\ line.command \in {"check", "schema"} /\ line.schema \in Schemas \union {None}
          /\ line.files \in Seq(CASE line.command = "schema" -> Schemas
                                 [] line.command = "check" /\ line.schema = None -> DOMAIN Candidates
                                 [] OTHER -> DOMAIN Candidates \union {Stdin})
    /\ \A file \in DOMAIN Candidates : Candidates[file] \in Seq(Schemas)
    /\ \A s \in Schemas : Link[s] \in Items \union {None}

VARIABLES
    args,           \* the command line
    kind,           \* what is at the path of each schema: a regular file or not
    pc, next,       \* the phase, and what it is at
    stdin,          \* what standard input was read as, None before
    inputs, groups, \* the documents, and the schemas they need
    results, errors, exit, changes

command == <<inputs, groups, results, errors>>
vars    == <<text, preload, args, kind, pc, next, stdin, command, exit, changes>>

Group(path) == [path |-> path, load |-> "pending", emitted |-> FALSE]

Init ==
    /\ InitPreload
    /\ args \in CommandLines
    /\ kind \in [Schemas -> {"none", "file", "inaccessible"}]
    /\ pc = IF args.command = "check" THEN "preflight" ELSE "load"
    /\ next = 1
    /\ stdin = None
    /\ inputs = <<>>
    /\ groups = IF args.command = "schema" THEN [i \in DOMAIN args.files |-> Group(args.files[i])]
                ELSE IF args.schema # None THEN <<Group(args.schema)>> ELSE <<>>
    /\ results = <<>> /\ errors = <<>> /\ exit = None
    /\ changes = 0

ErrorAbout(what, at) == [what |-> what, at |-> at]

(* Bug: standard input is read whenever it is named: only its rest is left. *)
SourcesReadAgain(file) == IF file = Stdin /\ stdin # None THEN {"rest"} ELSE {"text", "unreadable"}

(* Standard input is read once.                                             *)
Sources(file) == IF file = Stdin /\ stdin # None THEN {stdin} ELSE {"text", "unreadable"}

(* discover_schema: the first regular file; anything else of that name is   *)
(* passed over, unless it cannot be inspected.                              *)
Discovered(file) ==
    LET paths  == Candidates[file]
        stops  == {i \in DOMAIN paths : kind[paths[i]] \in {"file", "inaccessible"}}
        first  == CHOOSE i \in stops : \A j \in stops : i <= j
    IN  IF stops = {} \/ kind[paths[first]] = "inaccessible" THEN None ELSE paths[first]

SchemaFor(file) == IF args.schema # None THEN args.schema ELSE Discovered(file)

GroupAt(path) == {g \in DOMAIN groups : groups[g].path = path}
GroupFor(path) ==
    IF path = None THEN None
    ELSE IF GroupAt(path) # {} THEN CHOOSE g \in GroupAt(path) : TRUE
    ELSE Len(groups) + 1

Preflight ==
    /\ pc = "preflight" /\ next <= Len(args.files)
    /\ \E source \in Sources(args.files[next]) :
         LET file == args.files[next]
             path == SchemaFor(file)
         IN  /\ stdin' = IF file = Stdin THEN source ELSE stdin
             /\ inputs' = Append(inputs, [source |-> source, group |-> GroupFor(path)])
             /\ groups' = IF GroupFor(path) = Len(groups) + 1 THEN Append(groups, Group(path)) ELSE groups
             /\ errors' = errors \o (IF source = "unreadable" THEN <<ErrorAbout("source", next)>> ELSE <<>>)
                                 \o (IF path = None THEN <<ErrorAbout("schema", next)>> ELSE <<>>)
    /\ next' = next + 1
    /\ UNCHANGED <<text, preload, args, kind, pc, results, exit, changes>>

Proceed(from, to) ==
    /\ pc' = to /\ next' = 1
    /\ pc = from
    /\ UNCHANGED <<text, preload, args, kind, stdin, command, exit, changes>>

BeginLoading == next > Len(args.files) /\ Proceed("preflight", "load")

(***************************************************************************)
(* read_and_load_schema and prepare_validator, for one group.              *)
(***************************************************************************)
Result(about, at, diagnostics) == [about |-> about, at |-> at, diagnostics |-> diagnostics]

Loaded(load) ==
    /\ groups' = [groups EXCEPT ![next].load = load]
    /\ errors' = errors \o (IF load = "failed" THEN <<ErrorAbout("load", next)>> ELSE <<>>)
    /\ results' = results \o (IF args.command = "schema" /\ load # "failed"
                              THEN <<Result("schema", next, load = "invalid")>> ELSE <<>>)
    /\ pc' = "load" /\ next' = next + 1
    /\ UNCHANGED <<inputs, args, kind, stdin, exit, changes>>

(* The schema may have changed or gone since it was discovered. *)
ReadSchema ==
    /\ pc = "load" /\ next <= Len(groups)
    /\ LET path == groups[next].path IN
       CASE kind[path] # "file" -> Loaded("failed") /\ UNCHANGED <<text, preload>>
         [] kind[path] = "file" /\ Link[path] = None ->
              /\ \E load \in {"valid", "invalid", "failed"} : Loaded(load)
              /\ UNCHANGED <<text, preload>>
         [] OTHER ->
              /\ Begin(Link[path])
              /\ pc' = "preload"
              /\ UNCHANGED <<args, kind, next, stdin, command, exit, changes>>

FetchResource ==
    /\ pc = "preload" /\ Fetch
    /\ UNCHANGED <<args, kind, pc, next, stdin, command, exit, changes>>

SupplyResource ==
    /\ pc = "preload" /\ Supply
    /\ UNCHANGED <<args, kind, pc, next, stdin, command, exit, changes>>

(* A resource that could not be read makes the schema invalid. *)
JudgeSchema ==
    /\ pc = "preload" /\ queue = <<>> /\ reading = None
    /\ \E load \in IF Failures # {} THEN {"invalid"} ELSE {"valid", "invalid", "failed"} : Loaded(load)
    /\ UNCHANGED <<text, preload>>

BeginValidating ==
    /\ next > Len(groups)
    /\ Proceed("load", IF args.command = "check" THEN "validate" ELSE "finish")

(***************************************************************************)
(* The documents, in the order of the command line.  One without a schema  *)
(* is passed over like one whose schema failed to load.                    *)
(***************************************************************************)
LoadHere == IF inputs[next].group = None THEN "failed" ELSE groups[inputs[next].group].load
Emitted  == groups[inputs[next].group].emitted

Validated(result, error) ==
    /\ results' = results \o result
    /\ errors' = errors \o error
    /\ next' = next + 1
    /\ UNCHANGED <<text, preload, args, kind, pc, stdin, inputs, exit, changes>>

Validate ==
    /\ pc = "validate" /\ next <= Len(inputs)
    /\ LoadHere = "valid" /\ inputs[next].source = "text"
    /\ \/ \E diagnostics \in BOOLEAN : Validated(<<Result("document", next, diagnostics)>>, <<>>)
       \/ Validated(<<>>, <<ErrorAbout("document", next)>>)
    /\ UNCHANGED groups

(* Bug: an invalid schema is reported for each of its documents. *)
EmitInvalidSchemaAgain ==
    /\ pc = "validate" /\ next <= Len(inputs)
    /\ LoadHere = "invalid"
    /\ Validated(<<Result("schema", inputs[next].group, TRUE)>>, <<>>)
    /\ UNCHANGED groups

EmitInvalidSchema ==
    /\ pc = "validate" /\ next <= Len(inputs)
    /\ LoadHere = "invalid" /\ ~Emitted
    /\ groups' = [groups EXCEPT ![inputs[next].group].emitted = TRUE]
    /\ Validated(<<Result("schema", inputs[next].group, TRUE)>>, <<>>)

SkipInput ==
    /\ pc = "validate" /\ next <= Len(inputs)
    /\ CASE LoadHere = "valid"   -> inputs[next].source = "unreadable"
         [] LoadHere = "invalid" -> Emitted
         [] LoadHere = "failed"  -> TRUE
    /\ Validated(<<>>, <<>>)
    /\ UNCHANGED groups

BeginFinishing == next > Len(inputs) /\ Proceed("validate", "finish")

(* Bug: diagnostics take precedence over errors that concern other inputs. *)
ExitDiagnosticsFirst(outputFailed) ==
    IF \E i \in DOMAIN results : results[i].diagnostics THEN 1
    ELSE IF outputFailed THEN 2 ELSE 0
Exit(outputFailed) ==
    IF outputFailed \/ errors # <<>> THEN 2
    ELSE IF \E i \in DOMAIN results : results[i].diagnostics THEN 1 ELSE 0

(* Standard output may be closed; without diagnostics there may be nothing  *)
(* to write.                                                                *)
Finish ==
    /\ pc = "finish"
    /\ \E outputFailed \in BOOLEAN : exit' = Exit(outputFailed)
    /\ pc' = "done"
    /\ UNCHANGED <<text, preload, args, kind, next, stdin, command, changes>>

(* Another process changes a schema or a linked file.  Once everything is   *)
(* loaded it makes no difference.                                           *)
FilesChange ==
    /\ pc \in {"preflight", "load", "preload"} /\ changes < MaxChanges
    /\ changes' = changes + 1
    /\ \/ /\ \E s \in Schemas, k \in {"none", "file"} : kind' = [kind EXCEPT ![s] = k]
          /\ UNCHANGED text
       \/ /\ \E f \in JsonFiles, t \in Texts \union {Unreadable, Missing} : text' = [text EXCEPT ![f] = t]
          /\ UNCHANGED kind
    /\ UNCHANGED <<preload, args, pc, next, stdin, command, exit>>

Step ==
    \/ Preflight \/ BeginLoading \/ ReadSchema \/ FetchResource \/ SupplyResource
    \/ JudgeSchema \/ BeginValidating \/ Validate \/ EmitInvalidSchema \/ SkipInput \/ BeginFinishing \/ Finish

Next == Step \/ FilesChange

(* The command runs on one thread and is not stopped. *)
Spec == Init /\ [][Next]_vars /\ WF_vars(Step)

-----------------------------------------------------------------------------
(* Every variable keeps its type.                                           *)
TypeOK ==
    /\ exit \in {None, 0, 1, 2}
    /\ \A i \in DOMAIN inputs :
          /\ inputs[i].source \in {"text", "unreadable"}
          /\ inputs[i].group \in DOMAIN groups \union {None}
    /\ \A g \in DOMAIN groups :
          groups[g].load \in {"pending", "valid", "invalid", "failed"}
    /\ pc \in {"validate", "finish", "done"} =>
          \A g \in DOMAIN groups : groups[g].load # "pending"

HasResult(about, at) == \E i \in DOMAIN results : results[i].about = about /\ results[i].at = at
HasError(what, at)   == \E i \in DOMAIN errors : errors[i] = ErrorAbout(what, at)
ArgumentResult(n)    == HasResult(IF args.command = "check" THEN "document" ELSE "schema", n)

(* Outline spec 11.2: an absent result is never a pass.  An argument that   *)
(* ends without a result of its own has an error about it or its schema, or *)
(* the errors of its schema are in the results.                             *)
AbsentResultExplained ==
    pc = "done" => \A n \in DOMAIN args.files :
        \/ ArgumentResult(n)
        \/ \E what \in {"source", "schema", "document"} : args.command = "check" /\ HasError(what, n)
        \/ LET g == IF args.command = "check" THEN inputs[n].group ELSE n IN
           HasError("load", g) \/ (HasResult("schema", g) /\ groups[g].load = "invalid")

(* Exit status 0 says that every argument was checked and is valid: no      *)
(* combination of failures on the way makes up for one that was not.        *)
ZeroMeansAllValid ==
    exit = 0 =>
        /\ \A n \in DOMAIN args.files : ArgumentResult(n)
        /\ \A i \in DOMAIN results : ~results[i].diagnostics

(* The argument a result stands at: its own, or the first that depends on   *)
(* the invalid schema.                                                      *)
Position(result) ==
    IF args.command = "schema" \/ result.about = "document" THEN result.at
    ELSE CHOOSE n \in DOMAIN inputs :
            /\ inputs[n].group = result.at
            /\ \A m \in DOMAIN inputs : inputs[m].group = result.at => n <= m

(* Outline spec 11.4: results keep the order of the arguments, an invalid   *)
(* schema at the position of its first document and only there.             *)
ResultsInArgumentOrder ==
    \A i, j \in DOMAIN results : i < j => Position(results[i]) < Position(results[j])

(* Standard input can be read once: wherever it is named, what is validated *)
(* or missed is what that one read gave, never what was left after it.      *)
StdinReadOnce ==
    \A i, j \in DOMAIN inputs :
        args.files[i] = Stdin /\ args.files[j] = Stdin => inputs[i].source = inputs[j].source

(* Every argument of the command line is accounted for, once and in its     *)
(* place, also when standard input is named twice or schemas are shared.    *)
ArgumentsAccountedFor == TypeOK /\ AbsentResultExplained /\ ResultsInArgumentOrder /\ StdinReadOnce

(* The command ends, also when references between files form a cycle, or    *)
(* else it supplies the schema with new resources for ever.  A relative     *)
(* `$id` with a directory makes it do that: see CyclesResolve.              *)
EndsUnlessUrisGrow ==
    <>(pc = "done") \/ []<><<Len(resources') > Len(resources)>>_vars
=============================================================================
