--------------------------- MODULE SchemaPreload ----------------------------
(***************************************************************************)
(* Collecting the files of a linked frontmatter JSON Schema before it is   *)
(* compiled (preload_linked_json_schema in                                 *)
(* crates/outlint-cli/src/schema_loading.rs): breadth first from the file  *)
(* the schema names, over references that may form cycles, reach one file  *)
(* under several names, or fail, while the files may change.               *)
(*                                                                         *)
(* A resource has a logical URI, the identity that the `$id`s on the way   *)
(* to it give it, and a path, which they do not change; symbolic links     *)
(* lead several paths to one file.  A text stands for what a file holds.   *)
(***************************************************************************)
EXTENDS Naturals, Sequences, FiniteSets

CONSTANTS
    Origins, Segments,  \* what URIs are made of
    JsonFiles,      \* the files, by their canonical paths
    FileAt,         \* the file each path leads to, of the paths that lead to one
    Texts,          \* what a file can hold
    Refers,         \* the references of a text in order: [id, to], where `id` is what
                    \* the `$id`s around the reference come to, None without any
    Unreadable,     \* a file that is there and cannot be read
    Missing,        \* a file that is not there
    None

(* A path is a URI of the origin "file".  A reference that is a fragment    *)
(* and nothing else is None; any other goes `up` some directories, unless   *)
(* it has an origin of its own.                                             *)
Uris      == [origin : Origins, dir : Seq(Segments), file : Segments]
Relatives == [origin : Origins \union {None}, up : Nat, dir : Seq(Segments), file : Segments]
Items     == [logical : Uris, path : Uris]
Readings  == [item : Items, key : Uris \union JsonFiles, there : BOOLEAN]

Local == "file"

ASSUME DistinctOutcomes ==
    /\ {None, Unreadable, Missing} \cap Texts = {}
    /\ None # Unreadable /\ None # Missing /\ Unreadable # Missing
    /\ None \notin Origins \union Items \union Readings
ASSUME PathsLeadToFiles == FileAt \in [DOMAIN FileAt -> JsonFiles] /\ None \notin JsonFiles
ASSUME TextsRefer ==
    Refers \in [Texts -> Seq([id : Relatives \union {None}, to : Relatives \union {None}])]

Resolve(base, to) ==
    CASE to = None -> base
      [] to # None /\ to.origin # None -> [origin |-> to.origin, dir |-> to.dir, file |-> to.file]
      [] OTHER -> [origin |-> base.origin,
                   dir    |-> SubSeq(base.dir, 1, Len(base.dir) - to.up) \o to.dir,
                   file   |-> to.file]

VARIABLES
    text,           \* the files
    queue, visited, cached, resources,
    reading         \* the item that is being read, and the `key` of its file; or None

preload == <<queue, visited, cached, resources, reading>>

Files == [JsonFiles -> Texts \union {Unreadable, Missing}]

NothingCached == [key \in {} |-> None]

InitPreload ==
    /\ text \in Files
    /\ queue = <<>> /\ visited = {} /\ cached = NothingCached /\ resources = <<>> /\ reading = None

Begin(root) ==
    /\ queue' = <<root>> /\ visited' = {} /\ cached' = NothingCached /\ resources' = <<>>
    /\ reading' = None
    /\ UNCHANGED text

File(path) == IF path \in DOMAIN FileAt THEN FileAt[path] ELSE None
IsThere(path) == File(path) # None /\ text[File(path)] # Missing

(* Bug: texts are cached by the path they are read from. *)
PathItself(path) == path

(* fs::canonicalize, or the path as it is where that fails.                 *)
Canonical(path) == IF IsThere(path) THEN File(path) ELSE path

(* A file that was read before under any of its names is not read again; a  *)
(* failure is not remembered.                                               *)
Read(path, key) ==
    IF key \in DOMAIN cached THEN cached[key]
    ELSE IF IsThere(path) THEN text[File(path)] ELSE Unreadable

(* `there` is for OneTextPerFile alone: the code keeps no such thing.       *)
LookUp(item) == [item |-> item, key |-> Canonical(item.path), there |-> IsThere(item.path)]

(* Only references to local files are followed.                             *)
IsLocal(reference) == reference.to = None \/ reference.to.origin \in {None, Local}
LocalReferences(found) == SelectSeq(Refers[found], IsLocal)

(* SelectSeq, about which nothing else is known to the proofs, keeps what   *)
(* it should.                                                               *)
ASSUME LocalsAreSelected ==
    \A t \in Texts :
        /\ LocalReferences(t) \in Seq([id : Relatives \union {None}, to : Relatives \union {None}])
        /\ \A n \in DOMAIN Refers[t] : IsLocal(Refers[t][n]) =>
              \E k \in DOMAIN LocalReferences(t) : LocalReferences(t)[k] = Refers[t][n]

(* Where a reference leads from a resource: its path never sees an `$id`.   *)
Target(reference, item) ==
    [logical |-> Resolve(Resolve(item.logical, reference.id), reference.to),
     path    |-> Resolve(item.path, reference.to)]

Found(item, found) ==
    IF found = Unreadable THEN <<>>
    ELSE [k \in DOMAIN LocalReferences(found) |-> Target(LocalReferences(found)[k], item)]

(* Bug: an entry that is passed over stays in the queue. *)
FetchPeeks ==
    /\ queue # <<>> /\ reading = None
    /\ Head(queue).logical \notin visited
    /\ queue' = Tail(queue)
    /\ visited' = visited \union {Head(queue).logical}
    /\ reading' = LookUp(Head(queue))
    /\ UNCHANGED <<text, cached, resources>>

(* A URI that was supplied before is passed over, whichever path it has now. *)
Fetch ==
    /\ queue # <<>> /\ reading = None
    /\ queue' = Tail(queue)
    /\ IF Head(queue).logical \in visited THEN UNCHANGED <<visited, reading>>
       ELSE /\ visited' = visited \union {Head(queue).logical}
            /\ reading' = LookUp(Head(queue))
    /\ UNCHANGED <<text, cached, resources>>

Supply ==
    /\ reading # None
    /\ LET found == Read(reading.item.path, reading.key) IN
       /\ cached' = IF found = Unreadable \/ reading.key \in DOMAIN cached THEN cached
                    ELSE [key \in DOMAIN cached \union {reading.key} |->
                             IF key = reading.key THEN found ELSE cached[key]]
       /\ resources' = Append(resources, [logical |-> reading.item.logical, path |-> reading.item.path,
                                          there |-> reading.there, text |-> found])
       /\ queue' = queue \o Found(reading.item, found)
    /\ reading' = None
    /\ UNCHANGED <<text, visited>>

(* What compilation cannot do without. *)
Failures == {i \in DOMAIN resources : resources[i].text = Unreadable}
Supplied == DOMAIN resources \ Failures

-----------------------------------------------------------------------------
(* One preload never holds two texts of one file, under whatever names it   *)
(* was reached and whatever happened to the file meanwhile, so long as the  *)
(* file was there when each of its names was looked up.  One that came into *)
(* being between that and the read is cached under the name it was looked   *)
(* up by, and may have another text under another name.                     *)
OneTextPerFile ==
    \A i, j \in Supplied :
        resources[i].there /\ resources[j].there /\ File(resources[i].path) = File(resources[j].path)
            => resources[i].text = resources[j].text

(* Every URI is supplied once, and when nothing is left to do every local   *)
(* reference of every text is supplied: compiling it needs no file and      *)
(* meets no duplicate.                                                      *)
GraphWhole ==
    /\ \A i, j \in DOMAIN resources : i # j => resources[i].logical # resources[j].logical
    /\ queue = <<>> /\ reading = None =>
          \A i \in Supplied : \A n \in DOMAIN Refers[resources[i].text] :
              LET reference == Refers[resources[i].text][n] IN
              IsLocal(reference) =>
                  \E j \in DOMAIN resources :
                      resources[j].logical = Target(reference, resources[i]).logical

(* What is compiled is one consistent set of files, even though they are    *)
(* read one after the other while others change them.                       *)
PreloadConsistent == OneTextPerFile /\ GraphWhole

(* Outline spec 2.3: a reference reached a second time on one path resolves *)
(* to the schema already being read, which is why cycles need no bound.     *)
(* When a reference leads from a text back to it, then from there it leads  *)
(* to one of the two that were read.                                        *)
CyclesResolve ==
    \A i, j \in Supplied : \A n \in DOMAIN Refers[resources[i].text] :
        LET reference == Refers[resources[i].text][n] IN
        /\ resources[j].path = resources[i].path /\ resources[j].text = resources[i].text
        /\ resources[j].logical = Target(reference, resources[i]).logical
        => Target(reference, resources[j]).logical \in {resources[i].logical, resources[j].logical}
=============================================================================
