---------------------------- MODULE SearchIndex -----------------------------
(***************************************************************************)
(* `outlint search` and its shared on-disk index                           *)
(* (crates/outlint-search/src/store.rs, crates/outlint-cli/src/search.rs). *)
(*                                                                         *)
(* Every invocation is a process of its own: it opens the index of the     *)
(* repository or rebuilds it by renaming directories, walks the files      *)
(* under its search root, plans a refresh from the (mtime, size) of what   *)
(* it walked and what is indexed, writes under tantivy's writer lock, and  *)
(* searches.  Files change, processes crash, and other invocations, of the *)
(* same or another outlint version and search root, run at the same time.  *)
(*                                                                         *)
(* A file's version stands for its contents and for its (mtime, size): one *)
(* never changes without the other, as `Load::Skipped` of store.rs assumes.*)
(* A walk is one step: what it says of each file is compared with that     *)
(* file alone.                                                             *)
(*                                                                         *)
(* Tantivy is external: an opened index remembers the path of its          *)
(* directory, so segments and metadata go to whatever directory has that   *)
(* name when they are written; the writer lock is a file of the directory  *)
(* it was taken in and dies with its process.                              *)
(***************************************************************************)
EXTENDS Naturals, FiniteSets

CONSTANTS
    Invocations, Files,
    Scope,          \* the files under the search root of each invocation
    Format,         \* the marker each invocation expects: format and outlint version
    Original,       \* the marker of the index in place at first, or None
    Undecodable,    \* versions that are too large, not UTF-8 or do not parse
    WalkErrors,     \* whether a walk may miss files
    MaxActive,      \* bound: invocations running at the same time
    MaxChanges,     \* bound: changes to the files
    MaxCrashes,     \* bound: processes that are killed
    Initial,        \* the name of the directory in place at first
    None

ASSUME ScopesAndFormats ==
    /\ Scope \in [Invocations -> SUBSET Files]
    /\ None \notin {Format[p] : p \in Invocations}
ASSUME BoundsAreNatural == {MaxActive, MaxChanges, MaxCrashes} \subseteq Nat
ASSUME Sentinels ==
    /\ None \notin Nat \union [sig : Nat, text : Nat \union {None}]
    /\ {None, Initial} \cap Invocations = {} /\ None # Initial
ASSUME Alternatives == Undecodable \subseteq Nat /\ WalkErrors \in BOOLEAN

(* Each rebuild creates one directory, named after its process. *)
Dirs == Invocations \union {Initial}

VARIABLES
    version, present, unreadable,       \* the files: contents, existence, permissions
    place, marker, content, damaged, lock,  \* the index directories
    run,                                \* the processes
    changes, crashes                    \* how much of the bounds is used up

files == <<version, present, unreadable>>
dirs  == <<place, marker, content, damaged, lock>>
vars  == <<files, dirs, run, changes, crashes>>

(* One indexed file: the signature recorded with it and the version its     *)
(* units were made from, None for a tombstone.                              *)
Record  == [sig : Nat, text : Nat \union {None}]
Records == [Files -> Record \union {None}]
Empty   == [f \in Files |-> None]

Ended     == {"idle", "done", "failed", "crashed"}
Active    == {p \in Invocations : run[p].pc \notin Ended}
Installed == {d \in Dirs : place[d] = "search"}     \* at `.outlint/search`
Current   == IF Installed = {} THEN None ELSE CHOOSE d \in Installed : TRUE
Readable(d) == d # None /\ ~damaged[d]

(* What a process carries from step to step. *)
Fresh == [old |-> None, walked |-> [f \in Files |-> 0], complete |-> TRUE,
          todo |-> {}, remove |-> {}, staged |-> Empty, writer |-> None, based |-> FALSE,
          flushed |-> None, skipped |-> FALSE, refused |-> {}, hits |-> Empty]

Init ==
    /\ version = [f \in Files |-> 1]
    /\ present = Files
    /\ unreadable = {}
    /\ place = [d \in Dirs |-> IF d = Initial /\ Original # None THEN "search" ELSE "none"]
    /\ marker = [d \in Dirs |-> IF d = Initial THEN Original ELSE None]
    /\ content = [d \in Dirs |-> Empty]
    /\ damaged = [d \in Dirs |-> FALSE]
    /\ lock = [d \in Dirs |-> None]
    /\ run = [p \in Invocations |-> [pc |-> "idle", disturbed |-> FALSE, data |-> Fresh]]
    /\ changes = 0
    /\ crashes = 0

-----------------------------------------------------------------------------
(* How a step moves its process on, and what the others notice.            *)

Data(p) == run[p].data
At(p, label) == run[p].pc = label
Goto(p, label) == run' = [run EXCEPT ![p].pc = label]
Keep(p, label, data) == run' = [run EXCEPT ![p].pc = label, ![p].data = data]

(* An error ends the process with exit status 2; dropping the writer        *)
(* releases its lock.                                                       *)
Unlocked(p) == [d \in Dirs |-> IF lock[d] = p THEN None ELSE lock[d]]
Fail(p) == Keep(p, "failed", Fresh) /\ lock' = Unlocked(p)

(* disturbed: something other than this process changed since it started,  *)
(* or the file system failed it.                                           *)
Disturb(ps, r) == [q \in Invocations |-> IF q \in ps THEN [r[q] EXCEPT !.disturbed = TRUE] ELSE r[q]]

Start(p) ==
    /\ At(p, "idle")
    /\ Cardinality(Active) < MaxActive
    /\ run' = Disturb((Invocations \ {p}) \union (IF Active = {} THEN {} ELSE {p}),
                      [run EXCEPT ![p].pc = "open", ![p].disturbed = FALSE])
    /\ UNCHANGED <<files, dirs, changes, crashes>>

-----------------------------------------------------------------------------
(* Store::open_or_rebuild and install_replacement.                         *)

(* Only the marker and the metadata are looked at: a damaged index opens.  *)
OpenIndex(p) ==
    /\ At(p, "open")
    /\ Goto(p, IF Current # None /\ marker[Current] = Format[p] THEN "walk" ELSE "build")
    /\ UNCHANGED <<files, dirs, changes, crashes>>

(* Temporary directories of dead processes.  The code tells them by their   *)
(* age alone: an index nothing was written to for an hour is left out here  *)
(* while the process that moved it aside runs.                             *)
Strays == {d \in Dirs : /\ place[d] \in {"new", "old"}
                        /\ d \notin Active \union {Data(q).old : q \in Active}}

(* Any of them may be older than an hour.  The new index is complete,      *)
(* marker included, before it gets a name anyone opens.                    *)
Build(p) ==
    /\ At(p, "build")
    /\ \E swept \in SUBSET Strays :
         place' = [d \in Dirs |-> IF d = p THEN "new" ELSE IF d \in swept THEN "none" ELSE place[d]]
    /\ marker' = [marker EXCEPT ![p] = Format[p]]
    /\ Goto(p, "check_old")
    /\ UNCHANGED <<files, content, damaged, lock, changes, crashes>>

(* Bug: the old directory is moved without looking whether there is one. *)
CheckOldUnchecked(p) ==
    /\ At(p, "check_old")
    /\ Goto(p, "move_old")
    /\ UNCHANGED <<files, dirs, changes, crashes>>

CheckOld(p) ==
    /\ At(p, "check_old")
    /\ Goto(p, IF Current = None THEN "install" ELSE "move_old")
    /\ UNCHANGED <<files, dirs, changes, crashes>>

(* The directory may have gone since it was checked: the rename then fails *)
(* and the replacement is removed.                                         *)
MoveOld(p) ==
    /\ At(p, "move_old")
    /\ IF Current = None
       THEN place' = [place EXCEPT ![p] = "none"] /\ Fail(p)
       ELSE /\ place' = [place EXCEPT ![Current] = "old"]
            /\ Keep(p, "install", [Data(p) EXCEPT !.old = Current])
            /\ UNCHANGED lock
    /\ UNCHANGED <<files, marker, content, damaged, changes, crashes>>

(* Bug: the directory is renamed over whatever is installed. *)
InstallOver(p) ==
    /\ At(p, "install")
    /\ place' = [place EXCEPT ![p] = "search"]
    /\ Goto(p, "reopen")
    /\ UNCHANGED <<files, marker, content, damaged, lock, changes, crashes>>

Install(p) ==
    /\ At(p, "install")
    /\ IF Current = None
       THEN place' = [place EXCEPT ![p] = "search"] /\ Goto(p, "reopen")
       ELSE place' = [place EXCEPT ![p] = "none"] /\ Goto(p, "conflict")
    /\ UNCHANGED <<files, marker, content, damaged, lock, changes, crashes>>

(* The rename may fail for a reason that no other process is to blame for:  *)
(* the replacement is removed.                                             *)
InstallFails(p) ==
    /\ At(p, "install")
    /\ place' = [place EXCEPT ![p] = "none"]
    /\ run' = [run EXCEPT ![p].pc = "undo", ![p].disturbed = TRUE]
    /\ UNCHANGED <<files, marker, content, damaged, lock, changes, crashes>>

(* Bug: the error is returned with the old directory left aside. *)
PutBackNothing(p) ==
    /\ At(p, "undo")
    /\ Fail(p)
    /\ UNCHANGED <<files, place, marker, content, damaged, changes, crashes>>

(* Unless another rebuild installed its index meanwhile, the old directory  *)
(* is put back before the error is returned.                               *)
PutBack(p) ==
    /\ At(p, "undo")
    /\ place' = [d \in Dirs |-> IF d = Data(p).old /\ Current = None THEN "search" ELSE place[d]]
    /\ Fail(p)
    /\ UNCHANGED <<files, marker, content, damaged, changes, crashes>>

(* Bug: with the directory gone again, wait for another rebuild's. *)
ConflictWaits(p) ==
    /\ At(p, "conflict")
    /\ Current # None
    /\ Goto(p, "check_marker")
    /\ UNCHANGED <<files, dirs, changes, crashes>>

(* Another rebuild may have installed its index first.  If that one has     *)
(* gone again, put the old directory back.                                  *)
Conflict(p) ==
    /\ At(p, "conflict")
    /\ IF Current # None
       THEN Goto(p, "check_marker") /\ UNCHANGED <<place, lock>>
       ELSE /\ place' = [d \in Dirs |-> IF d = Data(p).old THEN "search" ELSE place[d]]
            /\ Fail(p)
    /\ UNCHANGED <<files, marker, content, damaged, changes, crashes>>

(* What it installed is used if its marker is the expected one. *)
CheckMarker(p) ==
    /\ At(p, "check_marker")
    /\ IF Current # None /\ marker[Current] = Format[p]
       THEN Goto(p, "reopen") /\ UNCHANGED lock
       ELSE Fail(p)
    /\ UNCHANGED <<files, place, marker, content, damaged, changes, crashes>>

Reopen(p) ==
    /\ At(p, "reopen")
    /\ place' = [d \in Dirs |-> IF d = Data(p).old THEN "none" ELSE place[d]]
    /\ IF Current = None THEN Fail(p)
       ELSE Keep(p, "walk", [Data(p) EXCEPT !.old = None]) /\ UNCHANGED lock
    /\ UNCHANGED <<files, marker, content, damaged, changes, crashes>>

-----------------------------------------------------------------------------
(* walk_markdown and Store::refresh.                                       *)

Walk(p) ==
    /\ At(p, "walk")
    /\ \E missed \in IF WalkErrors THEN SUBSET (Scope[p] \cap present) ELSE {{}} :
         Keep(p, "plan",
              [Data(p) EXCEPT
                !.walked = [f \in Files |-> IF f \in (Scope[p] \cap present) \ missed
                                            THEN version[f] ELSE 0],
                !.complete = (missed = {})])
    /\ UNCHANGED <<files, dirs, changes, crashes>>

(* plan_refresh: what to index anew, and what to drop. *)
Changed(walked, indexed) ==
    {f \in Files : walked[f] # 0 /\ (indexed[f] = None \/ indexed[f].sig # walked[f])}
Gone(p, walked, indexed) ==
    {f \in Scope[p] : indexed[f] # None /\ walked[f] = 0}

(* The index is read after the walk.  With nothing to do the writer is not *)
(* opened at all.                                                          *)
Plan(p) ==
    /\ At(p, "plan")
    /\ IF ~Readable(Current) THEN Fail(p)
       ELSE LET todo   == Changed(Data(p).walked, content[Current])
                remove == IF Data(p).complete THEN Gone(p, Data(p).walked, content[Current])
                          ELSE {}
            IN  /\ Keep(p, IF todo \union remove = {} THEN "search" ELSE "lock",
                        [Data(p) EXCEPT !.todo = todo, !.remove = remove])
                /\ UNCHANGED lock
    /\ UNCHANGED <<files, place, marker, content, damaged, changes, crashes>>

(* Bug: the lock is not looked at. *)
AcquireWriterUnlocked(p) ==
    /\ At(p, "lock")
    /\ LET d == Current IN
       IF d = None THEN Fail(p)
       ELSE /\ lock' = [lock EXCEPT ![d] = p]
            /\ Keep(p, "load",
                    [Data(p) EXCEPT
                      !.writer = d,
                      !.based = (content[d] # Empty),
                      !.staged = [f \in Files |-> IF f \in Data(p).todo \union Data(p).remove
                                                  THEN None ELSE content[d][f]]])
    /\ UNCHANGED <<files, place, marker, content, damaged, changes, crashes>>

(* The lock is not waited for: with it taken, the index is searched as it  *)
(* is.  The writer starts from what is committed, less everything it is    *)
(* going to drop or replace.                                               *)
AcquireWriter(p) ==
    /\ At(p, "lock")
    /\ LET d == Current IN
       IF d = None THEN Fail(p)
       ELSE IF lock[d] # None
       THEN /\ Keep(p, "search", [Data(p) EXCEPT !.skipped = TRUE, !.todo = {}, !.remove = {}])
            /\ UNCHANGED lock
       ELSE /\ lock' = [lock EXCEPT ![d] = p]
            /\ Keep(p, "load",
                    [Data(p) EXCEPT
                      !.writer = d,
                      !.based = (content[d] # Empty),
                      !.staged = [f \in Files |-> IF f \in Data(p).todo \union Data(p).remove
                                                  THEN None ELSE content[d][f]]])
    /\ UNCHANGED <<files, place, marker, content, damaged, changes, crashes>>

(* Bug: the contents are read during the walk. *)
LoadedEarly(p, f) ==
    IF f \notin present \ unreadable THEN None
    ELSE [sig |-> Data(p).walked[f], text |-> Data(p).walked[f]]

(* Bug: a file that cannot be read gets a tombstone. *)
LoadedTombstone(p, f) ==
    [sig |-> Data(p).walked[f],
     text |-> IF f \notin present \ unreadable \/ version[f] \in Undecodable THEN None
              ELSE version[f]]

(* The contents are read now, the signature was taken by the walk.  A file *)
(* that cannot be read is noted and not recorded.                          *)
Loaded(p, f) ==
    IF f \notin present \ unreadable THEN None
    ELSE [sig |-> Data(p).walked[f], text |-> IF version[f] \in Undecodable THEN None ELSE version[f]]

Load(p) ==
    /\ At(p, "load")
    /\ \E f \in Data(p).todo :
         Keep(p, "load", [Data(p) EXCEPT
                            !.todo = @ \ {f},
                            !.staged[f] = Loaded(p, f),
                            !.refused = IF Loaded(p, f) = None THEN @ \union {f} ELSE @])
    /\ UNCHANGED <<files, dirs, changes, crashes>>

(* commit, first half: the new segment. *)
Flush(p) ==
    /\ At(p, "load") /\ Data(p).todo = {}
    /\ IF Current = None THEN Fail(p)
       ELSE Keep(p, "commit", [Data(p) EXCEPT !.flushed = Current]) /\ UNCHANGED lock
    /\ UNCHANGED <<files, place, marker, content, damaged, changes, crashes>>

(* commit, second half: the metadata, naming the old segments and the new  *)
(* one.  Deletions open the old segments, so a directory without them is   *)
(* an error; one without the new segment is left damaged.                  *)
Commit(p) ==
    /\ At(p, "commit")
    /\ LET d == Current
           n == Data(p) IN
       IF d = None \/ (n.based /\ (d # n.writer \/ damaged[d]))
       THEN Fail(p) /\ UNCHANGED <<content, damaged>>
       ELSE /\ content' = [content EXCEPT ![d] = n.staged]
            /\ damaged' = [damaged EXCEPT ![d] = (n.flushed # d /\ n.staged # Empty)]
            /\ lock' = Unlocked(p)
            /\ Keep(p, "search", [n EXCEPT !.writer = None, !.staged = Empty, !.based = FALSE,
                                           !.flushed = None, !.remove = {}])
    /\ UNCHANGED <<files, place, marker, changes, crashes>>

-----------------------------------------------------------------------------
(* Store::search: the reader is opened now, and tombstones never match.    *)
Search(p) ==
    /\ At(p, "search")
    /\ IF ~Readable(Current) THEN Fail(p)
       ELSE /\ Keep(p, "done",
                    [Data(p) EXCEPT
                      !.hits = [f \in Files |-> IF f \in Scope[p] /\ content[Current][f] # None
                                                THEN content[Current][f].text ELSE None]])
            /\ UNCHANGED lock
    /\ UNCHANGED <<files, place, marker, content, damaged, changes, crashes>>

(* What else happens: a process is killed, or a file is written, deleted   *)
(* or changes its permissions.                                             *)
Crash(p) ==
    /\ p \in Active /\ crashes < MaxCrashes
    /\ Keep(p, "crashed", Fresh)
    /\ lock' = Unlocked(p)
    /\ crashes' = crashes + 1
    /\ UNCHANGED <<files, place, marker, content, damaged, changes>>

FilesChange ==
    /\ changes < MaxChanges
    /\ changes' = changes + 1
    /\ run' = Disturb(Invocations, run)
    /\ UNCHANGED <<dirs, crashes>>

WriteFile(f) ==
    /\ FilesChange
    /\ version' = [version EXCEPT ![f] = @ + 1]
    /\ present' = present \union {f}
    /\ unreadable' = unreadable \ {f}

DeleteFile(f) ==
    /\ FilesChange
    /\ f \in present
    /\ present' = present \ {f}
    /\ UNCHANGED <<version, unreadable>>

ChangePermissions(f) ==
    /\ FilesChange
    /\ f \in present
    /\ unreadable' = IF f \in unreadable THEN unreadable \ {f} ELSE unreadable \union {f}
    /\ UNCHANGED <<version, present>>

Step(p) ==
    \/ OpenIndex(p) \/ Build(p) \/ CheckOld(p) \/ MoveOld(p) \/ Install(p) \/ Conflict(p)
    \/ PutBack(p) \/ CheckMarker(p) \/ Reopen(p) \/ Walk(p) \/ Plan(p) \/ AcquireWriter(p) \/ Load(p) \/ Flush(p)
    \/ Commit(p) \/ Search(p)

Next ==
    \/ \E p \in Invocations : Start(p) \/ Step(p) \/ InstallFails(p) \/ Crash(p)
    \/ \E f \in Files : WriteFile(f) \/ DeleteFile(f) \/ ChangePermissions(f)

(* A process that was started and is not killed keeps running. *)
Spec == Init /\ [][Next]_vars /\ \A p \in Invocations : WF_vars(Step(p))

-----------------------------------------------------------------------------
(* Every variable keeps its type, at most one directory is installed, and   *)
(* at most one process writes to each: the writer lock is held exactly by   *)
(* the processes between AcquireWriter and the end of their commit.         *)
TypeOK ==
    /\ version \in [Files -> Nat]
    /\ present \subseteq Files /\ unreadable \subseteq Files
    /\ place \in [Dirs -> {"none", "new", "old", "search"}]
    /\ marker \in [Dirs -> {Format[p] : p \in Invocations} \union {Original, None}]
    /\ content \in [Dirs -> Records]
    /\ damaged \in [Dirs -> BOOLEAN]
    /\ lock \in [Dirs -> Invocations \union {None}]
    /\ Cardinality(Installed) <= 1
    /\ \A p \in Invocations :
          /\ run[p].disturbed \in BOOLEAN
          /\ Data(p).writer # None <=> run[p].pc \in {"load", "commit"}
          /\ \A d \in Dirs : lock[d] = p <=> Data(p).writer = d /\ d # None

Indexable(f) == f \in present /\ version[f] \notin Undecodable

(* A search that nothing disturbed, after a complete walk, returns what the *)
(* files say now, whatever crashed, was interrupted or ran concurrently     *)
(* before it: each file its current contents, and nothing for a file that   *)
(* is gone or cannot be decoded.                                            *)
UndisturbedSearchIsExact ==
    \A p \in Invocations :
        At(p, "done") /\ ~run[p].disturbed /\ Data(p).complete =>
            \A f \in Scope[p] \ unreadable :
                Data(p).hits[f] = IF Indexable(f) THEN version[f] ELSE None

(* Whatever happened before, an invocation that runs alone and that the     *)
(* file system serves does not fail: what an earlier one left of the index  *)
(* is opened or rebuilt.                                                    *)
UndisturbedSearchSucceeds ==
    \A p \in Invocations : At(p, "failed") => run[p].disturbed

(* A search that refreshed the index never shows a file as it was before    *)
(* its own walk, even when others refresh the same index at the same time.  *)
HitsNotOlderThanWalk ==
    \A p \in Invocations, f \in Files :
        At(p, "done") /\ ~Data(p).skipped /\ Data(p).hits[f] # None =>
            Data(p).hits[f] >= Data(p).walked[f]

(* What a search shows is current: exactly, when nothing disturbed it, and  *)
(* never older than its walk.                                               *)
SearchesAreCurrent == UndisturbedSearchIsExact /\ HitsNotOlderThanWalk

(* A refresh changes only records of files in its own scope, and drops a    *)
(* file it did not walk only if its walk was complete.                      *)
TouchesOnlyItsFiles ==
    \A p \in Invocations, d \in Dirs, f \in Files :
        /\ At(p, "commit") /\ run'[p].pc = "search"
        /\ content'[d][f] # content[d][f]
        => /\ f \in Scope[p]
           /\ Data(p).walked[f] = 0 => Data(p).complete
RefreshTouchesOnlyItsFiles == [][TouchesOnlyItsFiles]_vars

(* Refreshes of any number of processes, with walks of any age, never       *)
(* replace the text of a file by an older one.                              *)
TextAdvances ==
    \A d \in Dirs, f \in Files :
        None \notin {content[d][f], content'[d][f]} =>
            LET before == content[d][f].text
                after  == content'[d][f].text
            IN  None \notin {before, after} => after >= before
TextNeverGoesBack == [][TextAdvances]_vars

(* A refresh only ever moves its own files forward.                         *)
RefreshesOnlyAdvance == RefreshTouchesOnlyItsFiles /\ TextNeverGoesBack

(* Rebuilds that race, or fail after they moved the old index aside, never  *)
(* lose the index between them: when all ended and none was killed halfway, *)
(* and there was one at first, or one was searched, or one lies aside, then *)
(* one directory is installed, complete with the marker of a version.       *)
RebuildsLeaveAnIndex ==
    /\ Active = {} /\ crashes = 0
    /\ \/ Original # None
       \/ \E p \in Invocations : At(p, "done")
       \/ \E d \in Dirs : place[d] = "old"
    => Current # None /\ marker[Current] # None

(* Every started invocation ends: it never waits for another one.           *)
EveryInvocationEnds ==
    \A p \in Invocations : At(p, "open") ~> run[p].pc \in Ended

-----------------------------------------------------------------------------
(* What the documents of the repository promise and the code does not keep. *)

(* search-spec 6.4: results reflect the current files of the scope.  A file *)
(* the process walked, that has not changed since and that no process found *)
(* unreadable, is found, if the refresh was not skipped.                    *)
RefreshedSearchSeesFiles ==
    \A p \in Invocations, f \in Files :
        /\ At(p, "done") /\ ~Data(p).skipped
        /\ Indexable(f) /\ Data(p).walked[f] = version[f]
        /\ \A q \in Invocations : f \notin Data(q).refused
        => Data(p).hits[f] = version[f]
=============================================================================
