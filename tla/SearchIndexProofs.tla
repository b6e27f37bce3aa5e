------------------------- MODULE SearchIndexProofs --------------------------
(***************************************************************************)
(* Theorems about the search index, for any number of processes, files,    *)
(* changes and crashes: types and locks, and what rebuilds leave behind.   *)
(***************************************************************************)
EXTENDS SearchIndex, FiniteSetTheorems, TLAPS

-----------------------------------------------------------------------------
(* Types, and who holds which lock.                                        *)

Labels == {"idle", "open", "build", "check_old", "move_old", "install", "conflict", "undo",
           "check_marker", "reopen", "walk", "plan", "lock", "load", "commit", "search", "done", "failed", "crashed"}

Datas == [old : Dirs \union {None}, walked : [Files -> Nat], complete : BOOLEAN,
          todo : SUBSET Files, remove : SUBSET Files, staged : Records, writer : Dirs \union {None},
          based : BOOLEAN, flushed : Dirs \union {None}, skipped : BOOLEAN, refused : SUBSET Files,
          hits : [Files -> Nat \union {None}]]
Markers == {Format[p] : p \in Invocations} \union {Original, None}
Runs == [pc : Labels, disturbed : BOOLEAN, data : Datas]

Types ==
    /\ version \in [Files -> Nat \ {0}]
    /\ present \subseteq Files /\ unreadable \subseteq Files
    /\ place \in [Dirs -> {"none", "new", "old", "search"}]
    /\ marker \in [Dirs -> Markers]
    /\ content \in [Dirs -> Records]
    /\ damaged \in [Dirs -> BOOLEAN]
    /\ lock \in [Dirs -> Invocations \union {None}]
    /\ run \in [Invocations -> Runs]
    /\ crashes \in Nat

OneInstalled == \A d, e \in Installed : d = e

LocksHeld ==
    \A p \in Invocations :
        /\ Data(p).writer # None <=> run[p].pc \in {"load", "commit"}
        /\ \A d \in Dirs : lock[d] = p <=> Data(p).writer = d

TypeInv == Types /\ OneInstalled /\ LocksHeld

-----------------------------------------------------------------------------
(* Rebuilds: where the directories of the processes are.                   *)

Beginning == {"idle", "open", "build"}
Replacing == {"check_old", "move_old", "install"}

Places ==
    /\ \A p \in Invocations :
          /\ run[p].pc \in Beginning => place[p] = "none"
          /\ run[p].pc \in Replacing => place[p] = "new"
          /\ Data(p).old # None =>
                /\ run[p].pc \in {"install", "conflict", "undo", "check_marker", "reopen"}
                /\ place[Data(p).old] = "old"
    /\ \A p, q \in Invocations : p # q /\ Data(p).old # None => Data(p).old # Data(q).old
    /\ \A d \in Dirs : place[d] # "none" => marker[d] # None

(* Without an index, whoever moved it aside is about to install another one *)
(* or to put it back, unless there never was any.                           *)
SomeoneReplaces ==
    \E p \in Invocations : run[p].pc \in {"install", "undo"} /\ Data(p).old # None

Starting == Beginning \union {"check_old", "install", "undo", "failed"}

NothingYet ==
    /\ Original = None
    /\ \A d \in Dirs : place[d] \notin {"search", "old"}
    /\ \A p \in Invocations : run[p].pc \in Starting

SomeoneInstalls == crashes = 0 /\ Current = None => SomeoneReplaces \/ NothingYet

-----------------------------------------------------------------------------
(* How the operators of the steps act on the processes.                    *)

(* A step that keeps a process running changes nothing of the others.      *)
LEMMA Kept ==
    ASSUME Types, NEW p \in Invocations, NEW label \in Labels, NEW data \in Datas,
           Keep(p, label, data)
    PROVE  /\ run' \in [Invocations -> Runs]
           /\ run'[p] = [run[p] EXCEPT !.pc = label, !.data = data]
           /\ run'[p].pc = label
           /\ run'[p].data = data
           /\ run'[p].disturbed = run[p].disturbed
           /\ \A q \in Invocations \ {p} : run'[q] = run[q]
  BY DEF Types, Keep, Runs

LEMMA Went ==
    ASSUME Types, NEW p \in Invocations, NEW label \in Labels, Goto(p, label)
    PROVE  Keep(p, label, Data(p))
  BY DEF Types, Keep, Goto, Runs, Data

LEMMA Typed ==
    ASSUME Types, NEW p \in Invocations
    PROVE  Data(p) \in Datas /\ run[p].pc \in Labels /\ run[p].disturbed \in BOOLEAN
  BY DEF Types, Runs, Data

LEMMA FreshTyped == Fresh \in Datas
  BY Sentinels DEF Fresh, Datas, Empty, Records

LEMMA NotADir == None \notin Dirs
  BY Sentinels DEF Dirs

(* What Current says of the directories.                                   *)
LEMMA CurrentIs ==
    ASSUME Types, OneInstalled
    PROVE  /\ Current \in Dirs \union {None}
           /\ Current # None => Current \in Dirs /\ place[Current] = "search"
           /\ Current = None => \A d \in Dirs : place[d] # "search"
           /\ \A d \in Dirs : place[d] = "search" => Current = d
  BY NotADir DEF Current, Installed, OneInstalled

(* Locks, when a process goes on without touching them, and when it drops   *)
(* its own.                                                                *)
LEMMA LocksKept ==
    ASSUME Types, LocksHeld, NEW p \in Invocations, NEW label \in Labels, NEW data \in Datas,
           Keep(p, label, data), data.writer = Data(p).writer,
           (label \in {"load", "commit"}) = (run[p].pc \in {"load", "commit"}),
           lock' = lock
    PROVE  LocksHeld'
<1>1. /\ run'[p].pc = label /\ run'[p].data = data
      /\ \A q \in Invocations \ {p} : run'[q] = run[q]
  BY Kept
<1>2. ASSUME NEW q \in Invocations
      PROVE  /\ run'[q].data.writer # None <=> run'[q].pc \in {"load", "commit"}
             /\ \A d \in Dirs : lock'[d] = q <=> run'[q].data.writer = d
  BY <1>1 DEF LocksHeld, Data
<1> QED BY <1>2 DEF LocksHeld, Data

LEMMA LocksReleased ==
    ASSUME Types, LocksHeld, NEW p \in Invocations, NEW label \in Labels, NEW data \in Datas,
           Keep(p, label, data), data.writer = None, label \notin {"load", "commit"},
           lock' = Unlocked(p)
    PROVE  LocksHeld' /\ lock' \in [Dirs -> Invocations \union {None}]
<1>1. lock' \in [Dirs -> Invocations \union {None}]
  BY DEF Types, Unlocked
<1>2. /\ run'[p].pc = label /\ run'[p].data = data
      /\ \A q \in Invocations \ {p} : run'[q] = run[q]
  BY Kept
<1>3. \A d \in Dirs : lock'[d] = IF lock[d] = p THEN None ELSE lock[d]
  BY DEF Unlocked
<1>4. p # None
  BY Sentinels
<1>5. ASSUME NEW q \in Invocations
      PROVE  /\ run'[q].data.writer # None <=> run'[q].pc \in {"load", "commit"}
             /\ \A d \in Dirs : lock'[d] = q <=> run'[q].data.writer = d
  <2>1. CASE q = p
    BY <1>2, <1>3, <1>4, <2>1, NotADir
  <2>2. CASE q # p
    <3>1. q # None /\ run'[q] = run[q]
      BY <1>2, <2>2, Sentinels
    <3> QED BY <1>3, <2>2, <3>1 DEF LocksHeld, Data
  <2> QED BY <2>1, <2>2
<1> QED BY <1>1, <1>5 DEF LocksHeld, Data

LEMMA NoneInstalled ==
    ASSUME OneInstalled, \A d \in Dirs : place'[d] = "search" => place[d] = "search"
    PROVE  OneInstalled'
  BY DEF OneInstalled, Installed

(* One directory is installed, when nothing is put in place of another.     *)
LEMMA NotInstalled ==
    ASSUME OneInstalled, NEW d \in Dirs, place' \in [Dirs -> {"none", "new", "old", "search"}],
           \A e \in Dirs \ {d} : place'[e] = "search" => place[e] = "search",
           place'[d] = "search" => Current = None
    PROVE  OneInstalled'
<1>1. \A e \in Dirs : place'[e] = "search" => e = d \/ (e \in Installed /\ e # d)
  BY DEF Installed
<1>2. place'[d] = "search" => Installed = {}
  BY NotADir DEF Current, Installed
<1>3. \A e, i \in Dirs : place'[e] = "search" /\ place'[i] = "search" => e = i
  BY <1>1, <1>2 DEF OneInstalled
<1> QED BY <1>3 DEF OneInstalled, Installed

-----------------------------------------------------------------------------
(* Types, one installed directory and the locks: every step keeps them.     *)

LEMMA TypesBegin == Init => TypeInv
<1> SUFFICES ASSUME Init PROVE TypeInv
  OBVIOUS
<1>1. Empty \in Records /\ Fresh \in Datas /\ Fresh.writer = None
  BY FreshTyped DEF Empty, Records, Fresh
<1>2. Types
  BY <1>1 DEF Init, Types, Runs, Labels, Dirs, Markers
<1>3. OneInstalled
  BY DEF Init, OneInstalled, Installed
<1>4. LocksHeld
  BY <1>1, NotADir, Sentinels DEF Init, LocksHeld, Data
<1> QED BY <1>2, <1>3, <1>4 DEF TypeInv

(* A step that leaves the directories alone.                                *)
LEMMA TypesGoOn ==
    ASSUME TypeInv, NEW p \in Invocations, NEW label \in Labels, NEW data \in Datas,
           Keep(p, label, data), data.writer = Data(p).writer,
           (label \in {"load", "commit"}) = (run[p].pc \in {"load", "commit"}),
           UNCHANGED <<files, dirs, crashes>>
    PROVE  TypeInv'
<1>1. run' \in [Invocations -> Runs] /\ LocksHeld'
  BY Kept, LocksKept DEF TypeInv, dirs
<1>2. Types' /\ OneInstalled'
  BY <1>1 DEF TypeInv, Types, OneInstalled, Installed, files, dirs
<1> QED BY <1>1, <1>2 DEF TypeInv

(* A step that renames directories, none over another.                      *)
LEMMA TypesRename ==
    ASSUME TypeInv, NEW p \in Invocations, NEW label \in Labels, NEW data \in Datas,
           Keep(p, label, data), data.writer = Data(p).writer,
           (label \in {"load", "commit"}) = (run[p].pc \in {"load", "commit"}),
           place' \in [Dirs -> {"none", "new", "old", "search"}], OneInstalled',
           UNCHANGED <<files, marker, content, damaged, lock, crashes>>
    PROVE  TypeInv'
<1>1. run' \in [Invocations -> Runs] /\ LocksHeld'
  BY Kept, LocksKept DEF TypeInv
<1>2. Types'
  BY <1>1 DEF TypeInv, Types, files
<1> QED BY <1>1, <1>2 DEF TypeInv

(* An error or a kill.                                                      *)
LEMMA TypesEnd ==
    ASSUME TypeInv, NEW p \in Invocations, NEW label \in {"failed", "crashed"},
           Keep(p, label, Fresh), lock' = Unlocked(p), crashes' \in Nat,
           place' \in [Dirs -> {"none", "new", "old", "search"}], OneInstalled',
           UNCHANGED <<files, marker, content, damaged>>
    PROVE  TypeInv'
<1>1. Fresh \in Datas /\ Fresh.writer = None /\ label \in Labels /\ label \notin {"load", "commit"}
  BY FreshTyped DEF Fresh, Labels
<1>2. /\ run' \in [Invocations -> Runs] /\ LocksHeld'
      /\ lock' \in [Dirs -> Invocations \union {None}]
  BY <1>1, Kept, LocksReleased DEF TypeInv
<1>3. Types'
  BY <1>2 DEF TypeInv, Types, files
<1> QED BY <1>2, <1>3 DEF TypeInv

(* A start, or a change to the files: only who is disturbed changes.        *)
LEMMA Disturbing ==
    ASSUME Types, NEW ps \in SUBSET Invocations, NEW r \in [Invocations -> Runs]
    PROVE  /\ Disturb(ps, r) \in [Invocations -> Runs]
           /\ \A q \in Invocations : /\ Disturb(ps, r)[q].pc = r[q].pc
                                     /\ Disturb(ps, r)[q].data = r[q].data
                                     /\ Disturb(ps, r)[q].disturbed = (q \in ps \/ r[q].disturbed)
  BY DEF Disturb, Runs

LEMMA TypesDisturbed ==
    ASSUME TypeInv, run' \in [Invocations -> Runs],
           \A q \in Invocations :
              /\ run'[q].data = Data(q)
              /\ (run'[q].pc \in {"load", "commit"}) = (run[q].pc \in {"load", "commit"}),
           version' \in [Files -> Nat \ {0}], present' \subseteq Files, unreadable' \subseteq Files,
           UNCHANGED <<dirs, crashes>>
    PROVE  TypeInv'
<1>1. Types' /\ OneInstalled'
  BY DEF TypeInv, Types, OneInstalled, Installed, dirs
<1>2. LocksHeld'
  BY DEF TypeInv, LocksHeld, Data, dirs
<1> QED BY <1>1, <1>2 DEF TypeInv

LEMMA Started ==
    ASSUME Types, NEW p \in Invocations, Start(p)
    PROVE  /\ run' \in [Invocations -> Runs]
           /\ run[p].pc = "idle" /\ run'[p].pc = "open" /\ run'[p].disturbed = (Active # {})
           /\ \A q \in Invocations : run'[q].data = run[q].data
           /\ \A q \in Invocations \ {p} : run'[q].pc = run[q].pc /\ run'[q].disturbed
           /\ UNCHANGED <<files, dirs, crashes>>
<1> DEFINE r  == [run EXCEPT ![p].pc = "open", ![p].disturbed = FALSE]
           ps == (Invocations \ {p}) \union (IF Active = {} THEN {} ELSE {p})
<1>1. run' = Disturb(ps, r) /\ run[p].pc = "idle" /\ UNCHANGED <<files, dirs, crashes>>
  BY DEF Start, At
<1>2. r \in [Invocations -> Runs] /\ ps \in SUBSET Invocations
  BY DEF Types, Runs, Labels
<1>3. /\ r[p].pc = "open" /\ ~r[p].disturbed
      /\ \A q \in Invocations : r[q].data = run[q].data
      /\ \A q \in Invocations \ {p} : r[q].pc = run[q].pc
  BY DEF Types, Runs
<1>4. (p \in ps) = (Active # {}) /\ \A q \in Invocations \ {p} : q \in ps
  OBVIOUS
<1> HIDE DEF r, ps
<1>5. /\ run' \in [Invocations -> Runs]
      /\ \A q \in Invocations : /\ run'[q].pc = r[q].pc /\ run'[q].data = r[q].data
                                /\ run'[q].disturbed = (q \in ps \/ r[q].disturbed)
  BY <1>1, <1>2, Disturbing
<1> QED BY <1>1, <1>3, <1>4, <1>5

LEMMA FilesChanged ==
    ASSUME Types, NEW f \in Files, WriteFile(f) \/ DeleteFile(f) \/ ChangePermissions(f)
    PROVE  /\ run' \in [Invocations -> Runs]
           /\ \A q \in Invocations : /\ run'[q].pc = run[q].pc /\ run'[q].data = run[q].data
                                     /\ run'[q].disturbed
           /\ UNCHANGED <<dirs, crashes>>
<1>1. run' = Disturb(Invocations, run) /\ UNCHANGED <<dirs, crashes>>
  BY DEF WriteFile, DeleteFile, ChangePermissions, FilesChange
<1> QED BY <1>1, Disturbing DEF Types

LEMMA TypesStart == ASSUME TypeInv, NEW p \in Invocations, Start(p) PROVE TypeInv'
<1>1. Types
  BY DEF TypeInv
<1> QED BY <1>1, Started, TypesDisturbed DEF Types, Data, files

LEMMA TypesFilesChange ==
    ASSUME TypeInv, NEW f \in Files, WriteFile(f) \/ DeleteFile(f) \/ ChangePermissions(f)
    PROVE  TypeInv'
<1>1. Types
  BY DEF TypeInv
<1>2. version' \in [Files -> Nat \ {0}] /\ present' \subseteq Files /\ unreadable' \subseteq Files
  BY <1>1 DEF Types, WriteFile, DeleteFile, ChangePermissions
<1> QED BY <1>1, <1>2, FilesChanged, TypesDisturbed DEF Data

LEMMA TypesRebuild ==
    ASSUME TypeInv, NEW p \in Invocations,
           \/ OpenIndex(p) \/ Build(p) \/ CheckOld(p) \/ MoveOld(p) \/ Install(p) \/ Conflict(p)
           \/ PutBack(p) \/ CheckMarker(p) \/ Reopen(p)
    PROVE  TypeInv'
<1>1. /\ p \in Dirs /\ Data(p) \in Datas
      /\ Current \in Dirs \union {None}
      /\ Current # None => Current \in Dirs /\ place[Current] = "search"
      /\ \A d \in Dirs : place[d] = "search" => Current = d
  BY Typed, CurrentIs DEF TypeInv, Dirs
<1>2. CASE OpenIndex(p)
  <2>1. PICK label \in {"walk", "build"} : Keep(p, label, Data(p))
    BY <1>2, Went DEF OpenIndex, TypeInv, Labels
  <2> QED BY <1>1, <1>2, <2>1, TypesGoOn DEF OpenIndex, At, Labels
<1>3. CASE Build(p)
  <2>1. Keep(p, "check_old", Data(p))
    BY <1>3, Went DEF Build, TypeInv, Labels
  <2>2. /\ place' \in [Dirs -> {"none", "new", "old", "search"}]
        /\ \A e \in Dirs : place'[e] = "search" => place[e] = "search"
    BY <1>3 DEF Build, TypeInv, Types
  <2>3. Format[p] \in Markers
    BY DEF Markers
  <2>4. run' \in [Invocations -> Runs] /\ LocksHeld'
    <3>1. lock' = lock /\ run[p].pc = "build" /\ Types /\ LocksHeld
      BY <1>3 DEF Build, At, TypeInv
    <3>2. run' \in [Invocations -> Runs]
      BY <1>1, <2>1, <3>1, Kept DEF Labels
    <3>3. LocksHeld'
      BY <1>1, <2>1, <3>1, LocksKept DEF Labels
    <3> QED BY <3>2, <3>3
  <2>5. marker' \in [Dirs -> Markers]
    BY <1>3, <2>3 DEF Build, TypeInv, Types
  <2>6. Types'
    BY <1>3, <2>2, <2>4, <2>5 DEF Build, TypeInv, Types, files
  <2>7. OneInstalled'
    BY <2>2 DEF TypeInv, OneInstalled, Installed
  <2> QED BY <2>4, <2>6, <2>7 DEF TypeInv
<1>4. CASE CheckOld(p)
  <2>1. PICK label \in {"install", "move_old"} : Keep(p, label, Data(p))
    BY <1>4, Went DEF CheckOld, TypeInv, Labels
  <2> QED BY <1>1, <1>4, <2>1, TypesGoOn DEF CheckOld, At, Labels
<1>5. CASE MoveOld(p)
  <2>1. CASE Current = None
    <3>1. /\ place' = [place EXCEPT ![p] = "none"] /\ Keep(p, "failed", Fresh)
          /\ lock' = Unlocked(p) /\ UNCHANGED <<files, marker, content, damaged, crashes>>
      BY <1>5, <2>1 DEF MoveOld, Fail
    <3>2. /\ place' \in [Dirs -> {"none", "new", "old", "search"}]
          /\ \A e \in Dirs : place'[e] = "search" => place[e] = "search"
      BY <1>1, <3>1 DEF TypeInv, Types
    <3> QED BY <3>1, <3>2, NoneInstalled, TypesEnd DEF TypeInv, Types
  <2>2. CASE Current # None
    <3> DEFINE data == [Data(p) EXCEPT !.old = Current]
    <3>1. /\ place' = [place EXCEPT ![Current] = "old"] /\ Keep(p, "install", data)
          /\ UNCHANGED <<files, marker, content, damaged, lock, crashes>>
      BY <1>5, <2>2 DEF MoveOld
    <3>2. data \in Datas /\ data.writer = Data(p).writer
      BY <1>1 DEF Datas
    <3>3. /\ place' \in [Dirs -> {"none", "new", "old", "search"}]
          /\ \A e \in Dirs : place'[e] = "search" => place[e] = "search"
      BY <1>1, <2>2, <3>1 DEF TypeInv, Types
    <3>4. run[p].pc = "move_old" /\ "install" \in Labels
      BY <1>5 DEF MoveOld, At, Labels
    <3> HIDE DEF data
    <3> QED BY <3>1, <3>2, <3>3, <3>4, NoneInstalled, TypesRename DEF TypeInv
  <2> QED BY <2>1, <2>2
<1>6. CASE Install(p)
  <2>1. PICK label \in {"reopen", "conflict"} : Keep(p, label, Data(p))
    BY <1>6, Went DEF Install, TypeInv, Labels
  <2>2. /\ place' \in [Dirs -> {"none", "new", "old", "search"}]
        /\ \A e \in Dirs \ {p} : place'[e] = "search" => place[e] = "search"
        /\ place'[p] = "search" => Current = None
    BY <1>1, <1>6 DEF Install, TypeInv, Types
  <2>3. UNCHANGED <<files, marker, content, damaged, lock, crashes>> /\ run[p].pc = "install"
    BY <1>6 DEF Install, At
  <2>4. OneInstalled'
    BY <1>1, <2>2, NotInstalled DEF TypeInv
  <2> QED BY <1>1, <2>1, <2>2, <2>3, <2>4, TypesRename DEF Labels
<1>7. CASE Conflict(p)
  <2>1. CASE Current # None
    <3>1. Keep(p, "check_marker", Data(p)) /\ UNCHANGED <<files, dirs, crashes>>
      BY <1>7, <2>1, Went DEF Conflict, TypeInv, Labels, dirs
    <3> QED BY <1>1, <1>7, <3>1, TypesGoOn DEF Conflict, At, Labels
  <2>2. CASE Current = None
    <3>1. /\ place' = [d \in Dirs |-> IF d = Data(p).old THEN "search" ELSE place[d]]
          /\ Keep(p, "failed", Fresh) /\ lock' = Unlocked(p)
          /\ UNCHANGED <<files, marker, content, damaged, crashes>>
      BY <1>7, <2>2 DEF Conflict, Fail
    <3>2. PICK d \in Dirs : d = Data(p).old \/ (Data(p).old \notin Dirs /\ d = p)
      BY <1>1
    <3>3. /\ place' \in [Dirs -> {"none", "new", "old", "search"}]
          /\ \A e \in Dirs \ {d} : place'[e] = "search" => place[e] = "search"
      BY <3>1, <3>2 DEF TypeInv, Types
    <3>4. OneInstalled'
      BY <2>2, <3>3, NotInstalled DEF TypeInv
    <3> QED BY <3>1, <3>3, <3>4, TypesEnd DEF TypeInv, Types
  <2> QED BY <2>1, <2>2
<1>10. CASE PutBack(p)
  <2>1. /\ place' = [d \in Dirs |-> IF d = Data(p).old /\ Current = None THEN "search" ELSE place[d]]
        /\ Keep(p, "failed", Fresh) /\ lock' = Unlocked(p)
        /\ UNCHANGED <<files, marker, content, damaged, crashes>>
    BY <1>10 DEF PutBack, Fail
  <2>2. place' \in [Dirs -> {"none", "new", "old", "search"}]
    BY <2>1 DEF TypeInv, Types
  <2>3. CASE Current # None
    <3>1. \A e \in Dirs : place'[e] = "search" => place[e] = "search"
      BY <2>1, <2>3
    <3> QED BY <2>1, <2>2, <3>1, NoneInstalled, TypesEnd DEF TypeInv, Types
  <2>4. CASE Current = None
    <3>1. PICK d \in Dirs : d = Data(p).old \/ (Data(p).old \notin Dirs /\ d = p)
      BY <1>1
    <3>2. \A e \in Dirs \ {d} : place'[e] = "search" => place[e] = "search"
      BY <2>1, <3>1
    <3>3. OneInstalled'
      BY <2>2, <2>4, <3>2, NotInstalled DEF TypeInv
    <3> QED BY <2>1, <2>2, <3>3, TypesEnd DEF TypeInv, Types
  <2> QED BY <2>3, <2>4
<1>8. CASE CheckMarker(p)
  <2>1. CASE Keep(p, "failed", Fresh) /\ lock' = Unlocked(p)
    BY <1>8, <2>1, NoneInstalled, TypesEnd DEF CheckMarker, TypeInv, Types
  <2>2. CASE Keep(p, "reopen", Data(p)) /\ lock' = lock
    BY <1>1, <1>8, <2>2, TypesGoOn DEF CheckMarker, At, Labels, dirs
  <2> QED BY <1>8, <2>1, <2>2, Went DEF CheckMarker, Fail, TypeInv, Labels
<1>9. CASE Reopen(p)
  <2>1. /\ place' \in [Dirs -> {"none", "new", "old", "search"}]
        /\ \A e \in Dirs : place'[e] = "search" => place[e] = "search"
    BY <1>9 DEF Reopen, TypeInv, Types
  <2>2. UNCHANGED <<files, marker, content, damaged, crashes>> /\ run[p].pc = "reopen"
    BY <1>9 DEF Reopen, At
  <2>3. OneInstalled'
    BY <2>1, NoneInstalled DEF TypeInv
  <2>4. CASE Keep(p, "failed", Fresh) /\ lock' = Unlocked(p)
    BY <2>1, <2>2, <2>3, <2>4, TypesEnd DEF TypeInv, Types
  <2> DEFINE data == [Data(p) EXCEPT !.old = None]
  <2>5. CASE Keep(p, "walk", data) /\ lock' = lock
    <3>1. data \in Datas /\ data.writer = Data(p).writer
      BY <1>1 DEF Datas
    <3> HIDE DEF data
    <3> QED BY <2>1, <2>2, <2>3, <2>5, <3>1, TypesRename DEF Labels
  <2> QED BY <1>9, <2>4, <2>5 DEF Reopen, Fail
<1> QED BY <1>2, <1>3, <1>4, <1>5, <1>6, <1>7, <1>8, <1>9, <1>10

(* From the walk on, a process keeps running and forgets no old directory   *)
(* it would have to remove, or it ends.                                     *)
Moves(p) ==
    \E label \in {"plan", "lock", "load", "commit", "search", "done", "failed"}, data \in Datas :
       Keep(p, label, data) /\ data.old \in {None, Data(p).old}

LEMMA TypesRefresh ==
    ASSUME TypeInv, NEW p \in Invocations,
           \/ Walk(p) \/ Plan(p) \/ AcquireWriter(p) \/ Load(p) \/ Flush(p) \/ Commit(p) \/ Search(p)
    PROVE  TypeInv' /\ Moves(p)
<1>1. /\ p \in Dirs /\ Data(p) \in Datas /\ Types
      /\ Current \in Dirs \union {None}
  BY Typed, CurrentIs DEF TypeInv, Dirs
<1>2. ASSUME Fail(p), UNCHANGED <<files, place, marker, content, damaged, crashes>>
      PROVE  TypeInv' /\ Moves(p)
  <2>1. TypeInv'
    BY <1>2, NoneInstalled, TypesEnd DEF Fail, TypeInv, Types
  <2>2. Fresh \in Datas /\ Fresh.old = None
    BY FreshTyped DEF Fresh
  <2> QED BY <1>2, <2>1, <2>2 DEF Fail, Moves
<1>3. CASE Walk(p)
  <2>1. PICK missed \in SUBSET Files :
           Keep(p, "plan",
                [Data(p) EXCEPT
                  !.walked = [f \in Files |-> IF f \in (Scope[p] \cap present) \ missed
                                              THEN version[f] ELSE 0],
                  !.complete = (missed = {})])
    BY <1>1, <1>3 DEF Walk, Types
  <2> DEFINE walked == [f \in Files |-> IF f \in (Scope[p] \cap present) \ missed
                                        THEN version[f] ELSE 0]
             data == [Data(p) EXCEPT !.walked = walked, !.complete = (missed = {})]
  <2>2. walked \in [Files -> Nat]
    BY <1>1 DEF Types
  <2>3. Keep(p, "plan", data) /\ UNCHANGED <<files, dirs, crashes>> /\ run[p].pc = "walk"
    BY <1>3, <2>1 DEF Walk, At
  <2> HIDE DEF walked
  <2>4. data \in Datas /\ data.writer = Data(p).writer /\ data.old = Data(p).old
    BY <1>1, <2>2 DEF Datas
  <2> HIDE DEF data
  <2>moves. Moves(p)
    BY <2>3, <2>4 DEF Moves
  <2> QED BY <2>3, <2>4, <2>moves, TypesGoOn DEF Labels
<1>4. CASE Plan(p)
  <2>1. CASE ~Readable(Current)
    BY <1>2, <1>4, <2>1 DEF Plan
  <2>2. CASE Readable(Current)
    <3> DEFINE todo   == Changed(Data(p).walked, content[Current])
               remove == IF Data(p).complete THEN Gone(p, Data(p).walked, content[Current]) ELSE {}
               data   == [Data(p) EXCEPT !.todo = todo, !.remove = remove]
               label  == IF todo \union remove = {} THEN "search" ELSE "lock"
    <3>1. Keep(p, label, data) /\ UNCHANGED <<files, dirs, crashes>> /\ run[p].pc = "plan"
      BY <1>4, <2>2 DEF Plan, At, dirs
    <3>2. todo \subseteq Files /\ remove \subseteq Files /\ label \in {"search", "lock"}
      BY ScopesAndFormats DEF Changed, Gone
    <3> HIDE DEF todo, remove, label
    <3>3. data \in Datas /\ data.writer = Data(p).writer /\ data.old = Data(p).old
      BY <1>1, <3>2 DEF Datas
    <3> HIDE DEF data
    <3>moves. Moves(p)
      BY <3>1, <3>2, <3>3 DEF Moves
    <3> QED BY <3>1, <3>2, <3>3, <3>moves, TypesGoOn DEF Labels
  <2> QED BY <2>1, <2>2
<1>5. CASE AcquireWriter(p)
  <2>1. CASE Current = None
    BY <1>2, <1>5, <2>1 DEF AcquireWriter
  <2>2. CASE Current # None /\ lock[Current] # None
    <3> DEFINE data == [Data(p) EXCEPT !.skipped = TRUE, !.todo = {}, !.remove = {}]
    <3>1. Keep(p, "search", data) /\ UNCHANGED <<files, dirs, crashes>> /\ run[p].pc = "lock"
      BY <1>5, <2>2 DEF AcquireWriter, At, dirs
    <3>2. data \in Datas /\ data.writer = Data(p).writer /\ data.old = Data(p).old
      BY <1>1 DEF Datas
    <3> HIDE DEF data
    <3>moves. Moves(p)
      BY <3>1, <3>2 DEF Moves
    <3> QED BY <3>1, <3>2, <3>moves, TypesGoOn DEF Labels
  <2>3. CASE Current # None /\ lock[Current] = None
    <3> DEFINE staged == [f \in Files |-> IF f \in Data(p).todo \union Data(p).remove
                                          THEN None ELSE content[Current][f]]
               data == [Data(p) EXCEPT !.writer = Current, !.based = (content[Current] # Empty),
                                       !.staged = staged]
    <3>1. PICK d \in Dirs : d = Current
      BY <1>1, <2>3
    <3>2. /\ Keep(p, "load", data) /\ run[p].pc = "lock" /\ lock' = [lock EXCEPT ![d] = p]
          /\ UNCHANGED <<files, place, marker, content, damaged, crashes>>
      BY <1>5, <2>3, <3>1 DEF AcquireWriter, At
    <3>3. staged \in Records
      BY <1>1, <3>1 DEF Types, Records
    <3> HIDE DEF staged
    <3>4. data \in Datas /\ data.writer = d /\ data.old = Data(p).old
      BY <1>1, <3>1, <3>3 DEF Datas
    <3> HIDE DEF data
    <3>5. /\ run' \in [Invocations -> Runs] /\ run'[p].pc = "load" /\ run'[p].data.writer = d /\ data.old = Data(p).old
          /\ \A q \in Invocations \ {p} : run'[q] = run[q]
      BY <1>1, <3>2, <3>4, Kept DEF Labels
    <3>6. Types' /\ OneInstalled'
      BY <1>1, <3>2, <3>5, NoneInstalled DEF TypeInv, Types, files
    <3>7. LocksHeld'
      <4>1. /\ d # None /\ lock[d] = None /\ Data(p).writer = None /\ p # None
            /\ \A e \in Dirs : lock'[e] = IF e = d THEN p ELSE lock[e]
        BY <1>1, <2>3, <3>1, <3>2, Sentinels DEF Types, TypeInv, LocksHeld
      <4>2. ASSUME NEW q \in Invocations
            PROVE  /\ run'[q].data.writer # None <=> run'[q].pc \in {"load", "commit"}
                   /\ \A e \in Dirs : lock'[e] = q <=> run'[q].data.writer = e
        <5>1. CASE q = p
          BY <3>5, <4>1, <5>1, NotADir DEF TypeInv, LocksHeld
        <5>2. CASE q # p
          BY <3>5, <4>1, <5>2, Sentinels DEF TypeInv, LocksHeld, Data
        <5> QED BY <5>1, <5>2
      <4> QED BY <4>2 DEF LocksHeld, Data
    <3>8. Moves(p)
      BY <3>2, <3>4 DEF Moves
    <3> QED BY <3>6, <3>7, <3>8 DEF TypeInv
  <2> QED BY <2>1, <2>2, <2>3
<1>6. CASE Load(p)
  <2>1. PICK f \in Data(p).todo :
           Keep(p, "load", [Data(p) EXCEPT
                              !.todo = @ \ {f},
                              !.staged[f] = Loaded(p, f),
                              !.refused = IF Loaded(p, f) = None THEN @ \union {f} ELSE @])
    BY <1>6 DEF Load
  <2> DEFINE staged  == [Data(p).staged EXCEPT ![f] = Loaded(p, f)]
             refused == IF Loaded(p, f) = None THEN Data(p).refused \union {f} ELSE Data(p).refused
             data == [Data(p) EXCEPT !.todo = Data(p).todo \ {f}, !.staged = staged,
                                     !.refused = refused]
  <2>2. Keep(p, "load", data) /\ UNCHANGED <<files, dirs, crashes>> /\ run[p].pc = "load"
    BY <1>6, <2>1 DEF Load, At
  <2>3. f \in Files /\ Loaded(p, f) \in Record \union {None}
    BY <1>1 DEF Datas, Loaded, Record, Types
  <2>4. staged \in Records /\ refused \subseteq Files
    BY <1>1, <2>3 DEF Datas, Records
  <2> HIDE DEF staged, refused
  <2>5. data \in Datas /\ data.writer = Data(p).writer /\ data.old = Data(p).old
    BY <1>1, <2>4 DEF Datas
  <2> HIDE DEF data
  <2>moves. Moves(p)
    BY <2>2, <2>5 DEF Moves
  <2> QED BY <2>2, <2>5, <2>moves, TypesGoOn DEF Labels
<1>7. CASE Flush(p)
  <2>1. CASE Current = None
    BY <1>2, <1>7, <2>1 DEF Flush
  <2>2. CASE Current # None
    <3> DEFINE data == [Data(p) EXCEPT !.flushed = Current]
    <3>1. Keep(p, "commit", data) /\ UNCHANGED <<files, dirs, crashes>> /\ run[p].pc = "load"
      BY <1>7, <2>2 DEF Flush, At, dirs
    <3>2. data \in Datas /\ data.writer = Data(p).writer /\ data.old = Data(p).old
      BY <1>1 DEF Datas
    <3> HIDE DEF data
    <3>moves. Moves(p)
      BY <3>1, <3>2 DEF Moves
    <3> QED BY <3>1, <3>2, <3>moves, TypesGoOn DEF Labels
  <2> QED BY <2>1, <2>2
<1>8. CASE Commit(p)
  <2> DEFINE n == Data(p)
             data == [n EXCEPT !.writer = None, !.staged = Empty, !.based = FALSE,
                               !.flushed = None, !.remove = {}]
  <2>1. CASE Fail(p) /\ UNCHANGED <<content, damaged>>
    BY <1>2, <1>8, <2>1 DEF Commit
  <2>2. CASE /\ Current \in Dirs
             /\ content' = [content EXCEPT ![Current] = n.staged]
             /\ damaged' = [damaged EXCEPT ![Current] = (n.flushed # Current /\ n.staged # Empty)]
             /\ lock' = Unlocked(p)
             /\ Keep(p, "search", data)
    <3>1. data \in Datas /\ data.writer = None /\ data.old = n.old
      BY <1>1 DEF Datas, Records, Empty
    <3> HIDE DEF data
    <3>2. /\ run' \in [Invocations -> Runs] /\ LocksHeld'
          /\ lock' \in [Dirs -> Invocations \union {None}]
      BY <1>1, <2>2, <3>1, Kept, LocksReleased DEF TypeInv, Labels
    <3>3. content' \in [Dirs -> Records] /\ damaged' \in [Dirs -> BOOLEAN]
      BY <1>1, <2>2 DEF Types, Datas
    <3>4. UNCHANGED <<files, place, marker, crashes>>
      BY <1>8 DEF Commit
    <3>5. Moves(p)
      BY <2>2, <3>1 DEF Moves
    <3> QED BY <1>1, <3>2, <3>3, <3>4, <3>5, NoneInstalled DEF TypeInv, Types, files
  <2> QED BY <1>1, <1>8, <2>1, <2>2 DEF Commit
<1>9. CASE Search(p)
  <2>1. CASE ~Readable(Current)
    BY <1>2, <1>9, <2>1 DEF Search
  <2>2. CASE Readable(Current)
    <3> DEFINE hits == [f \in Files |-> IF f \in Scope[p] /\ content[Current][f] # None
                                        THEN content[Current][f].text ELSE None]
               data == [Data(p) EXCEPT !.hits = hits]
    <3>1. Keep(p, "done", data) /\ UNCHANGED <<files, dirs, crashes>> /\ run[p].pc = "search"
      BY <1>9, <2>2 DEF Search, At, dirs
    <3>2. hits \in [Files -> Nat \union {None}]
      BY <1>1, <2>2 DEF Types, Records, Record, Readable
    <3> HIDE DEF hits
    <3>3. data \in Datas /\ data.writer = Data(p).writer /\ data.old = Data(p).old
      BY <1>1, <3>2 DEF Datas
    <3> HIDE DEF data
    <3>moves. Moves(p)
      BY <3>1, <3>3 DEF Moves
    <3> QED BY <3>1, <3>3, <3>moves, TypesGoOn DEF Labels
  <2> QED BY <2>1, <2>2
<1> QED BY <1>3, <1>4, <1>5, <1>6, <1>7, <1>8, <1>9

(* A rename that fails for no reason of the index's.                        *)
LEMMA Failing ==
    ASSUME Types, NEW p \in Invocations, InstallFails(p)
    PROVE  /\ run' \in [Invocations -> Runs] /\ run[p].pc = "install"
           /\ run'[p].pc = "undo" /\ run'[p].data = Data(p) /\ run'[p].disturbed
           /\ \A q \in Invocations \ {p} : run'[q] = run[q]
           /\ place' = [place EXCEPT ![p] = "none"]
           /\ UNCHANGED <<files, marker, content, damaged, lock, crashes>>
  BY DEF InstallFails, At, Types, Runs, Labels, Data

LEMMA TypesInstallFails == ASSUME TypeInv, NEW p \in Invocations, InstallFails(p) PROVE TypeInv'
<1>1. /\ Types /\ OneInstalled /\ LocksHeld
      /\ run' \in [Invocations -> Runs] /\ run[p].pc = "install"
      /\ run'[p].pc = "undo" /\ run'[p].data = Data(p)
      /\ \A q \in Invocations \ {p} : run'[q] = run[q]
      /\ place' = [place EXCEPT ![p] = "none"]
      /\ UNCHANGED <<files, marker, content, damaged, lock, crashes>>
  BY Failing DEF TypeInv
<1>2. place' \in [Dirs -> {"none", "new", "old", "search"}] /\ OneInstalled'
  BY <1>1 DEF Types, OneInstalled, Installed
<1>3. Types'
  BY <1>1, <1>2 DEF Types, files
<1>4. LocksHeld'
  BY <1>1 DEF LocksHeld, Data
<1> QED BY <1>2, <1>3, <1>4 DEF TypeInv

LEMMA TypesCrash == ASSUME TypeInv, NEW p \in Invocations, Crash(p) PROVE TypeInv'
  BY NoneInstalled, TypesEnd DEF Crash, TypeInv, Types

LEMMA TypesStep == TypeInv /\ [Next]_vars => TypeInv'
<1> SUFFICES ASSUME TypeInv, [Next]_vars PROVE TypeInv'
  OBVIOUS
<1>1. CASE UNCHANGED vars
  BY <1>1 DEF TypeInv, Types, OneInstalled, Installed, LocksHeld, Data, vars, files, dirs
<1>2. ASSUME NEW p \in Invocations, Start(p) \/ Step(p) \/ InstallFails(p) \/ Crash(p) PROVE TypeInv'
  BY <1>2, TypesStart, TypesRebuild, TypesRefresh, TypesInstallFails, TypesCrash DEF Step
<1> QED BY <1>1, <1>2, TypesFilesChange DEF Next

(* The type invariant of the runs.                                          *)
LEMMA TypesMeanTypeOK == TypeInv => TypeOK
<1> SUFFICES ASSUME TypeInv PROVE TypeOK
  OBVIOUS
<1>1. Cardinality(Installed) <= 1
  <2>1. CASE Installed = {}
    BY <2>1, FS_EmptySet
  <2>2. CASE Installed # {}
    <3>1. PICK d : d \in Installed
      BY <2>2
    <3>2. Installed = {d}
      BY <3>1 DEF TypeInv, OneInstalled
    <3> QED BY <3>2, FS_Singleton
  <2> QED BY <2>1, <2>2
<1>2. version \in [Files -> Nat]
  BY DEF TypeInv, Types
<1>3. ASSUME NEW p \in Invocations
      PROVE  /\ run[p].disturbed \in BOOLEAN
             /\ Data(p).writer # None <=> run[p].pc \in {"load", "commit"}
             /\ \A d \in Dirs : lock[d] = p <=> Data(p).writer = d /\ d # None
  BY Typed, NotADir DEF TypeInv, LocksHeld
<1> QED BY <1>1, <1>2, <1>3 DEF TypeOK, TypeInv, Types, Markers

(* Every variable keeps its type, at most one directory is `.outlint/search`*)
(* and the writer lock of a directory is held by the process that writes to *)
(* it, from AcquireWriter to the end of Commit, and by no other.            *)
THEOREM TypeCorrect == Spec => []TypeOK
<1>1. Spec => []TypeInv
  BY TypesBegin, TypesStep, PTL DEF Spec
<1> QED BY <1>1, TypesMeanTypeOK, PTL

-----------------------------------------------------------------------------
(* Rebuilds.  The directory of a process is its own until it installs it,   *)
(* the old one it keeps is its own until it is removed or put back, and     *)
(* only MoveOld leaves no index behind: its process then is about to        *)
(* install one, or to put the old one back.                                *)

RebuildInv == TypeInv /\ Places /\ SomeoneInstalls

LEMMA RebuildBegin == Init => RebuildInv
<1> SUFFICES ASSUME Init PROVE RebuildInv
  OBVIOUS
<1>1. \A p \in Invocations : p # Initial /\ p \in Dirs
  BY Sentinels DEF Dirs
<1>2. Places
  BY <1>1 DEF Init, Places, Data, Fresh, Beginning, Replacing
<1>3. SomeoneInstalls
  <2> SUFFICES ASSUME Current = None PROVE NothingYet
    BY DEF SomeoneInstalls
  <2>1. \A d \in Dirs : place[d] # "search"
    BY TypesBegin, CurrentIs DEF TypeInv
  <2> QED BY <2>1 DEF Init, NothingYet, Starting, Beginning, Dirs
<1> QED BY <1>2, <1>3, TypesBegin DEF RebuildInv

(* Which directories are installed decides what Current is.                 *)
LEMMA CurrentStays ==
    ASSUME Types, OneInstalled, Types', OneInstalled',
           \A d \in Dirs : place[d] = "search" => place'[d] = "search"
    PROVE  Current # None => Current' = Current
<1>1. ASSUME Current # None PROVE Current \in Dirs /\ place'[Current] = "search"
  BY <1>1, CurrentIs
<1>2. ASSUME NEW d \in Dirs, place'[d] = "search" PROVE Current' = d
  BY <1>2, NotADir DEF Current, Installed, OneInstalled
<1>3. ASSUME Current # None PROVE Current' = Current
  <2>1. PICK d \in Dirs : d = Current /\ place'[d] = "search"
    BY <1>1, <1>3
  <2> QED BY <1>2, <2>1
<1> QED BY <1>3

LEMMA NothingInstalled ==
    ASSUME Types, OneInstalled, Types', OneInstalled',
           \A d \in Dirs : place'[d] # "search"
    PROVE  Current' = None
  BY DEF Current, Installed

LEMMA SomethingInstalled ==
    ASSUME Types, OneInstalled, Types', OneInstalled',
           NEW d \in Dirs, place'[d] = "search"
    PROVE  Current' = d
  BY NotADir DEF Current, Installed, OneInstalled

(* A step of a process that keeps no index aside.                           *)
LEMMA InstallsGoOn ==
    ASSUME Types, SomeoneInstalls, NEW p \in Invocations, NEW label \in Labels, NEW data \in Datas,
           Keep(p, label, data), crashes' = crashes,
           Current # None => Current' # None,
           run[p].pc \notin {"install", "undo"} \/ Data(p).old = None,
           label \in Starting \/ run[p].pc \notin Starting,
           \A d \in Dirs : place'[d] \in {"search", "old"} => place[d] \in {"search", "old"}
    PROVE  SomeoneInstalls'
<1>1. /\ run'[p].pc = label
      /\ \A q \in Invocations \ {p} : run'[q] = run[q]
  BY Kept
<1> SUFFICES ASSUME crashes = 0, Current = None PROVE SomeoneReplaces' \/ NothingYet'
  BY DEF SomeoneInstalls
<1>2. CASE SomeoneReplaces
  BY <1>1, <1>2 DEF SomeoneReplaces, Data
<1>3. CASE NothingYet
  BY <1>1, <1>3 DEF NothingYet
<1> QED BY <1>2, <1>3 DEF SomeoneInstalls

(* A step that renames no directory.                                        *)
LEMMA PlacesGoOn ==
    ASSUME Types, Places, NEW p \in Invocations, NEW label \in Labels, NEW data \in Datas,
           Keep(p, label, data), UNCHANGED <<place, marker>>,
           data.old \in {None, Data(p).old},
           data.old # None => label \in {"install", "conflict", "undo", "check_marker", "reopen"},
           label \in Beginning => place[p] = "none",
           label \in Replacing => place[p] = "new"
    PROVE  Places'
<1>1. /\ run'[p].pc = label /\ run'[p].data = data
      /\ \A q \in Invocations \ {p} : run'[q] = run[q]
  BY Kept
<1>2. ASSUME NEW q \in Invocations
      PROVE  /\ run'[q].pc \in Beginning => place[q] = "none"
             /\ run'[q].pc \in Replacing => place[q] = "new"
             /\ run'[q].data.old \in {None, Data(q).old}
             /\ run'[q].data.old # None =>
                    run'[q].pc \in {"install", "conflict", "undo", "check_marker", "reopen"}
  BY <1>1 DEF Places, Data
<1> QED BY <1>2 DEF Places, Data

(* The steps that rename no directory keep both parts.                      *)
LEMMA RebuildGoesOn ==
    ASSUME RebuildInv, TypeInv', NEW p \in Invocations,
           NEW label \in Labels, NEW data \in Datas, Keep(p, label, data),
           UNCHANGED <<place, marker, crashes>>,
           run[p].pc \notin {"install", "undo"} \/ Data(p).old = None,
           data.old \in {None, Data(p).old},
           data.old # None => label \in {"install", "conflict", "undo", "check_marker", "reopen"},
           label \in Beginning => place[p] = "none",
           label \in Replacing => place[p] = "new",
           label \in Starting \/ run[p].pc \notin Starting
    PROVE  Places' /\ SomeoneInstalls'
<1>1. Types /\ OneInstalled /\ Types' /\ OneInstalled' /\ Places /\ SomeoneInstalls
  BY DEF RebuildInv, TypeInv
<1>2. Places'
  BY <1>1, PlacesGoOn
<1>3. Current # None => Current' # None
  BY <1>1, CurrentStays
<1> QED BY <1>1, <1>2, <1>3, InstallsGoOn

(* What a running process knows of its directories.                         *)
LEMMA Placed ==
    ASSUME RebuildInv, NEW p \in Invocations
    PROVE  /\ p \in Dirs /\ Data(p) \in Datas /\ run[p].pc \in Labels
           /\ run[p].pc \in Beginning => place[p] = "none"
           /\ run[p].pc \in Replacing => place[p] = "new"
           /\ Data(p).old # None =>
                 /\ run[p].pc \in {"install", "conflict", "undo", "check_marker", "reopen"}
                 /\ Data(p).old \in Dirs /\ place[Data(p).old] = "old"
  BY Typed DEF RebuildInv, TypeInv, Places, Dirs, Datas

LEMMA OldOnly ==
    ASSUME RebuildInv, NEW d \in Dirs, place[d] # "old", NEW q \in Invocations
    PROVE  d # Data(q).old
  BY Placed, NotADir

LEMMA RebuildGoesOnFresh ==
    ASSUME RebuildInv, TypeInv', NEW p \in Invocations,
           NEW label \in {"failed", "crashed"}, Keep(p, label, Fresh),
           UNCHANGED <<place, marker, crashes>>, run[p].pc \notin Starting
    PROVE  Places' /\ SomeoneInstalls'
  BY RebuildGoesOn, FreshTyped DEF Fresh, Labels, Beginning, Replacing, Starting

LEMMA RebuildOpenCheckOld ==
    ASSUME RebuildInv, TypeInv', NEW p \in Invocations, OpenIndex(p) \/ CheckOld(p)
    PROVE  Places' /\ SomeoneInstalls'
<1>1. /\ Data(p) \in Datas /\ Data(p).old = None
      /\ run[p].pc = "open" => place[p] = "none"
      /\ run[p].pc = "check_old" => place[p] = "new"
      /\ run[p].pc \in {"open", "check_old"} /\ UNCHANGED <<place, marker, crashes>>
  BY Placed DEF OpenIndex, CheckOld, At, Beginning, Replacing, dirs
<1>2. \/ Keep(p, "walk", Data(p)) /\ run[p].pc = "open" /\ Current # None
      \/ Keep(p, "build", Data(p)) /\ run[p].pc = "open"
      \/ Keep(p, "install", Data(p)) /\ run[p].pc = "check_old" /\ Current = None
      \/ Keep(p, "move_old", Data(p)) /\ run[p].pc = "check_old" /\ Current # None
  BY Went DEF OpenIndex, CheckOld, At, RebuildInv, TypeInv, Labels
<1>3. Types /\ OneInstalled /\ Types' /\ OneInstalled' /\ Places /\ SomeoneInstalls
  BY DEF RebuildInv, TypeInv
<1>4. PICK label \in {"walk", "build", "install", "move_old"} :
         /\ Keep(p, label, Data(p))
         /\ label \in Beginning => place[p] = "none"
         /\ label \in Replacing => place[p] = "new"
         /\ label \in Starting \/ Current # None
  BY <1>1, <1>2 DEF Beginning, Replacing, Starting
<1>5. Places'
  BY <1>1, <1>3, <1>4, PlacesGoOn DEF Labels
<1>6. Current # None => Current' # None
  BY <1>1, <1>3, CurrentStays
<1>7. SomeoneInstalls'
  <2>1. CASE Current # None
    BY <1>6, <2>1 DEF SomeoneInstalls
  <2>2. CASE Current = None
    BY <1>1, <1>3, <1>4, <1>6, <2>2, InstallsGoOn DEF Labels
  <2> QED BY <2>1, <2>2
<1> QED BY <1>5, <1>7

(* A replacement is built beside what is there.                             *)
LEMMA RebuildBuild ==
    ASSUME RebuildInv, TypeInv', NEW p \in Invocations, Build(p)
    PROVE  Places' /\ SomeoneInstalls'
<1>1. PICK swept \in SUBSET Strays :
         place' = [d \in Dirs |-> IF d = p THEN "new" ELSE IF d \in swept THEN "none" ELSE place[d]]
  BY DEF Build
<1>2. /\ Keep(p, "check_old", Data(p)) /\ run[p].pc = "build"
      /\ marker' = [marker EXCEPT ![p] = Format[p]] /\ crashes' = crashes
  BY Went DEF Build, At, RebuildInv, TypeInv, Labels
<1>3. /\ Types /\ OneInstalled /\ Types' /\ OneInstalled' /\ Places /\ SomeoneInstalls
      /\ p \in Dirs /\ Data(p) \in Datas /\ Data(p).old = None /\ place[p] = "none"
  BY <1>2, Placed DEF RebuildInv, TypeInv, Beginning
<1>4. ASSUME NEW d \in Dirs, NEW q \in Invocations, d = q \/ d = Data(q).old,
             run[q].pc \in Replacing \union {"conflict", "undo", "check_marker", "reopen"}
      PROVE  d \notin swept
  <2>1. q \in Active
    BY <1>4 DEF Active, Ended, Replacing
  <2> QED BY <1>1, <1>4, <2>1 DEF Strays
<1>5. /\ run'[p].pc = "check_old" /\ run'[p].data = Data(p)
      /\ \A q \in Invocations \ {p} : run'[q] = run[q]
  BY <1>2, <1>3, Kept DEF Labels
<1>6. ASSUME NEW q \in Invocations
      PROVE  /\ run'[q].pc \in Beginning => place'[q] = "none"
             /\ run'[q].pc \in Replacing => place'[q] = "new"
             /\ run'[q].data.old = Data(q).old
             /\ Data(q).old # None =>
                   /\ run'[q].pc \in {"install", "conflict", "undo", "check_marker", "reopen"}
                   /\ place'[Data(q).old] = "old"
  <2>1. CASE q = p
    BY <1>1, <1>3, <1>5, <2>1 DEF Beginning, Replacing
  <2>2. CASE q # p
    <3>1. run'[q] = run[q] /\ q \in Dirs
      BY <1>5, <2>2 DEF Dirs
    <3>2. run[q].pc \in Beginning => place'[q] = "none"
      BY <1>1, <2>2, <3>1 DEF Places, RebuildInv
    <3>3. run[q].pc \in Replacing => place'[q] = "new"
      BY <1>1, <1>4, <2>2, <3>1 DEF Places, RebuildInv
    <3>4. ASSUME Data(q).old # None
          PROVE  /\ run[q].pc \in {"install", "conflict", "undo", "check_marker", "reopen"}
                 /\ place'[Data(q).old] = "old"
      <4>1. /\ Data(q).old \in Dirs /\ place[Data(q).old] = "old"
            /\ run[q].pc \in {"install", "conflict", "undo", "check_marker", "reopen"}
        BY <3>4, Placed
      <4>2. Data(q).old # p /\ Data(q).old \notin swept
        BY <1>3, <1>4, <4>1 DEF Replacing
      <4> QED BY <1>1, <4>1, <4>2
    <3> QED BY <3>1, <3>2, <3>3, <3>4 DEF Data
  <2> QED BY <2>1, <2>2
<1>7. \A d \in Dirs : place'[d] # "none" => marker'[d] # None
  <2>1. Format[p] # None
    BY ScopesAndFormats
  <2> QED BY <1>1, <1>2, <1>3, <2>1 DEF Places, Types
<1>8. Places'
  BY <1>3, <1>6, <1>7 DEF Places, Data
<1>9. \A d \in Dirs : place[d] = "search" => place'[d] = "search"
  BY <1>1, <1>3 DEF Strays
<1>10. Current # None => Current' # None
  BY <1>3, <1>9, CurrentStays
<1>11. SomeoneInstalls'
  <2>1. \A d \in Dirs : place'[d] \in {"search", "old"} => place[d] \in {"search", "old"}
    BY <1>1
  <2> QED BY <1>2, <1>3, <1>10, <2>1, InstallsGoOn DEF Labels, Starting
<1> QED BY <1>8, <1>11

(* A step that renames directories of its process, or the installed one.    *)
LEMMA PlacesRename ==
    ASSUME RebuildInv, NEW p \in Invocations, NEW label \in Labels, NEW data \in Datas,
           run'[p].pc = label, run'[p].data = data,
           \A q \in Invocations \ {p} : run'[q] = run[q],
           marker' = marker, NEW d \in Dirs,
           \A e \in Dirs \ {d} : place'[e] = place[e],
           place[d] # "none",
           \A q \in Invocations \ {p} : /\ d = q => place[d] = "search" \/ place[d] = "old"
                                        /\ d # Data(q).old,
           d = p => label \notin Replacing,
           label \in Beginning => place[p] = "none",
           label \in Replacing => place[p] = "new",
           data.old # None =>
              /\ label \in {"install", "conflict", "undo", "check_marker", "reopen"}
              /\ data.old \in Dirs /\ place'[data.old] = "old"
              /\ \A q \in Invocations \ {p} : data.old # Data(q).old
    PROVE  Places'
<1>2. ASSUME NEW q \in Invocations
      PROVE  /\ run'[q].pc \in Beginning => place'[q] = "none"
             /\ run'[q].pc \in Replacing => place'[q] = "new"
             /\ run'[q].data.old # None =>
                   /\ run'[q].pc \in {"install", "conflict", "undo", "check_marker", "reopen"}
                   /\ place'[run'[q].data.old] = "old"
  <2>1. CASE q = p
    BY <2>1, Placed
  <2>2. CASE q # p
    <3>1. /\ run'[q] = run[q] /\ q \in Dirs
          /\ run[q].pc \in Beginning => place[q] = "none"
          /\ run[q].pc \in Replacing => place[q] = "new"
          /\ Data(q).old # None =>
                /\ run[q].pc \in {"install", "conflict", "undo", "check_marker", "reopen"}
                /\ Data(q).old \in Dirs /\ place[Data(q).old] = "old"
      BY <2>2, Placed
    <3>2. Data(q) = run[q].data
      BY DEF Data
    <3> QED BY <2>2, <3>1, <3>2
  <2> QED BY <2>1, <2>2
<1>3. ASSUME NEW q \in Invocations, NEW i \in Invocations, q # i, run'[q].data.old # None
      PROVE  run'[q].data.old # run'[i].data.old
  <2>1. CASE q = p
    BY <1>3, <2>1 DEF Data
  <2>2. CASE i = p
    <3>1. run'[q].data.old = Data(q).old /\ run'[i].data = data
      BY <1>3, <2>2 DEF Data
    <3> QED BY <1>3, <2>2, <3>1
  <2>3. CASE q # p /\ i # p
    BY <1>3, <2>3 DEF RebuildInv, Places, Data
  <2> QED BY <2>1, <2>2, <2>3
<1>4. \A e \in Dirs : place'[e] # "none" => marker'[e] # None
  BY DEF RebuildInv, Places
<1> QED BY <1>2, <1>3, <1>4 DEF Places, Data

LEMMA RebuildMoveOld ==
    ASSUME RebuildInv, TypeInv', NEW p \in Invocations, MoveOld(p)
    PROVE  Places' /\ SomeoneInstalls'
<1>1. /\ Types /\ OneInstalled /\ Types' /\ OneInstalled' /\ Places /\ SomeoneInstalls
      /\ run[p].pc = "move_old" /\ p \in Dirs /\ Data(p) \in Datas
      /\ Data(p).old = None /\ place[p] = "new" /\ UNCHANGED <<marker, crashes>>
  BY Placed DEF RebuildInv, TypeInv, MoveOld, At, Replacing
<1>2. CASE Current = None
  <2>1. place' = [place EXCEPT ![p] = "none"] /\ Keep(p, "failed", Fresh)
    BY <1>2 DEF MoveOld, Fail
  <2>2. \A e \in Dirs \ {p} : place'[e] = place[e]
    BY <1>1, <2>1 DEF Types
  <2>3. \A q \in Invocations \ {p} : p # Data(q).old
    BY <1>1, OldOnly
  <2>4. Fresh \in Datas /\ Fresh.old = None /\ "failed" \in Labels
        /\ "failed" \notin Beginning \union Replacing
    BY FreshTyped DEF Fresh, Labels, Beginning, Replacing
  <2>kept. /\ run'[p].pc = "failed" /\ run'[p].data = Fresh
        /\ \A q \in Invocations \ {p} : run'[q] = run[q]
    BY <1>1, <2>1, <2>4, Kept
  <2>5. Places'
    BY <1>1, <2>1, <2>2, <2>3, <2>4, <2>kept, PlacesRename
  <2>6. SomeoneInstalls'
    <3>1. \A d \in Dirs : place'[d] \in {"search", "old"} => place[d] \in {"search", "old"}
      BY <1>1, <2>1 DEF Types
    <3> QED BY <1>1, <1>2, <2>1, <2>4, <3>1, InstallsGoOn DEF Starting
  <2> QED BY <2>5, <2>6
<1>3. CASE Current # None
  <2> DEFINE data == [Data(p) EXCEPT !.old = Current]
  <2>1. PICK d \in Dirs : d = Current /\ place[d] = "search"
    BY <1>1, <1>3, CurrentIs
  <2>2. place' = [place EXCEPT ![d] = "old"] /\ Keep(p, "install", data)
    BY <1>3, <2>1 DEF MoveOld
  <2>3. data \in Datas /\ data.old = d
    BY <1>1, <2>1 DEF Datas
  <2> HIDE DEF data
  <2>4. place'[d] = "old" /\ \A e \in Dirs \ {d} : place'[e] = place[e]
    BY <1>1, <2>2 DEF Types
  <2>5. d # p /\ \A q \in Invocations : d # Data(q).old
    BY <1>1, <2>1, OldOnly
  <2>6. "install" \in Labels /\ "install" \notin Beginning
    BY DEF Labels, Beginning
  <2>kept. /\ run'[p].pc = "install" /\ run'[p].data = data
        /\ \A q \in Invocations \ {p} : run'[q] = run[q]
    BY <1>1, <2>2, <2>3, <2>6, Kept
  <2>7. Places'
    BY <1>1, <2>1, <2>2, <2>3, <2>4, <2>5, <2>6, <2>kept, PlacesRename
  <2>8. SomeoneReplaces'
    BY <2>1, <2>3, <2>kept, NotADir DEF SomeoneReplaces, Data
  <2> QED BY <2>7, <2>8 DEF SomeoneInstalls
<1> QED BY <1>2, <1>3

LEMMA RebuildInstall ==
    ASSUME RebuildInv, TypeInv', NEW p \in Invocations, Install(p)
    PROVE  Places' /\ SomeoneInstalls'
<1>1. /\ Types /\ OneInstalled /\ Types' /\ OneInstalled'
      /\ run[p].pc = "install" /\ p \in Dirs /\ Data(p) \in Datas
      /\ place[p] = "new" /\ UNCHANGED <<marker, crashes>>
      /\ Data(p).old # None => Data(p).old \in Dirs /\ place[Data(p).old] = "old"
  BY Placed DEF RebuildInv, TypeInv, Install, At, Replacing
<1>2. PICK label \in {"reopen", "conflict"} : Keep(p, label, Data(p))
  BY <1>1, Went DEF Install, Labels
<1>3. \A e \in Dirs \ {p} : place'[e] = place[e]
  BY <1>1 DEF Install, Types
<1>4. \A q \in Invocations \ {p} : p # Data(q).old
  BY <1>1, OldOnly
<1>5. label \in Labels /\ label \notin Beginning \union Replacing
  BY DEF Labels, Beginning, Replacing
<1>6. Data(p).old # None =>
         /\ place'[Data(p).old] = "old"
         /\ \A q \in Invocations \ {p} : Data(p).old # Data(q).old
  BY <1>1, <1>3 DEF RebuildInv, Places
<1>kept. /\ run'[p].pc = label /\ run'[p].data = Data(p)
      /\ \A q \in Invocations \ {p} : run'[q] = run[q]
  <2>1. Types /\ Data(p) \in Datas /\ label \in Labels
    BY <1>1, <1>5
  <2> QED BY <1>2, <2>1, Kept
<1>7. Places'
  BY <1>1, <1>2, <1>3, <1>4, <1>5, <1>6, <1>kept, PlacesRename
<1>8. Current' # None
  <2>1. CASE Current = None
    <3>1. place'[p] = "search"
      BY <1>1, <2>1 DEF Install, Types
    <3> QED BY <1>1, <3>1, SomethingInstalled, NotADir
  <2>2. CASE Current # None
    BY <1>1, <1>3, <2>2, CurrentStays
  <2> QED BY <2>1, <2>2
<1> QED BY <1>7, <1>8 DEF SomeoneInstalls

(* An install that fails: whoever moved the old index aside has it still.   *)
LEMMA RebuildInstallFails ==
    ASSUME RebuildInv, TypeInv', NEW p \in Invocations, InstallFails(p)
    PROVE  Places' /\ SomeoneInstalls'
<1>1. /\ Types /\ OneInstalled /\ Types' /\ OneInstalled' /\ Places /\ SomeoneInstalls
      /\ p \in Dirs /\ Data(p) \in Datas /\ run[p].pc = "install"
      /\ run'[p].pc = "undo" /\ run'[p].data = Data(p)
      /\ \A q \in Invocations \ {p} : run'[q] = run[q]
      /\ place' = [place EXCEPT ![p] = "none"] /\ marker' = marker /\ crashes' = crashes
  BY Placed, Failing DEF RebuildInv, TypeInv
<1>2. place[p] = "new" /\ \A e \in Dirs \ {p} : place'[e] = place[e]
  BY <1>1, Placed DEF Types, Replacing
<1>3. \A q \in Invocations : p # Data(q).old
  BY <1>1, <1>2, OldOnly
<1>4. /\ "undo" \in Labels /\ "undo" \notin Beginning \union Replacing
      /\ Data(p).old # None =>
            /\ Data(p).old \in Dirs /\ place'[Data(p).old] = "old"
            /\ \A q \in Invocations \ {p} : Data(p).old # Data(q).old
  BY <1>1, <1>2, <1>3, Placed DEF Labels, Beginning, Replacing, Places
<1>5. Places'
  BY <1>1, <1>2, <1>3, <1>4, PlacesRename
<1>6. Current # None => Current' # None
  BY <1>1, <1>2, CurrentStays
<1>7. ASSUME SomeoneReplaces PROVE SomeoneReplaces'
  BY <1>1, <1>7 DEF SomeoneReplaces, Data
<1>8. ASSUME NothingYet PROVE NothingYet'
  BY <1>1, <1>2, <1>8 DEF NothingYet, Starting
<1> QED BY <1>1, <1>5, <1>6, <1>7, <1>8 DEF SomeoneInstalls

(* What was moved aside is put back, unless something else is there.        *)
LEMMA RebuildPutBack ==
    ASSUME RebuildInv, TypeInv', NEW p \in Invocations, PutBack(p)
    PROVE  Places' /\ SomeoneInstalls'
<1>1. /\ Types /\ OneInstalled /\ Types' /\ OneInstalled' /\ Places /\ SomeoneInstalls
      /\ run[p].pc = "undo" /\ p \in Dirs /\ Data(p) \in Datas
      /\ UNCHANGED <<marker, crashes>>
      /\ Data(p).old # None => Data(p).old \in Dirs /\ place[Data(p).old] = "old"
  BY Placed DEF RebuildInv, TypeInv, PutBack, At
<1>2. /\ place' = [d \in Dirs |-> IF d = Data(p).old /\ Current = None THEN "search" ELSE place[d]]
      /\ Keep(p, "failed", Fresh)
  BY DEF PutBack, Fail
<1>3. Fresh \in Datas /\ Fresh.old = None /\ "failed" \in Labels
      /\ "failed" \notin Beginning \union Replacing /\ "failed" \in Starting
  BY FreshTyped DEF Fresh, Labels, Beginning, Replacing, Starting
<1>4. CASE Current # None \/ Data(p).old = None
  <2>1. place' = place
    BY <1>1, <1>2, <1>4, NotADir DEF Types
  <2>2. Places'
    BY <1>1, <1>2, <1>3, <2>1, PlacesGoOn
  <2>3. Current' = Current
    BY <2>1 DEF Current, Installed
  <2>4. CASE Current # None
    BY <2>2, <2>3, <2>4 DEF SomeoneInstalls
  <2>5. CASE Data(p).old = None
    <3>1. SomeoneInstalls'
      BY <1>1, <1>2, <1>3, <2>1, <2>3, <2>5, InstallsGoOn
    <3> QED BY <2>2, <3>1
  <2> QED BY <1>4, <2>4, <2>5
<1>5. CASE Current = None /\ Data(p).old # None
  <2>1. PICK d \in Dirs : d = Data(p).old /\ place[d] = "old"
    BY <1>1, <1>5
  <2>2. place'[d] = "search" /\ \A e \in Dirs \ {d} : place'[e] = place[e]
    BY <1>2, <1>5, <2>1
  <2>3. \A q \in Invocations \ {p} : d # Data(q).old
    BY <1>1, <1>5, <2>1 DEF Places
  <2>kept. /\ run'[p].pc = "failed" /\ run'[p].data = Fresh
        /\ \A q \in Invocations \ {p} : run'[q] = run[q]
    BY <1>1, <1>2, <1>3, Kept
  <2>4. Places'
    BY <1>1, <1>2, <1>3, <2>1, <2>2, <2>3, <2>kept, PlacesRename
  <2>5. Current' # None
    BY <1>1, <2>2, SomethingInstalled, NotADir
  <2> QED BY <2>4, <2>5 DEF SomeoneInstalls
<1> QED BY <1>4, <1>5

LEMMA RebuildConflict ==
    ASSUME RebuildInv, TypeInv', NEW p \in Invocations, Conflict(p)
    PROVE  Places' /\ SomeoneInstalls'
<1>1. /\ Types /\ OneInstalled /\ Types' /\ OneInstalled' /\ Places /\ SomeoneInstalls
      /\ run[p].pc = "conflict" /\ p \in Dirs /\ Data(p) \in Datas
      /\ UNCHANGED <<marker, crashes>>
      /\ Data(p).old # None => Data(p).old \in Dirs /\ place[Data(p).old] = "old"
  BY Placed DEF RebuildInv, TypeInv, Conflict, At
<1>2. CASE Current # None
  <2>1. Keep(p, "check_marker", Data(p)) /\ place' = place
    BY <1>1, <1>2, Went DEF Conflict, Labels
  <2> QED BY <1>1, <2>1, RebuildGoesOn DEF Beginning, Replacing, Labels, Starting
<1>3. CASE Current = None
  <2>1. /\ place' = [d \in Dirs |-> IF d = Data(p).old THEN "search" ELSE place[d]]
        /\ Keep(p, "failed", Fresh)
    BY <1>3 DEF Conflict, Fail
  <2>2. CASE Data(p).old = None
    <3>1. place' = place
      BY <1>1, <2>1, <2>2, NotADir DEF Types
    <3> QED BY <1>1, <2>1, <3>1, RebuildGoesOnFresh DEF Beginning, Starting
  <2>3. CASE Data(p).old # None
    <3>1. PICK d \in Dirs : d = Data(p).old /\ place[d] = "old"
      BY <1>1, <2>3
    <3>2. place'[d] = "search" /\ \A e \in Dirs \ {d} : place'[e] = place[e]
      BY <2>1, <3>1
    <3>3. \A q \in Invocations \ {p} : d # Data(q).old
      BY <1>1, <2>3, <3>1 DEF Places
    <3>4. Fresh \in Datas /\ Fresh.old = None /\ "failed" \in Labels
          /\ "failed" \notin Beginning \union Replacing
      BY FreshTyped DEF Fresh, Labels, Beginning, Replacing
    <3>kept. /\ run'[p].pc = "failed" /\ run'[p].data = Fresh
          /\ \A q \in Invocations \ {p} : run'[q] = run[q]
      BY <1>1, <2>1, <3>4, Kept
    <3>5. Places'
      BY <1>1, <2>1, <3>1, <3>2, <3>3, <3>4, <3>kept, PlacesRename
    <3>6. Current' # None
      BY <1>1, <3>2, SomethingInstalled, NotADir
    <3> QED BY <3>5, <3>6 DEF SomeoneInstalls
  <2> QED BY <2>2, <2>3
<1> QED BY <1>2, <1>3

LEMMA RebuildReopen ==
    ASSUME RebuildInv, TypeInv', NEW p \in Invocations, CheckMarker(p) \/ Reopen(p)
    PROVE  Places' /\ SomeoneInstalls'
<1>1. /\ Types /\ OneInstalled /\ Types' /\ OneInstalled' /\ Places /\ SomeoneInstalls
      /\ run[p].pc \in {"check_marker", "reopen"} /\ p \in Dirs /\ Data(p) \in Datas
      /\ UNCHANGED <<marker, crashes>>
      /\ Data(p).old # None => Data(p).old \in Dirs /\ place[Data(p).old] = "old"
  BY Placed DEF RebuildInv, TypeInv, CheckMarker, Reopen, At
<1>2. Fresh \in Datas /\ Fresh.old = None
  BY FreshTyped DEF Fresh
<1>3. CASE CheckMarker(p)
  <2>1. /\ place' = place
        /\ Keep(p, "failed", Fresh) \/ Keep(p, "reopen", Data(p))
    BY <1>1, <1>3, Went DEF CheckMarker, Fail, Labels
  <2>2. CASE Keep(p, "failed", Fresh)
    BY <1>1, <2>1, <2>2, RebuildGoesOnFresh DEF Beginning, Starting
  <2>3. CASE Keep(p, "reopen", Data(p))
    BY <1>1, <2>1, <2>3, RebuildGoesOn DEF Beginning, Replacing, Labels, Starting
  <2> QED BY <2>1, <2>2, <2>3
<1>4. CASE Reopen(p)
  <2>1. place' = [d \in Dirs |-> IF d = Data(p).old THEN "none" ELSE place[d]]
    BY <1>4 DEF Reopen
  <2> DEFINE after == [Data(p) EXCEPT !.old = None]
  <2>2. after \in Datas /\ after.old = None
    BY <1>1 DEF Datas
  <2>3. Keep(p, "failed", Fresh) \/ Keep(p, "walk", after)
    BY <1>4 DEF Reopen, Fail
  <2> HIDE DEF after
  <2>4. PICK label \in {"failed", "walk"}, data \in Datas : Keep(p, label, data) /\ data.old = None
    BY <1>2, <2>2, <2>3
  <2>5. label \in Labels /\ label \notin Beginning \union Replacing
    BY DEF Labels, Beginning, Replacing
  <2>6. Current # None => Current' # None
    <3>1. \A d \in Dirs : place[d] = "search" => place'[d] = "search"
      BY <1>1, <2>1, NotADir
    <3> QED BY <1>1, <3>1, CurrentStays
  <2>7. SomeoneInstalls'
    <3>1. \A d \in Dirs : place'[d] \in {"search", "old"} => place[d] \in {"search", "old"}
      BY <2>1
    <3> QED BY <1>1, <2>4, <2>5, <2>6, <3>1, InstallsGoOn DEF Beginning, Starting
  <2>8. CASE Data(p).old = None
    <3>1. place' = place
      BY <1>1, <2>1, <2>8, NotADir DEF Types
    <3> QED BY <1>1, <2>4, <2>5, <2>7, <3>1, PlacesGoOn
  <2>9. CASE Data(p).old # None
    <3>1. PICK d \in Dirs : d = Data(p).old /\ place[d] = "old"
      BY <1>1, <2>9
    <3>2. \A e \in Dirs \ {d} : place'[e] = place[e]
      BY <2>1, <3>1
    <3>3. \A q \in Invocations \ {p} : d # Data(q).old
      BY <1>1, <2>9, <3>1 DEF Places
    <3>kept. /\ run'[p].pc = label /\ run'[p].data = data
          /\ \A q \in Invocations \ {p} : run'[q] = run[q]
      <4>1. Types /\ label \in Labels /\ Keep(p, label, data)
        BY <1>1, <2>4, <2>5
      <4> QED BY <4>1, Kept
    <3>4. Places'
      BY <1>1, <2>4, <2>5, <3>1, <3>2, <3>3, <3>kept, PlacesRename
    <3> QED BY <2>7, <3>4
  <2> QED BY <2>8, <2>9
<1> QED BY <1>3, <1>4

(* From the walk on, a process renames nothing and marks nothing.           *)
LEMMA RebuildRefresh ==
    ASSUME RebuildInv, TypeInv', NEW p \in Invocations,
           \/ Walk(p) \/ Plan(p) \/ AcquireWriter(p) \/ Load(p) \/ Flush(p) \/ Commit(p) \/ Search(p)
    PROVE  Places' /\ SomeoneInstalls'
<1>1. /\ run[p].pc \in {"walk", "plan", "lock", "load", "commit", "search"}
      /\ UNCHANGED <<place, marker, crashes>>
  BY DEF Walk, Plan, AcquireWriter, Load, Flush, Commit, Search, At, dirs
<1>2. Moves(p)
  BY TypesRefresh DEF RebuildInv
<1>3. PICK label \in {"plan", "lock", "load", "commit", "search", "done", "failed"}, data \in Datas :
         Keep(p, label, data) /\ data.old \in {None, Data(p).old}
  BY <1>2 DEF Moves
<1>4. Data(p).old = None
  BY <1>1, Placed
<1>5. label \in Labels /\ label \notin Beginning \union Replacing
  BY DEF Labels, Beginning, Replacing
<1> QED BY <1>1, <1>3, <1>4, <1>5, RebuildGoesOn DEF Beginning, Starting

LEMMA RebuildCrash ==
    ASSUME RebuildInv, TypeInv', NEW p \in Invocations, Crash(p)
    PROVE  Places' /\ SomeoneInstalls'
<1>1. Types /\ Places /\ crashes \in Nat
  BY DEF RebuildInv, TypeInv, Types
<1>2. /\ Keep(p, "crashed", Fresh) /\ crashes' = crashes + 1 /\ UNCHANGED <<place, marker>>
  BY DEF Crash
<1>3. Fresh \in Datas /\ Fresh.old = None /\ "crashed" \in Labels
      /\ "crashed" \notin Beginning \union Replacing
  BY FreshTyped DEF Fresh, Labels, Beginning, Replacing
<1>4. Places'
  BY <1>1, <1>2, <1>3, PlacesGoOn
<1>5. crashes' # 0
  BY <1>1, <1>2
<1> QED BY <1>4, <1>5 DEF SomeoneInstalls

(* A start, or a change to the files.                                       *)
LEMMA RebuildDisturbed ==
    ASSUME RebuildInv,
           \A q \in Invocations :
              /\ run'[q].data = run[q].data
              /\ run'[q].pc = run[q].pc \/ (run[q].pc = "idle" /\ run'[q].pc = "open"),
           UNCHANGED <<place, marker, crashes>>
    PROVE  Places' /\ SomeoneInstalls'
<1>1. Places'
  BY DEF RebuildInv, Places, Data, Beginning, Replacing
<1>2. Current' = Current
  BY DEF Current, Installed
<1>3. SomeoneInstalls'
  <2>1. SomeoneReplaces => SomeoneReplaces'
    BY DEF SomeoneReplaces, Data
  <2>2. NothingYet => NothingYet'
    BY DEF NothingYet, Starting, Beginning
  <2> QED BY <1>2, <2>1, <2>2 DEF RebuildInv, SomeoneInstalls
<1> QED BY <1>1, <1>3

LEMMA RebuildStep == RebuildInv /\ [Next]_vars => RebuildInv'
<1> SUFFICES ASSUME RebuildInv, [Next]_vars PROVE RebuildInv'
  OBVIOUS
<1>1. TypeInv' /\ Types
  BY TypesStep DEF RebuildInv, TypeInv
<1>2. CASE UNCHANGED vars
  BY <1>1, <1>2, RebuildDisturbed DEF RebuildInv, vars, dirs
<1>3. ASSUME NEW p \in Invocations, Start(p) PROVE RebuildInv'
  BY <1>1, <1>3, Started, RebuildDisturbed DEF RebuildInv, dirs
<1>4. ASSUME NEW p \in Invocations, Step(p) \/ InstallFails(p) \/ Crash(p) PROVE RebuildInv'
  <2>1. CASE Step(p)
    BY <1>1, <2>1, RebuildOpenCheckOld, RebuildBuild, RebuildMoveOld, RebuildInstall, RebuildConflict,
       RebuildPutBack, RebuildReopen, RebuildRefresh DEF Step, RebuildInv
  <2>2. CASE Crash(p)
    BY <1>1, <2>2, RebuildCrash DEF RebuildInv
  <2>3. CASE InstallFails(p)
    BY <1>1, <2>3, RebuildInstallFails DEF RebuildInv
  <2> QED BY <1>4, <2>1, <2>2, <2>3
<1>5. ASSUME NEW f \in Files, WriteFile(f) \/ DeleteFile(f) \/ ChangePermissions(f) PROVE RebuildInv'
  BY <1>1, <1>5, FilesChanged, RebuildDisturbed DEF RebuildInv, dirs
<1> QED BY <1>2, <1>3, <1>4, <1>5 DEF Next

(* Rebuilds that race, or fail halfway, never lose the index between them,  *)
(* however many run: when all ended and none was killed, what was there, or *)
(* was searched, or lies aside, is installed or replaced by an index of a   *)
(* version that ran, complete with its marker.                              *)
THEOREM RebuildsLeaveOne == Spec => []RebuildsLeaveAnIndex
<1>1. RebuildInv => RebuildsLeaveAnIndex
  <2> SUFFICES ASSUME RebuildInv, Active = {}, crashes = 0,
                      \/ Original # None
                      \/ \E p \in Invocations : At(p, "done")
                      \/ \E d \in Dirs : place[d] = "old"
               PROVE  Current # None /\ marker[Current] # None
    BY DEF RebuildsLeaveAnIndex
  <2>1. ~SomeoneReplaces
    BY DEF SomeoneReplaces, Active, Ended
  <2>2. ~NothingYet
    BY DEF NothingYet, Starting, Beginning, At
  <2>3. Current # None
    BY <2>1, <2>2 DEF RebuildInv, SomeoneInstalls
  <2> QED BY <2>3, CurrentIs DEF RebuildInv, TypeInv, Places
<1>2. Spec => []RebuildInv
  BY RebuildBegin, RebuildStep, PTL DEF Spec
<1> QED BY <1>1, <1>2, PTL
=============================================================================
