------------------------- MODULE SearchExactProofs --------------------------
(***************************************************************************)
(* A search that nothing disturbed is exact, for any number of processes,  *)
(* files, changes and crashes, and with one process at a time every search *)
(* succeeds.                                                               *)
(***************************************************************************)
EXTENDS SearchIndexProofs

-----------------------------------------------------------------------------
(* Records: a text is one the file had at the walk that signed it or later, *)
(* and a tombstone says that such a version could not be decoded.           *)
RecordRight(v, r) ==
    r # None =>
        /\ r.sig <= v
        /\ IF r.text = None THEN \E u \in Undecodable : r.sig <= u /\ u <= v
           ELSE r.sig <= r.text /\ r.text <= v /\ r.text \notin Undecodable

RecordsRight ==
    \A f \in Files :
        /\ \A d \in Dirs : RecordRight(version[f], content[d][f])
        /\ \A p \in Invocations : RecordRight(version[f], Data(p).staged[f])

(* What a process is going to do with a file follows from its walk.         *)
Unplanned == {"idle", "open", "build", "check_old", "move_old", "install", "conflict", "undo",
              "check_marker", "reopen", "walk", "plan"}

WalkRight(p, data, label) ==
    /\ \A f \in Files : data.walked[f] <= version[f] /\ (data.walked[f] # 0 => f \in Scope[p])
    /\ \A f \in data.todo : data.walked[f] # 0
    /\ \A f \in data.remove : f \in Scope[p] /\ data.walked[f] = 0 /\ data.complete
    /\ label \in Unplanned => data.todo = {} /\ data.remove = {}
WalksRight == \A p \in Invocations : WalkRight(p, Data(p), run[p].pc)

(* A process that nothing disturbed runs alone, so what it has seen of the  *)
(* files and the index still holds.                                         *)
Alone ==
    \A p, q \in Invocations : p \in Active /\ q \in Active /\ ~run[p].disturbed => p = q

Exact(there, v, r) ==
    IF there THEN r # None /\ r.text = (IF v \in Undecodable THEN None ELSE v)
    ELSE r = None

SeenBy(p) ==
    ~run[p].disturbed /\ Data(p).complete =>
        /\ run[p].pc \in {"plan", "lock"} =>
              \A f \in Scope[p] : Data(p).walked[f] = IF f \in present THEN version[f] ELSE 0
        /\ run[p].pc = "lock" =>
              \A f \in Scope[p] : /\ f \in Data(p).todo => f \in present
                                  /\ f \in Data(p).remove => f \notin present
                                  /\ f \notin Data(p).todo \union Data(p).remove =>
                                        Exact(f \in present, version[f], content[Current][f])
        /\ run[p].pc \in {"load", "commit"} =>
              \A f \in Scope[p] \ unreadable :
                  IF f \in Data(p).todo THEN f \in present
                  ELSE Exact(f \in present, version[f], Data(p).staged[f])
        /\ run[p].pc = "commit" => Data(p).todo = {}
        /\ run[p].pc = "search" =>
              \A f \in Scope[p] \ unreadable : Exact(f \in present, version[f], content[Current][f])
        /\ run[p].pc = "done" =>
              \A f \in Scope[p] \ unreadable :
                  Data(p).hits[f] = IF Indexable(f) THEN version[f] ELSE None
SeenExactly == \A p \in Invocations : SeenBy(p)

ExactInv == TypeInv /\ RecordsRight /\ WalksRight /\ Alone /\ SeenExactly

LEMMA ExactBegin == Init => ExactInv
<1> SUFFICES ASSUME Init PROVE ExactInv
  OBVIOUS
<1>1. /\ Fresh.todo = {} /\ Fresh.remove = {} /\ Fresh.staged = Empty
      /\ Fresh.walked = [f \in Files |-> 0]
      /\ \A p \in Invocations : Data(p) = Fresh /\ run[p].pc = "idle"
  BY DEF Fresh, Init, Data
<1>2. RecordsRight
  BY <1>1 DEF Init, RecordsRight, RecordRight, Empty
<1>3. WalksRight
  BY <1>1 DEF Init, WalksRight, WalkRight
<1>4. Alone
  BY <1>1 DEF Alone, Active, Ended
<1>5. SeenExactly
  BY <1>1 DEF SeenExactly, SeenBy
<1> QED BY <1>2, <1>3, <1>4, <1>5, TypesBegin DEF ExactInv

-----------------------------------------------------------------------------
(* A step moves one active process on, and changes no file.                 *)
LEMMA RebuildMoves ==
    ASSUME TypeInv, NEW p \in Invocations,
           \/ OpenIndex(p) \/ Build(p) \/ CheckOld(p) \/ MoveOld(p) \/ Install(p) \/ Conflict(p)
           \/ PutBack(p) \/ CheckMarker(p) \/ Reopen(p)
    PROVE  /\ run[p].pc \in {"open", "build", "check_old", "move_old", "install", "conflict", "undo",
                            "check_marker", "reopen"}
           /\ UNCHANGED <<files, content, damaged>>
           /\ \/ Keep(p, "failed", Fresh) /\ lock' = Unlocked(p)
              \/ /\ lock' = lock
                 /\ \E label \in {"build", "check_old", "move_old", "install", "conflict", "check_marker",
                                  "reopen", "walk"}, old \in Dirs \union {None} :
                       Keep(p, label, [Data(p) EXCEPT !.old = old])
<1>1. /\ Types /\ Data(p) \in Datas /\ Current \in Dirs \union {None}
      /\ Data(p).old \in Dirs \union {None}
      /\ Data(p) = [Data(p) EXCEPT !.old = Data(p).old]
  BY Typed, CurrentIs DEF TypeInv, Datas
<1>2. ASSUME NEW label \in {"build", "check_old", "move_old", "install", "conflict", "check_marker",
                            "reopen", "walk"}, Goto(p, label), lock' = lock
      PROVE  /\ lock' = lock
             /\ \E l \in {"build", "check_old", "move_old", "install", "conflict", "check_marker",
                          "reopen", "walk"}, old \in Dirs \union {None} :
                   Keep(p, l, [Data(p) EXCEPT !.old = old])
  <2>1. Keep(p, label, Data(p))
    BY <1>1, <1>2, Went DEF Labels
  <2> QED BY <1>1, <1>2, <2>1
<1>3. /\ run[p].pc \in {"open", "build", "check_old", "move_old", "install", "conflict", "undo",
                        "check_marker", "reopen"}
      /\ UNCHANGED <<files, content, damaged>>
  BY DEF OpenIndex, Build, CheckOld, MoveOld, Install, Conflict, PutBack, CheckMarker, Reopen, At, dirs
<1>4. CASE OpenIndex(p) \/ Build(p) \/ CheckOld(p) \/ Install(p)
  <2>1. PICK label \in {"build", "check_old", "move_old", "install", "conflict", "reopen", "walk"} :
           Goto(p, label)
    BY <1>4 DEF OpenIndex, Build, CheckOld, Install
  <2>2. lock' = lock
    BY <1>4 DEF OpenIndex, Build, CheckOld, Install, dirs
  <2> QED BY <1>2, <1>3, <2>1, <2>2
<1>5. CASE Conflict(p) \/ CheckMarker(p)
  <2>1. CASE Fail(p)
    BY <1>3, <2>1 DEF Fail
  <2>2. CASE ~Fail(p)
    <3>1. PICK label \in {"check_marker", "reopen"} : Goto(p, label)
      BY <1>5, <2>2 DEF Conflict, CheckMarker
    <3>2. lock' = lock
      BY <1>5, <2>2 DEF Conflict, CheckMarker
    <3> QED BY <1>2, <1>3, <3>1, <3>2
  <2> QED BY <2>1, <2>2
<1>6. CASE MoveOld(p) \/ Reopen(p)
  <2>1. CASE Fail(p)
    BY <1>3, <2>1 DEF Fail
  <2>2. CASE ~Fail(p)
    BY <1>1, <1>3, <1>6, <2>2 DEF MoveOld, Reopen
  <2> QED BY <2>1, <2>2
<1>7. CASE PutBack(p)
  BY <1>3, <1>7 DEF PutBack, Fail
<1> QED BY <1>4, <1>5, <1>6, <1>7

LEMMA StepMoves ==
    ASSUME TypeInv, NEW p \in Invocations, Step(p) \/ InstallFails(p) \/ Crash(p)
    PROVE  /\ p \in Active
           /\ UNCHANGED files
           /\ run[p].disturbed => run'[p].disturbed
           /\ \A q \in Invocations \ {p} : run'[q] = run[q]
<1>1. UNCHANGED files
  BY DEF Step, OpenIndex, Build, CheckOld, MoveOld, Install, Conflict, PutBack, CheckMarker, Reopen, Walk,
         Plan, AcquireWriter, Load, Flush, Commit, Search, InstallFails, Crash
<1>2. p \in Active
  BY DEF Step, OpenIndex, Build, CheckOld, MoveOld, Install, Conflict, PutBack, CheckMarker, Reopen, Walk,
         Plan, AcquireWriter, Load, Flush, Commit, Search, InstallFails, Crash, At, Active, Ended
<1>4. CASE InstallFails(p)
  BY <1>1, <1>2, <1>4, Failing DEF TypeInv
<1>3. CASE Step(p) \/ Crash(p)
  <2> SUFFICES \E label \in Labels, data \in Datas : Keep(p, label, data)
    BY <1>1, <1>2, Kept DEF TypeInv
  <2>1. Types /\ Data(p) \in Datas /\ Fresh \in Datas
    BY Typed, FreshTyped DEF TypeInv
  <2>2. \A old \in Dirs \union {None} : [Data(p) EXCEPT !.old = old] \in Datas
    BY <2>1 DEF Datas
  <2>3. CASE \/ OpenIndex(p) \/ Build(p) \/ CheckOld(p) \/ MoveOld(p) \/ Install(p) \/ Conflict(p)
             \/ PutBack(p) \/ CheckMarker(p) \/ Reopen(p)
    BY <2>1, <2>2, <2>3, RebuildMoves DEF Labels
  <2>4. CASE \/ Walk(p) \/ Plan(p) \/ AcquireWriter(p) \/ Load(p) \/ Flush(p) \/ Commit(p) \/ Search(p)
    BY <2>4, TypesRefresh DEF Moves, Labels
  <2>5. CASE Crash(p)
    BY <2>1, <2>5 DEF Crash, Labels
  <2> QED BY <1>3, <2>3, <2>4, <2>5 DEF Step
<1> QED BY <1>3, <1>4

LEMMA AloneStep == ASSUME ExactInv, [Next]_vars PROVE Alone'
<1>1. Types
  BY DEF ExactInv, TypeInv
<1>2. CASE UNCHANGED vars
  BY <1>2 DEF ExactInv, Alone, Active, vars
<1>3. ASSUME NEW p \in Invocations, Start(p) PROVE Alone'
  <2>1. ASSUME NEW q \in Invocations, q \in Active' PROVE q = p \/ (q \in Active /\ run'[q].disturbed)
    BY <1>1, <1>3, <2>1, Started DEF Active
  <2>2. CASE Active = {}
    BY <2>1, <2>2 DEF Alone
  <2>3. CASE Active # {}
    BY <1>1, <1>3, <2>1, <2>3, Started DEF Alone
  <2> QED BY <2>2, <2>3
<1>4. ASSUME NEW p \in Invocations, Step(p) \/ InstallFails(p) \/ Crash(p) PROVE Alone'
  <2>1. Active' \subseteq Active
    BY <1>4, StepMoves DEF Active, ExactInv
  <2> QED BY <1>4, <2>1, StepMoves DEF Alone, ExactInv
<1>5. ASSUME NEW f \in Files, WriteFile(f) \/ DeleteFile(f) \/ ChangePermissions(f) PROVE Alone'
  BY <1>1, <1>5, FilesChanged DEF Alone
<1> QED BY <1>2, <1>3, <1>4, <1>5 DEF Next

-----------------------------------------------------------------------------
(* What the steps of a refresh do to the data of their process.             *)

LEMMA WalkDoes ==
    ASSUME Types, NEW p \in Invocations, Walk(p)
    PROVE  \E walked \in [Files -> Nat], complete \in BOOLEAN :
              /\ Keep(p, "plan", [Data(p) EXCEPT !.walked = walked, !.complete = complete])
              /\ \A f \in Files : (walked[f] = version[f] /\ f \in Scope[p] \cap present) \/ walked[f] = 0
              /\ complete => \A f \in Scope[p] \cap present : walked[f] = version[f]
<1>1. PICK missed \in SUBSET Files :
         Keep(p, "plan",
              [Data(p) EXCEPT
                !.walked = [f \in Files |-> IF f \in (Scope[p] \cap present) \ missed
                                            THEN version[f] ELSE 0],
                !.complete = (missed = {})])
  BY DEF Walk, Types
<1> DEFINE walked == [f \in Files |-> IF f \in (Scope[p] \cap present) \ missed THEN version[f] ELSE 0]
<1>2. walked \in [Files -> Nat] /\ (missed = {}) \in BOOLEAN
  BY DEF Types
<1>3. \A f \in Files : (walked[f] = version[f] /\ f \in Scope[p] \cap present) \/ walked[f] = 0
  OBVIOUS
<1>4. missed = {} => \A f \in Scope[p] \cap present : walked[f] = version[f]
  BY DEF Types
<1>5. Keep(p, "plan", [Data(p) EXCEPT !.walked = walked, !.complete = (missed = {})])
  BY <1>1
<1> HIDE DEF walked
<1> QED BY <1>2, <1>3, <1>4, <1>5

LEMMA PlanDoes ==
    ASSUME TypeInv, NEW p \in Invocations, Plan(p)
    PROVE  /\ run[p].pc = "plan" /\ UNCHANGED <<files, place, marker, content, damaged, crashes>>
           /\ \/ ~Readable(Current) /\ Fail(p)
              \/ \E d \in Dirs, todo, remove \in SUBSET Files, label \in {"search", "lock"} :
                    /\ d = Current /\ ~damaged[d] /\ lock' = lock
                    /\ Keep(p, label, [Data(p) EXCEPT !.todo = todo, !.remove = remove])
                    /\ todo = Changed(Data(p).walked, content[d])
                    /\ remove = IF Data(p).complete THEN Gone(p, Data(p).walked, content[d]) ELSE {}
                    /\ label = IF todo \union remove = {} THEN "search" ELSE "lock"
<1>1. run[p].pc = "plan" /\ UNCHANGED <<files, place, marker, content, damaged, crashes>>
  BY DEF Plan, At
<1>2. CASE ~Readable(Current)
  BY <1>1, <1>2 DEF Plan
<1>3. CASE Readable(Current)
  <2> DEFINE todo   == Changed(Data(p).walked, content[Current])
             remove == IF Data(p).complete THEN Gone(p, Data(p).walked, content[Current]) ELSE {}
             label  == IF todo \union remove = {} THEN "search" ELSE "lock"
  <2>1. /\ Keep(p, label, [Data(p) EXCEPT !.todo = todo, !.remove = remove])
        /\ lock' = lock /\ ~damaged[Current]
    BY <1>3 DEF Plan, Readable
  <2>2. todo \in SUBSET Files /\ remove \in SUBSET Files /\ label \in {"search", "lock"}
    BY ScopesAndFormats DEF Changed, Gone
  <2>3. Current \in Dirs
    BY <1>3, CurrentIs DEF TypeInv, Readable
  <2> QED BY <1>1, <2>1, <2>2, <2>3
<1> QED BY <1>2, <1>3

LEMMA AcquireWriterDoes ==
    ASSUME TypeInv, NEW p \in Invocations, AcquireWriter(p)
    PROVE  /\ run[p].pc = "lock" /\ UNCHANGED <<files, place, marker, content, damaged, crashes>>
           /\ \/ Current = None /\ Fail(p)
              \/ /\ lock' = lock
                 /\ \E d \in Dirs : d = Current /\ lock[d] # None
                 /\ Keep(p, "search", [Data(p) EXCEPT !.skipped = TRUE, !.todo = {}, !.remove = {}])
              \/ \E d \in Dirs, staged \in Records, based \in BOOLEAN :
                    /\ d = Current /\ lock[d] = None /\ lock' = [lock EXCEPT ![d] = p]
                    /\ Keep(p, "load", [Data(p) EXCEPT !.writer = d, !.based = based, !.staged = staged])
                    /\ based = (content[d] # Empty)
                    /\ \A f \in Files : staged[f] = IF f \in Data(p).todo \union Data(p).remove
                                                    THEN None ELSE content[d][f]
<1>1. run[p].pc = "lock" /\ UNCHANGED <<files, place, marker, content, damaged, crashes>>
  BY DEF AcquireWriter, At
<1>2. CASE Current = None
  BY <1>1, <1>2 DEF AcquireWriter
<1>3. CASE Current # None
  <2>1. PICK d \in Dirs : d = Current
    BY <1>3, CurrentIs DEF TypeInv
  <2>2. CASE lock[d] # None
    BY <1>1, <1>3, <2>1, <2>2 DEF AcquireWriter
  <2>3. CASE lock[d] = None
    <3> DEFINE staged == [f \in Files |-> IF f \in Data(p).todo \union Data(p).remove
                                          THEN None ELSE content[d][f]]
               based  == (content[d] # Empty)
    <3>1. staged \in Records /\ based \in BOOLEAN
      BY DEF TypeInv, Types, Records
    <3>2. /\ lock' = [lock EXCEPT ![d] = p]
          /\ Keep(p, "load", [Data(p) EXCEPT !.writer = d, !.based = based, !.staged = staged])
      BY <1>3, <2>1, <2>3 DEF AcquireWriter
    <3>3. \A f \in Files : staged[f] = IF f \in Data(p).todo \union Data(p).remove
                                        THEN None ELSE content[d][f]
      OBVIOUS
    <3> HIDE DEF staged
    <3> QED BY <1>1, <2>1, <2>3, <3>1, <3>2, <3>3
  <2> QED BY <2>2, <2>3
<1> QED BY <1>2, <1>3

LEMMA LoadDoes ==
    ASSUME TypeInv, NEW p \in Invocations, Load(p)
    PROVE  /\ run[p].pc = "load" /\ UNCHANGED <<files, dirs, crashes>>
           /\ \E f \in Data(p).todo, staged \in Records, refused \in SUBSET Files :
                 /\ Keep(p, "load", [Data(p) EXCEPT !.todo = Data(p).todo \ {f}, !.staged = staged,
                                                   !.refused = refused])
                 /\ staged[f] = Loaded(p, f)
                 /\ \A g \in Files \ {f} : staged[g] = Data(p).staged[g]
<1>1. run[p].pc = "load" /\ UNCHANGED <<files, dirs, crashes>>
  BY DEF Load, At
<1>2. PICK f \in Data(p).todo :
         Keep(p, "load", [Data(p) EXCEPT
                            !.todo = @ \ {f},
                            !.staged[f] = Loaded(p, f),
                            !.refused = IF Loaded(p, f) = None THEN @ \union {f} ELSE @])
  BY DEF Load
<1> DEFINE staged  == [Data(p).staged EXCEPT ![f] = Loaded(p, f)]
           refused == IF Loaded(p, f) = None THEN Data(p).refused \union {f} ELSE Data(p).refused
<1>3. Data(p) \in Datas
  BY Typed DEF TypeInv
<1>4. f \in Files /\ Loaded(p, f) \in Record \union {None}
  BY <1>3 DEF Datas, Loaded, Record, TypeInv, Types
<1>5. staged \in Records /\ refused \in SUBSET Files
  BY <1>3, <1>4 DEF Datas, Records
<1>6. staged[f] = Loaded(p, f) /\ \A g \in Files \ {f} : staged[g] = Data(p).staged[g]
  BY <1>3, <1>4 DEF Datas, Records
<1>7. Keep(p, "load", [Data(p) EXCEPT !.todo = Data(p).todo \ {f}, !.staged = staged, !.refused = refused])
  BY <1>2
<1> HIDE DEF staged, refused
<1> QED BY <1>1, <1>5, <1>6, <1>7

LEMMA FlushDoes ==
    ASSUME TypeInv, NEW p \in Invocations, Flush(p)
    PROVE  /\ run[p].pc = "load" /\ Data(p).todo = {}
           /\ UNCHANGED <<files, place, marker, content, damaged, crashes>>
           /\ \/ Current = None /\ Fail(p)
              \/ \E d \in Dirs : /\ d = Current /\ lock' = lock
                                 /\ Keep(p, "commit", [Data(p) EXCEPT !.flushed = d])
<1>1. Current # None => \E d \in Dirs : d = Current
  BY CurrentIs DEF TypeInv
<1> QED BY <1>1 DEF Flush, At

LEMMA CommitDoes ==
    ASSUME TypeInv, NEW p \in Invocations, Commit(p)
    PROVE  /\ run[p].pc = "commit" /\ UNCHANGED <<files, place, marker, crashes>>
           /\ \/ /\ Current = None \/ (Data(p).based /\ (Current # Data(p).writer \/ damaged[Current]))
                 /\ Fail(p) /\ UNCHANGED <<content, damaged>>
              \/ \E d \in Dirs :
                    /\ d = Current /\ (Data(p).based => d = Data(p).writer /\ ~damaged[d])
                    /\ content' = [content EXCEPT ![d] = Data(p).staged]
                    /\ damaged' = [damaged EXCEPT ![d] = (Data(p).flushed # d /\ Data(p).staged # Empty)]
                    /\ lock' = Unlocked(p)
                    /\ Keep(p, "search", [Data(p) EXCEPT !.writer = None, !.staged = Empty, !.based = FALSE,
                                                        !.flushed = None, !.remove = {}])
<1>1. Current # None => \E d \in Dirs : d = Current
  BY CurrentIs DEF TypeInv
<1> QED BY <1>1 DEF Commit, At

LEMMA SearchDoes ==
    ASSUME TypeInv, NEW p \in Invocations, Search(p)
    PROVE  /\ run[p].pc = "search" /\ UNCHANGED <<files, place, marker, content, damaged, crashes>>
           /\ \/ ~Readable(Current) /\ Fail(p)
              \/ \E d \in Dirs, hits \in [Files -> Nat \union {None}] :
                    /\ d = Current /\ lock' = lock
                    /\ Keep(p, "done", [Data(p) EXCEPT !.hits = hits])
                    /\ \A f \in Files : hits[f] = IF f \in Scope[p] /\ content[d][f] # None
                                                  THEN content[d][f].text ELSE None
<1>1. run[p].pc = "search" /\ UNCHANGED <<files, place, marker, content, damaged, crashes>>
  BY DEF Search, At
<1>2. CASE ~Readable(Current)
  BY <1>1, <1>2 DEF Search
<1>3. CASE Readable(Current)
  <2>1. PICK d \in Dirs : d = Current
    BY <1>3, CurrentIs DEF TypeInv, Readable
  <2> DEFINE hits == [f \in Files |-> IF f \in Scope[p] /\ content[d][f] # None
                                      THEN content[d][f].text ELSE None]
  <2>2. hits \in [Files -> Nat \union {None}]
    BY DEF TypeInv, Types, Records, Record
  <2>3. lock' = lock /\ Keep(p, "done", [Data(p) EXCEPT !.hits = hits])
    BY <1>3, <2>1 DEF Search
  <2>4. \A f \in Files : hits[f] = IF f \in Scope[p] /\ content[d][f] # None
                                    THEN content[d][f].text ELSE None
    OBVIOUS
  <2> HIDE DEF hits
  <2> QED BY <1>1, <2>1, <2>2, <2>3, <2>4
<1> QED BY <1>2, <1>3

-----------------------------------------------------------------------------
(* Records and walks stay right.                                           *)

LEMMA RecordsGoOn ==
    ASSUME Types, RecordsRight, NEW p \in Invocations, NEW label \in Labels, NEW data \in Datas,
           Keep(p, label, data), version' = version,
           \A f \in Files : RecordRight(version[f], data.staged[f]),
           \A d \in Dirs, f \in Files : RecordRight(version[f], content'[d][f])
    PROVE  RecordsRight'
<1>1. /\ run'[p].data = data
      /\ \A q \in Invocations \ {p} : run'[q] = run[q]
  BY Kept
<1>2. \A q \in Invocations, f \in Files : RecordRight(version[f], run'[q].data.staged[f])
  BY <1>1 DEF RecordsRight, Data
<1> QED BY <1>2 DEF RecordsRight, Data

LEMMA WalksGoOn ==
    ASSUME Types, WalksRight, NEW p \in Invocations, NEW label \in Labels, NEW data \in Datas,
           Keep(p, label, data), version' = version, WalkRight(p, data, label)
    PROVE  WalksRight'
<1>1. /\ run'[p].data = data /\ run'[p].pc = label
      /\ \A q \in Invocations \ {p} : run'[q] = run[q]
  BY Kept
<1>2. ASSUME NEW q \in Invocations PROVE WalkRight(q, run'[q].data, run'[q].pc)
  BY <1>1 DEF WalksRight, Data
<1>3. ASSUME NEW q \in Invocations PROVE WalkRight(q, Data(q), run[q].pc)'
  BY <1>2 DEF WalkRight, Data
<1> QED BY <1>3 DEF WalksRight

(* A process that ends forgets everything, one that rebuilds has nothing    *)
(* prepared yet.                                                           *)
LEMMA RecordsEnd ==
    ASSUME TypeInv, RecordsRight, WalksRight, NEW p \in Invocations,
           NEW label \in {"failed", "crashed"}, Keep(p, label, Fresh), UNCHANGED <<files, content>>
    PROVE  RecordsRight' /\ WalksRight'
<1>1. /\ Fresh \in Datas /\ Fresh.todo = {} /\ Fresh.remove = {}
      /\ \A f \in Files : Fresh.staged[f] = None /\ Fresh.walked[f] = 0
  BY FreshTyped DEF Fresh, Empty
<1>2. Types /\ label \in Labels /\ version' = version /\ \A f \in Files : version[f] \in Nat
  BY DEF TypeInv, Types, Labels, files
<1>3. RecordsRight'
  BY <1>1, <1>2, RecordsGoOn DEF RecordsRight, RecordRight
<1>4. WalksRight'
  BY <1>1, <1>2, WalksGoOn DEF WalkRight
<1> QED BY <1>3, <1>4

LEMMA RecordsRebuild ==
    ASSUME TypeInv, RecordsRight, WalksRight, NEW p \in Invocations,
           \/ OpenIndex(p) \/ Build(p) \/ CheckOld(p) \/ MoveOld(p) \/ Install(p) \/ Conflict(p)
           \/ PutBack(p) \/ CheckMarker(p) \/ Reopen(p)
    PROVE  RecordsRight' /\ WalksRight'
<1>1. UNCHANGED <<files, content>>
  BY RebuildMoves
<1>2. CASE Keep(p, "failed", Fresh)
  BY <1>1, <1>2, RecordsEnd
<1>3. ASSUME NEW label \in {"build", "check_old", "move_old", "install", "conflict", "check_marker",
                            "reopen", "walk"},
             NEW old \in Dirs \union {None}, Keep(p, label, [Data(p) EXCEPT !.old = old])
      PROVE  RecordsRight' /\ WalksRight'
  <2> DEFINE data == [Data(p) EXCEPT !.old = old]
  <2>1. Data(p) \in Datas /\ Types /\ version' = version
    BY <1>1, Typed DEF TypeInv, files
  <2>2. /\ data \in Datas /\ data.todo = Data(p).todo /\ data.remove = Data(p).remove
        /\ data.walked = Data(p).walked /\ data.complete = Data(p).complete
        /\ data.staged = Data(p).staged
    BY <2>1 DEF Datas
  <2>3. Keep(p, label, data) /\ label \in Labels
    BY <1>3 DEF Labels
  <2> HIDE DEF data
  <2>4. RecordsRight'
    BY <1>1, <2>1, <2>2, <2>3, RecordsGoOn DEF RecordsRight
  <2>5. Data(p).todo = {} /\ Data(p).remove = {}
    BY RebuildMoves DEF WalksRight, WalkRight, Unplanned
  <2>6. WalkRight(p, data, label)
    BY <2>2, <2>5 DEF WalksRight, WalkRight
  <2>7. WalksRight'
    BY <2>1, <2>2, <2>3, <2>6, WalksGoOn
  <2> QED BY <2>4, <2>7
<1> QED BY <1>2, <1>3, RebuildMoves

LEMMA RecordsRefresh ==
    ASSUME TypeInv, RecordsRight, WalksRight, NEW p \in Invocations,
           \/ Walk(p) \/ Plan(p) \/ AcquireWriter(p) \/ Load(p) \/ Flush(p) \/ Commit(p) \/ Search(p)
    PROVE  RecordsRight' /\ WalksRight'
<1>1. Types /\ Data(p) \in Datas
  BY Typed DEF TypeInv
<1>2. ASSUME Fail(p), UNCHANGED <<files, content>> PROVE RecordsRight' /\ WalksRight'
  BY <1>2, RecordsEnd DEF Fail
<1>3. ASSUME NEW label \in Labels, NEW data \in Datas, Keep(p, label, data), UNCHANGED <<files, content>>,
             data.staged = Data(p).staged, WalkRight(p, data, label)
      PROVE  RecordsRight' /\ WalksRight'
  <2>1. version' = version
    BY <1>3 DEF files
  <2>2. \A f \in Files : /\ RecordRight(version[f], data.staged[f])
                         /\ \A d \in Dirs : RecordRight(version[f], content'[d][f])
    BY <1>3 DEF RecordsRight
  <2>3. RecordsRight'
    BY <1>1, <1>3, <2>1, <2>2, RecordsGoOn
  <2>4. WalksRight'
    BY <1>1, <1>3, <2>1, WalksGoOn
  <2> QED BY <2>3, <2>4
<1>4. CASE Walk(p)
  <2>1. PICK walked \in [Files -> Nat], complete \in BOOLEAN :
           /\ Keep(p, "plan", [Data(p) EXCEPT !.walked = walked, !.complete = complete])
           /\ \A f \in Files : (walked[f] = version[f] /\ f \in Scope[p] \cap present) \/ walked[f] = 0
    BY <1>1, <1>4, WalkDoes
  <2> DEFINE data == [Data(p) EXCEPT !.walked = walked, !.complete = complete]
  <2>2. /\ data \in Datas /\ data.walked = walked /\ data.staged = Data(p).staged
        /\ data.todo = Data(p).todo /\ data.remove = Data(p).remove
    BY <1>1 DEF Datas
  <2>3. run[p].pc = "walk" /\ UNCHANGED <<files, content>>
    BY <1>4 DEF Walk, At, dirs
  <2>4. data.todo = {} /\ data.remove = {}
    BY <2>2, <2>3 DEF WalksRight, WalkRight, Unplanned
  <2>5. Keep(p, "plan", data) /\ "plan" \in Labels
    BY <2>1 DEF Labels
  <2> HIDE DEF data
  <2>6. \A f \in Files : version[f] \in Nat
    BY <1>1 DEF Types
  <2>7. WalkRight(p, data, "plan")
    BY <2>1, <2>2, <2>4, <2>6 DEF WalkRight
  <2> QED BY <1>3, <2>2, <2>3, <2>5, <2>7
<1>5. CASE Plan(p)
  <2>1. UNCHANGED <<files, content>>
    BY <1>5, PlanDoes
  <2>2. CASE Fail(p)
    BY <1>2, <2>1, <2>2
  <2>3. CASE ~Fail(p)
    <3>1. PICK d \in Dirs, todo, remove \in SUBSET Files, label \in {"search", "lock"} :
             /\ Keep(p, label, [Data(p) EXCEPT !.todo = todo, !.remove = remove])
             /\ todo = Changed(Data(p).walked, content[d])
             /\ remove = IF Data(p).complete THEN Gone(p, Data(p).walked, content[d]) ELSE {}
      BY <1>5, <2>3, PlanDoes
    <3> DEFINE data == [Data(p) EXCEPT !.todo = todo, !.remove = remove]
    <3>2. /\ data \in Datas /\ data.walked = Data(p).walked /\ data.staged = Data(p).staged
          /\ data.complete = Data(p).complete /\ data.todo = todo /\ data.remove = remove
      BY <1>1 DEF Datas
    <3>3. /\ \A f \in todo : Data(p).walked[f] # 0
          /\ \A f \in remove : f \in Scope[p] /\ Data(p).walked[f] = 0 /\ Data(p).complete
      BY <3>1 DEF Changed, Gone
    <3>4. Keep(p, label, data) /\ label \in Labels /\ label \notin Unplanned
      BY <3>1 DEF Labels, Unplanned
    <3> HIDE DEF data
    <3>5. WalkRight(p, data, label)
      BY <3>2, <3>3, <3>4 DEF WalksRight, WalkRight
    <3> QED BY <1>3, <2>1, <3>2, <3>4, <3>5
  <2> QED BY <2>2, <2>3
<1>6. CASE AcquireWriter(p)
  <2>1. UNCHANGED <<files, content>>
    BY <1>6, AcquireWriterDoes
  <2>2. CASE Fail(p)
    BY <1>2, <2>1, <2>2
  <2>3. CASE Keep(p, "search", [Data(p) EXCEPT !.skipped = TRUE, !.todo = {}, !.remove = {}])
    <3> DEFINE data == [Data(p) EXCEPT !.skipped = TRUE, !.todo = {}, !.remove = {}]
    <3>1. /\ data \in Datas /\ data.walked = Data(p).walked /\ data.staged = Data(p).staged
          /\ data.todo = {} /\ data.remove = {}
      BY <1>1 DEF Datas
    <3>2. Keep(p, "search", data) /\ "search" \in Labels
      BY <2>3 DEF Labels
    <3> HIDE DEF data
    <3>3. WalkRight(p, data, "search")
      BY <3>1 DEF WalksRight, WalkRight
    <3> QED BY <1>3, <2>1, <3>1, <3>2, <3>3
  <2>4. CASE /\ ~Fail(p)
             /\ ~Keep(p, "search", [Data(p) EXCEPT !.skipped = TRUE, !.todo = {}, !.remove = {}])
    <3>1. PICK d \in Dirs, staged \in Records, based \in BOOLEAN :
             /\ d = Current /\ lock[d] = None /\ lock' = [lock EXCEPT ![d] = p]
             /\ Keep(p, "load", [Data(p) EXCEPT !.writer = d, !.based = based, !.staged = staged])
             /\ based = (content[d] # Empty)
             /\ \A f \in Files : staged[f] = IF f \in Data(p).todo \union Data(p).remove
                                             THEN None ELSE content[d][f]
      BY <1>6, <2>4, AcquireWriterDoes
    <3> DEFINE data == [Data(p) EXCEPT !.writer = d, !.based = based, !.staged = staged]
    <3>2. /\ data \in Datas /\ data.walked = Data(p).walked /\ data.staged = staged
          /\ data.complete = Data(p).complete /\ data.todo = Data(p).todo /\ data.remove = Data(p).remove
      BY <1>1 DEF Datas
    <3>3. Keep(p, "load", data) /\ "load" \in Labels /\ "load" \notin Unplanned
      BY <3>1 DEF Labels, Unplanned
    <3> HIDE DEF data
    <3>4. version' = version
      BY <2>1 DEF files
    <3>5. \A f \in Files : /\ RecordRight(version[f], data.staged[f])
                           /\ \A e \in Dirs : RecordRight(version[f], content'[e][f])
      BY <2>1, <3>1, <3>2 DEF RecordsRight, RecordRight
    <3>6. WalkRight(p, data, "load")
      BY <3>2, <3>3 DEF WalksRight, WalkRight
    <3>7. RecordsRight'
      BY <1>1, <3>2, <3>3, <3>4, <3>5, RecordsGoOn
    <3>8. WalksRight'
      BY <1>1, <3>2, <3>3, <3>4, <3>6, WalksGoOn
    <3> QED BY <3>7, <3>8
  <2> QED BY <2>2, <2>3, <2>4
<1>7. CASE Load(p)
  <2>1. PICK f \in Data(p).todo, staged \in Records, refused \in SUBSET Files :
           /\ Keep(p, "load", [Data(p) EXCEPT !.todo = Data(p).todo \ {f}, !.staged = staged,
                                             !.refused = refused])
           /\ staged[f] = Loaded(p, f)
           /\ \A g \in Files \ {f} : staged[g] = Data(p).staged[g]
    BY <1>7, LoadDoes
  <2> DEFINE data == [Data(p) EXCEPT !.todo = Data(p).todo \ {f}, !.staged = staged, !.refused = refused]
  <2>2. /\ data \in Datas /\ data.walked = Data(p).walked /\ data.staged = staged
        /\ data.complete = Data(p).complete /\ data.todo = Data(p).todo \ {f}
        /\ data.remove = Data(p).remove
    BY <1>1 DEF Datas
  <2>3. Keep(p, "load", data) /\ "load" \in Labels /\ "load" \notin Unplanned
    BY <2>1 DEF Labels, Unplanned
  <2> HIDE DEF data
  <2>4. version' = version /\ content' = content /\ f \in Files
    BY <1>1, <1>7, LoadDoes DEF files, dirs, Datas
  <2>5. RecordRight(version[f], Loaded(p, f))
    <3>1. Data(p).walked[f] <= version[f] /\ version[f] \in Nat /\ Data(p).walked[f] \in Nat
      BY <1>1, <2>4 DEF WalksRight, WalkRight, Types, Datas
    <3> QED BY <3>1, Sentinels DEF Loaded, RecordRight
  <2>6. \A g \in Files : /\ RecordRight(version[g], data.staged[g])
                         /\ \A d \in Dirs : RecordRight(version[g], content'[d][g])
    <3> QED BY <2>1, <2>2, <2>4, <2>5 DEF RecordsRight
  <2>7. WalkRight(p, data, "load")
    BY <2>2, <2>3 DEF WalksRight, WalkRight
  <2>8. RecordsRight'
    BY <1>1, <2>2, <2>3, <2>4, <2>6, RecordsGoOn
  <2>9. WalksRight'
    BY <1>1, <2>2, <2>3, <2>4, <2>7, WalksGoOn
  <2> QED BY <2>8, <2>9
<1>8. CASE Flush(p)
  <2>1. UNCHANGED <<files, content>>
    BY <1>8, FlushDoes
  <2>2. CASE Fail(p)
    BY <1>2, <2>1, <2>2
  <2>3. CASE ~Fail(p)
    <3>1. PICK d \in Dirs : Keep(p, "commit", [Data(p) EXCEPT !.flushed = d])
      BY <1>8, <2>3, FlushDoes
    <3> DEFINE data == [Data(p) EXCEPT !.flushed = d]
    <3>2. /\ data \in Datas /\ data.walked = Data(p).walked /\ data.staged = Data(p).staged
          /\ data.complete = Data(p).complete /\ data.todo = Data(p).todo /\ data.remove = Data(p).remove
      BY <1>1 DEF Datas
    <3>3. Keep(p, "commit", data) /\ "commit" \in Labels /\ "commit" \notin Unplanned
      BY <3>1 DEF Labels, Unplanned
    <3> HIDE DEF data
    <3>4. WalkRight(p, data, "commit")
      BY <3>2, <3>3 DEF WalksRight, WalkRight
    <3> QED BY <1>3, <2>1, <3>2, <3>3, <3>4
  <2> QED BY <2>2, <2>3
<1>9. CASE Commit(p)
  <2>1. CASE Fail(p) /\ UNCHANGED content
    BY <1>2, <1>9, <2>1, CommitDoes
  <2>2. CASE \E d \in Dirs : /\ content' = [content EXCEPT ![d] = Data(p).staged]
                            /\ Keep(p, "search", [Data(p) EXCEPT !.writer = None, !.staged = Empty,
                                                    !.based = FALSE, !.flushed = None, !.remove = {}])
    <3>1. PICK d \in Dirs : /\ content' = [content EXCEPT ![d] = Data(p).staged]
                            /\ Keep(p, "search", [Data(p) EXCEPT !.writer = None, !.staged = Empty,
                                                    !.based = FALSE, !.flushed = None, !.remove = {}])
      BY <2>2
    <3> DEFINE data == [Data(p) EXCEPT !.writer = None, !.staged = Empty, !.based = FALSE,
                                       !.flushed = None, !.remove = {}]
    <3>2. /\ data \in Datas /\ data.walked = Data(p).walked /\ data.staged = Empty
          /\ data.complete = Data(p).complete /\ data.todo = Data(p).todo /\ data.remove = {}
      BY <1>1 DEF Datas, Empty, Records
    <3>3. Keep(p, "search", data) /\ "search" \in Labels /\ "search" \notin Unplanned
      BY <3>1 DEF Labels, Unplanned
    <3> HIDE DEF data
    <3>4. version' = version
      BY <1>9, CommitDoes DEF files
    <3>5. \A f \in Files, e \in Dirs : content'[e][f] = IF e = d THEN Data(p).staged[f] ELSE content[e][f]
      BY <1>1, <3>1 DEF Types
    <3>6. \A f \in Files : /\ RecordRight(version[f], data.staged[f])
                           /\ \A e \in Dirs : RecordRight(version[f], content'[e][f])
      <4>1. \A f \in Files : data.staged[f] = None
        BY <3>2 DEF Empty
      <4>2. \A f \in Files : RecordRight(version[f], None)
        BY DEF RecordRight
      <4> QED BY <3>5, <4>1, <4>2 DEF RecordsRight
    <3>7. WalkRight(p, data, "search")
      BY <3>2, <3>3 DEF WalksRight, WalkRight
    <3>8. RecordsRight'
      BY <1>1, <3>2, <3>3, <3>4, <3>6, RecordsGoOn
    <3>9. WalksRight'
      BY <1>1, <3>2, <3>3, <3>4, <3>7, WalksGoOn
    <3> QED BY <3>8, <3>9
  <2> QED BY <1>9, <2>1, <2>2, CommitDoes
<1>10. CASE Search(p)
  <2>1. UNCHANGED <<files, content>>
    BY <1>10, SearchDoes
  <2>2. CASE Fail(p)
    BY <1>2, <2>1, <2>2
  <2>3. CASE ~Fail(p)
    <3>1. PICK hits \in [Files -> Nat \union {None}] : Keep(p, "done", [Data(p) EXCEPT !.hits = hits])
      BY <1>10, <2>3, SearchDoes
    <3> DEFINE data == [Data(p) EXCEPT !.hits = hits]
    <3>2. /\ data \in Datas /\ data.walked = Data(p).walked /\ data.staged = Data(p).staged
          /\ data.complete = Data(p).complete /\ data.todo = Data(p).todo /\ data.remove = Data(p).remove
      BY <1>1 DEF Datas
    <3>3. Keep(p, "done", data) /\ "done" \in Labels /\ "done" \notin Unplanned
      BY <3>1 DEF Labels, Unplanned
    <3> HIDE DEF data
    <3>4. WalkRight(p, data, "done")
      BY <3>2, <3>3 DEF WalksRight, WalkRight
    <3> QED BY <1>3, <2>1, <3>2, <3>3, <3>4
  <2> QED BY <2>2, <2>3
<1> QED BY <1>4, <1>5, <1>6, <1>7, <1>8, <1>9, <1>10

(* What was right for a version is right for a later one.                   *)
LEMMA RecordsGrow ==
    ASSUME NEW v \in Nat, NEW w \in Nat, v <= w, NEW r \in Record \union {None}, RecordRight(v, r)
    PROVE  RecordRight(w, r)
<1>1. CASE r = None
  BY <1>1 DEF RecordRight
<1>2. CASE r # None
  <2>1. r.sig \in Nat /\ r.text \in Nat \union {None}
    BY <1>2 DEF Record
  <2>2. r.sig <= w
    BY <1>2, <2>1 DEF RecordRight
  <2>3. CASE r.text = None
    <3>1. PICK u \in Undecodable : r.sig <= u /\ u <= v
      BY <1>2, <2>3 DEF RecordRight
    <3>2. u \in Nat
      BY Alternatives
    <3> QED BY <2>2, <2>3, <3>1, <3>2 DEF RecordRight
  <2>4. CASE r.text # None
    BY <1>2, <2>1, <2>2, <2>4 DEF RecordRight
  <2> QED BY <2>3, <2>4
<1> QED BY <1>1, <1>2

LEMMA RecordsStep == ASSUME ExactInv, [Next]_vars PROVE RecordsRight' /\ WalksRight'
<1>1. Types /\ TypeInv /\ RecordsRight /\ WalksRight
  BY DEF ExactInv, TypeInv
<1>2. ASSUME \A f \in Files : version'[f] \in Nat /\ version[f] <= version'[f],
             content' = content,
             \A q \in Invocations :
                /\ run'[q].data = run[q].data
                /\ \/ run'[q].pc = run[q].pc
                   \/ run[q].pc = "idle" /\ run'[q].pc = "open"
                   \/ run[q].pc = "install" /\ run'[q].pc = "undo"
      PROVE  RecordsRight' /\ WalksRight'
  <2>1. ASSUME NEW f \in Files
        PROVE  /\ \A d \in Dirs : RecordRight(version'[f], content'[d][f])
               /\ \A q \in Invocations : RecordRight(version'[f], run'[q].data.staged[f])
    <3>1. /\ version[f] \in Nat
          /\ \A d \in Dirs : content[d][f] \in Record \union {None}
          /\ \A q \in Invocations : Data(q).staged[f] \in Record \union {None}
      BY <1>1, Typed DEF Types, Records, Datas
    <3>2. /\ \A d \in Dirs : RecordRight(version[f], content[d][f])
          /\ \A q \in Invocations : RecordRight(version[f], Data(q).staged[f])
      BY <1>1 DEF RecordsRight
    <3>3. content' = content /\ \A q \in Invocations : run'[q].data.staged = Data(q).staged
      BY <1>2 DEF Data
    <3> QED BY <1>2, <3>1, <3>2, <3>3, RecordsGrow
  <2>2. RecordsRight'
    BY <2>1 DEF RecordsRight, Data
  <2>3. ASSUME NEW q \in Invocations
        PROVE  WalkRight(q, Data(q), run[q].pc)'
    <3>1. WalkRight(q, Data(q), run[q].pc)
      BY <1>1 DEF WalksRight
    <3>2. \A f \in Files : version[f] \in Nat /\ Data(q).walked[f] \in Nat
      BY <1>1, Typed DEF Types, Datas
    <3>3. run'[q].data = Data(q) /\ (run'[q].pc \in Unplanned => run[q].pc \in Unplanned)
      BY <1>2 DEF Data, Unplanned
    <3> QED BY <1>2, <3>1, <3>2, <3>3 DEF WalkRight, Data
  <2> QED BY <2>2, <2>3 DEF WalksRight
<1>3. CASE UNCHANGED vars
  BY <1>1, <1>2, <1>3 DEF Types, vars, files, dirs
<1>4. ASSUME NEW p \in Invocations, Start(p) PROVE RecordsRight' /\ WalksRight'
  BY <1>1, <1>2, <1>4, Started DEF Types, files, dirs
<1>8. ASSUME NEW p \in Invocations, InstallFails(p) PROVE RecordsRight' /\ WalksRight'
  <2>1. /\ version' = version /\ content' = content
        /\ \A q \in Invocations :
              /\ run'[q].data = run[q].data
              /\ run'[q].pc = run[q].pc \/ (run[q].pc = "install" /\ run'[q].pc = "undo")
    BY <1>1, <1>8, Failing DEF files, Data
  <2> QED BY <1>1, <1>2, <2>1 DEF Types
<1>5. ASSUME NEW p \in Invocations, Step(p) PROVE RecordsRight' /\ WalksRight'
  BY <1>1, <1>5, RecordsRebuild, RecordsRefresh DEF Step
<1>6. ASSUME NEW p \in Invocations, Crash(p) PROVE RecordsRight' /\ WalksRight'
  BY <1>1, <1>6, RecordsEnd DEF Crash
<1>7. ASSUME NEW f \in Files, WriteFile(f) \/ DeleteFile(f) \/ ChangePermissions(f)
      PROVE  RecordsRight' /\ WalksRight'
  <2>1. \A g \in Files : version'[g] \in Nat /\ version[g] <= version'[g]
    BY <1>1, <1>7 DEF Types, WriteFile, DeleteFile, ChangePermissions
  <2> QED BY <1>1, <1>2, <1>7, <2>1, FilesChanged DEF dirs
<1> QED BY <1>3, <1>4, <1>5, <1>6, <1>7, <1>8 DEF Next

-----------------------------------------------------------------------------
(* What a process that nothing disturbs has seen.                          *)

(* A step of another process concerns only those that ended.                *)
LEMMA SeenGoesOn ==
    ASSUME ExactInv, NEW p \in Invocations, Step(p) \/ InstallFails(p) \/ Crash(p), SeenBy(p)'
    PROVE  SeenExactly'
<1>1. ASSUME NEW q \in Invocations, q # p PROVE SeenBy(q)'
  <2>1. /\ p \in Active /\ run'[q] = run[q] /\ UNCHANGED files
    BY <1>1, StepMoves DEF ExactInv
  <2>2. ~run[q].disturbed => run[q].pc \in Ended
    BY <1>1, <2>1 DEF ExactInv, Alone, Active
  <2>3. SeenBy(q)
    BY DEF ExactInv, SeenExactly
  <2> QED BY <2>1, <2>2, <2>3 DEF SeenBy, Data, Ended, Indexable, files
<1> QED BY <1>1 DEF SeenExactly

LEMMA SeenElsewhere ==
    ASSUME ExactInv, NEW p \in Invocations, Step(p) \/ InstallFails(p) \/ Crash(p),
           run'[p].pc \notin {"plan", "lock", "load", "commit", "search", "done"}
    PROVE  SeenExactly'
<1>1. SeenBy(p)'
  BY DEF SeenBy
<1> QED BY <1>1, SeenGoesOn

LEMMA SameCurrent == ASSUME place' = place PROVE Current' = Current
  BY DEF Current, Installed

LEMMA SeenWalk == ASSUME ExactInv, NEW p \in Invocations, Walk(p) PROVE SeenBy(p)'
<1>1. Types /\ Data(p) \in Datas /\ UNCHANGED files
  BY Typed, StepMoves DEF ExactInv, TypeInv, Step
<1>2. PICK walked \in [Files -> Nat], complete \in BOOLEAN :
         /\ Keep(p, "plan", [Data(p) EXCEPT !.walked = walked, !.complete = complete])
         /\ \A f \in Files : (walked[f] = version[f] /\ f \in Scope[p] \cap present) \/ walked[f] = 0
         /\ complete => \A f \in Scope[p] \cap present : walked[f] = version[f]
  BY <1>1, WalkDoes
<1> DEFINE data == [Data(p) EXCEPT !.walked = walked, !.complete = complete]
<1>3. data \in Datas /\ data.walked = walked /\ data.complete = complete /\ Keep(p, "plan", data)
  BY <1>1, <1>2 DEF Datas
<1> HIDE DEF data
<1>4. run'[p].pc = "plan" /\ run'[p].data = data
  BY <1>1, <1>3, Kept DEF Labels
<1>5. complete => \A f \in Scope[p] : walked[f] = IF f \in present THEN version[f] ELSE 0
  BY <1>2, ScopesAndFormats
<1> QED BY <1>1, <1>3, <1>4, <1>5 DEF SeenBy, Data, files

(* With what the walk saw still true, a file that is neither indexed anew   *)
(* nor dropped is indexed exactly.                                          *)
LEMMA SeenPlan == ASSUME ExactInv, NEW p \in Invocations, Plan(p) PROVE SeenBy(p)'
<1>1. /\ Types /\ TypeInv /\ Data(p) \in Datas /\ run[p].pc = "plan"
      /\ UNCHANGED <<files, place, marker, content, damaged, crashes>>
  BY Typed, PlanDoes DEF ExactInv, TypeInv
<1>2. CASE Fail(p)
  <2>1. run'[p].pc = "failed"
    BY <1>1, <1>2, FreshTyped, Kept DEF Fail, Labels
  <2> QED BY <2>1 DEF SeenBy
<1>3. CASE ~Fail(p)
  <2>1. PICK d \in Dirs, todo, remove \in SUBSET Files, label \in {"search", "lock"} :
           /\ d = Current /\ ~damaged[d] /\ lock' = lock
           /\ Keep(p, label, [Data(p) EXCEPT !.todo = todo, !.remove = remove])
           /\ todo = Changed(Data(p).walked, content[d])
           /\ remove = IF Data(p).complete THEN Gone(p, Data(p).walked, content[d]) ELSE {}
           /\ label = IF todo \union remove = {} THEN "search" ELSE "lock"
    BY <1>1, <1>3, PlanDoes
  <2> DEFINE data == [Data(p) EXCEPT !.todo = todo, !.remove = remove]
  <2>2. /\ data \in Datas /\ data.walked = Data(p).walked /\ data.complete = Data(p).complete
        /\ data.todo = todo /\ data.remove = remove /\ Keep(p, label, data) /\ label \in Labels
    BY <1>1, <2>1 DEF Datas, Labels
  <2> HIDE DEF data
  <2>3. run'[p].pc = label /\ run'[p].data = data /\ run'[p].disturbed = run[p].disturbed
    BY <1>1, <2>2, Kept
  <2>4. ASSUME ~run[p].disturbed, Data(p).complete, NEW f \in Scope[p]
        PROVE  /\ Data(p).walked[f] = IF f \in present THEN version[f] ELSE 0
               /\ f \in todo => f \in present
               /\ f \in remove => f \notin present
               /\ f \notin todo \union remove => Exact(f \in present, version[f], content[d][f])
    <3>1. /\ f \in Files /\ version[f] \in Nat \ {0}
          /\ content[d][f] \in Record \union {None} /\ RecordRight(version[f], content[d][f])
      BY <1>1, ScopesAndFormats DEF Types, Records, ExactInv, RecordsRight
    <3>2. Data(p).walked[f] = IF f \in present THEN version[f] ELSE 0
      BY <1>1, <2>4 DEF ExactInv, SeenExactly, SeenBy
    <3>3. f \in todo => f \in present
      BY <2>1, <3>2 DEF Changed
    <3>4. f \in remove => f \notin present
      BY <2>1, <2>4, <3>1, <3>2 DEF Gone
    <3>5. ASSUME f \notin todo \union remove
          PROVE  Exact(f \in present, version[f], content[d][f])
      <4>1. CASE f \notin present
        BY <2>1, <2>4, <3>2, <3>5, <4>1 DEF Gone, Exact
      <4>2. CASE f \in present
        <5>1. content[d][f] # None /\ content[d][f].sig = version[f]
          BY <2>1, <3>1, <3>2, <3>5, <4>2 DEF Changed
        <5>2. content[d][f].text \in Nat \union {None}
          BY <3>1, <5>1 DEF Record
        <5>3. CASE content[d][f].text = None
          <6>1. PICK u \in Undecodable : version[f] <= u /\ u <= version[f]
            BY <3>1, <5>1, <5>3 DEF RecordRight
          <6>2. version[f] \in Undecodable
            BY <3>1, <6>1, Alternatives
          <6> QED BY <4>2, <5>1, <5>3, <6>2 DEF Exact
        <5>4. CASE content[d][f].text # None
          <6>1. content[d][f].text = version[f] /\ version[f] \notin Undecodable
            BY <3>1, <5>1, <5>2, <5>4 DEF RecordRight
          <6> QED BY <4>2, <5>1, <6>1 DEF Exact
        <5> QED BY <5>3, <5>4
      <4> QED BY <4>1, <4>2
    <3> QED BY <3>2, <3>3, <3>4, <3>5
  <2>5. /\ Current' = d /\ content' = content /\ present' = present /\ version' = version
        /\ unreadable' = unreadable
    BY <1>1, <2>1, SameCurrent DEF files
  <2> HIDE DEF Exact
  <2> QED BY <2>1, <2>2, <2>3, <2>4, <2>5 DEF SeenBy, Data
<1> QED BY <1>2, <1>3

(* Nobody else can hold the lock: its holder would be active too.           *)
LEMMA SeenAcquireWriter == ASSUME ExactInv, NEW p \in Invocations, AcquireWriter(p) PROVE SeenBy(p)'
<1>1. /\ Types /\ TypeInv /\ Data(p) \in Datas /\ run[p].pc = "lock"
      /\ UNCHANGED <<files, place, marker, content, damaged, crashes>>
  BY Typed, AcquireWriterDoes DEF ExactInv, TypeInv
<1>2. run[p].disturbed => run'[p].disturbed
  BY StepMoves DEF Step, ExactInv
<1>3. CASE Fail(p)
  <2>1. run'[p].pc = "failed"
    BY <1>1, <1>3, FreshTyped, Kept DEF Fail, Labels
  <2> QED BY <2>1 DEF SeenBy
<1>4. CASE /\ \E d \in Dirs : d = Current /\ lock[d] # None
  <2>1. PICK d \in Dirs : lock[d] # None
    BY <1>4
  <2>2. PICK q \in Invocations : lock[d] = q
    BY <1>1, <2>1 DEF Types
  <2>3. Data(q).writer = d /\ d # None
    BY <1>1, <2>2, NotADir DEF TypeInv, LocksHeld
  <2>4. run[q].pc \in {"load", "commit"}
    BY <1>1, <2>3 DEF TypeInv, LocksHeld
  <2>5. run[p].disturbed
    BY <1>1, <2>4 DEF ExactInv, Alone, Active, Ended
  <2> QED BY <1>2, <2>5 DEF SeenBy
<1>5. CASE ~Fail(p) /\ ~(\E d \in Dirs : d = Current /\ lock[d] # None)
  <2>1. PICK d \in Dirs, staged \in Records, based \in BOOLEAN :
           /\ d = Current /\ lock[d] = None /\ lock' = [lock EXCEPT ![d] = p]
           /\ Keep(p, "load", [Data(p) EXCEPT !.writer = d, !.based = based, !.staged = staged])
           /\ based = (content[d] # Empty)
           /\ \A f \in Files : staged[f] = IF f \in Data(p).todo \union Data(p).remove
                                           THEN None ELSE content[d][f]
    BY <1>1, <1>5, AcquireWriterDoes
  <2> DEFINE data == [Data(p) EXCEPT !.writer = d, !.based = based, !.staged = staged]
  <2>2. /\ data \in Datas /\ data.complete = Data(p).complete /\ data.staged = staged
        /\ data.todo = Data(p).todo /\ Keep(p, "load", data)
    BY <1>1, <2>1 DEF Datas
  <2> HIDE DEF data
  <2>3. run'[p].pc = "load" /\ run'[p].data = data
    BY <1>1, <2>2, Kept DEF Labels
  <2>4. ASSUME ~run[p].disturbed, Data(p).complete, NEW f \in Scope[p]
        PROVE  IF f \in Data(p).todo THEN f \in present
               ELSE Exact(f \in present, version[f], staged[f])
    <3>1. /\ f \in Files
          /\ f \in Data(p).todo => f \in present
          /\ f \in Data(p).remove => f \notin present
          /\ f \notin Data(p).todo \union Data(p).remove =>
                Exact(f \in present, version[f], content[d][f])
      BY <1>1, <2>1, <2>4, ScopesAndFormats DEF ExactInv, SeenExactly, SeenBy
    <3>2. f \in Data(p).remove /\ f \notin Data(p).todo => Exact(f \in present, version[f], staged[f])
      BY <2>1, <3>1 DEF Exact
    <3> QED BY <2>1, <3>1, <3>2
  <2>5. present' = present /\ version' = version /\ unreadable' = unreadable
    BY <1>1 DEF files
  <2> QED BY <1>2, <2>2, <2>3, <2>4, <2>5 DEF SeenBy, Data
<1> QED BY <1>3, <1>4, <1>5

LEMMA SeenLoad == ASSUME ExactInv, NEW p \in Invocations, Load(p) \/ Flush(p) PROVE SeenBy(p)'
<1>1. /\ Types /\ TypeInv /\ Data(p) \in Datas /\ run[p].pc = "load" /\ UNCHANGED files
  BY Typed, LoadDoes, FlushDoes DEF ExactInv, TypeInv
<1>2. run[p].disturbed => run'[p].disturbed
  BY StepMoves DEF Step, ExactInv
<1>3. ASSUME ~run[p].disturbed, Data(p).complete, NEW f \in Scope[p] \ unreadable
      PROVE  IF f \in Data(p).todo THEN f \in present
             ELSE Exact(f \in present, version[f], Data(p).staged[f])
  BY <1>1, <1>3 DEF ExactInv, SeenExactly, SeenBy
<1>4. present' = present /\ version' = version /\ unreadable' = unreadable
  BY <1>1 DEF files
<1>5. CASE Load(p)
  <2>1. PICK f \in Data(p).todo, staged \in Records, refused \in SUBSET Files :
           /\ Keep(p, "load", [Data(p) EXCEPT !.todo = Data(p).todo \ {f}, !.staged = staged,
                                             !.refused = refused])
           /\ staged[f] = Loaded(p, f)
           /\ \A g \in Files \ {f} : staged[g] = Data(p).staged[g]
    BY <1>1, <1>5, LoadDoes
  <2> DEFINE data == [Data(p) EXCEPT !.todo = Data(p).todo \ {f}, !.staged = staged, !.refused = refused]
  <2>2. /\ data \in Datas /\ data.complete = Data(p).complete /\ data.staged = staged
        /\ data.todo = Data(p).todo \ {f} /\ Keep(p, "load", data)
    BY <1>1, <2>1 DEF Datas
  <2> HIDE DEF data
  <2>3. run'[p].pc = "load" /\ run'[p].data = data
    BY <1>1, <2>2, Kept DEF Labels
  <2>4. ASSUME ~run[p].disturbed, Data(p).complete, NEW g \in Scope[p] \ unreadable
        PROVE  IF g \in data.todo THEN g \in present
               ELSE Exact(g \in present, version[g], staged[g])
    <3>1. g \in Files
      BY ScopesAndFormats
    <3>2. CASE g = f
      <4>1. f \in present /\ f \notin unreadable
        BY <1>3, <2>4, <3>2
      <4>2. /\ Loaded(p, f) = [sig |-> Data(p).walked[f],
                               text |-> IF version[f] \in Undecodable THEN None ELSE version[f]]
            /\ Data(p).walked[f] \in Nat /\ version[f] \in Nat
        BY <1>1, <3>1, <3>2, <4>1 DEF Loaded, Datas, Types
      <4>3. Loaded(p, f) # None /\ Loaded(p, f).text = IF version[f] \in Undecodable THEN None ELSE version[f]
        BY <4>2, Sentinels
      <4> QED BY <2>1, <2>2, <3>2, <4>1, <4>3 DEF Exact
    <3>3. CASE g # f
      BY <1>3, <2>1, <2>2, <2>4, <3>1, <3>3
    <3> QED BY <3>2, <3>3
  <2> QED BY <1>2, <1>4, <2>2, <2>3, <2>4 DEF SeenBy, Data
<1>6. CASE Flush(p)
  <2>1. Data(p).todo = {}
    BY <1>1, <1>6, FlushDoes
  <2>2. CASE Fail(p)
    <3>1. run'[p].pc = "failed"
      BY <1>1, <2>2, FreshTyped, Kept DEF Fail, Labels
    <3> QED BY <3>1 DEF SeenBy
  <2>3. CASE ~Fail(p)
    <3>1. PICK d \in Dirs : Keep(p, "commit", [Data(p) EXCEPT !.flushed = d])
      BY <1>1, <1>6, <2>3, FlushDoes
    <3> DEFINE data == [Data(p) EXCEPT !.flushed = d]
    <3>2. /\ data \in Datas /\ data.complete = Data(p).complete /\ data.staged = Data(p).staged
          /\ data.todo = {} /\ Keep(p, "commit", data)
      BY <1>1, <2>1, <3>1 DEF Datas
    <3> HIDE DEF data
    <3>3. run'[p].pc = "commit" /\ run'[p].data = data
      BY <1>1, <3>2, Kept DEF Labels
    <3> QED BY <1>2, <1>3, <1>4, <2>1, <3>2, <3>3 DEF SeenBy, Data
  <2> QED BY <2>2, <2>3
<1> QED BY <1>5, <1>6

LEMMA SeenCommit == ASSUME ExactInv, NEW p \in Invocations, Commit(p) PROVE SeenBy(p)'
<1>1. /\ Types /\ TypeInv /\ Data(p) \in Datas /\ run[p].pc = "commit"
      /\ UNCHANGED <<files, place, marker, crashes>>
  BY Typed, CommitDoes DEF ExactInv, TypeInv
<1>2. run[p].disturbed => run'[p].disturbed
  BY StepMoves DEF Step, ExactInv
<1>3. CASE Fail(p)
  <2>1. run'[p].pc = "failed"
    BY <1>1, <1>3, FreshTyped, Kept DEF Fail, Labels
  <2> QED BY <2>1 DEF SeenBy
<1>4. CASE ~Fail(p)
  <2>1. PICK d \in Dirs :
           /\ d = Current /\ (Data(p).based => d = Data(p).writer /\ ~damaged[d])
           /\ content' = [content EXCEPT ![d] = Data(p).staged]
           /\ damaged' = [damaged EXCEPT ![d] = (Data(p).flushed # d /\ Data(p).staged # Empty)]
           /\ lock' = Unlocked(p)
           /\ Keep(p, "search", [Data(p) EXCEPT !.writer = None, !.staged = Empty, !.based = FALSE,
                                               !.flushed = None, !.remove = {}])
    BY <1>1, <1>4, CommitDoes
  <2> DEFINE data == [Data(p) EXCEPT !.writer = None, !.staged = Empty, !.based = FALSE,
                                     !.flushed = None, !.remove = {}]
  <2>2. data \in Datas /\ data.complete = Data(p).complete /\ Keep(p, "search", data)
    BY <1>1, <2>1 DEF Datas, Empty, Records
  <2> HIDE DEF data
  <2>3. run'[p].pc = "search" /\ run'[p].data = data
    BY <1>1, <2>2, Kept DEF Labels
  <2>4. ASSUME ~run[p].disturbed, Data(p).complete, NEW f \in Scope[p] \ unreadable
        PROVE  Exact(f \in present, version[f], Data(p).staged[f])
    BY <1>1, <2>4 DEF ExactInv, SeenExactly, SeenBy
  <2>5. content'[d] = Data(p).staged /\ Current' = d
    BY <1>1, <2>1, SameCurrent DEF Types
  <2>6. present' = present /\ version' = version /\ unreadable' = unreadable
    BY <1>1 DEF files
  <2> QED BY <1>2, <2>2, <2>3, <2>4, <2>5, <2>6 DEF SeenBy, Data
<1> QED BY <1>3, <1>4

LEMMA SeenSearch == ASSUME ExactInv, NEW p \in Invocations, Search(p) PROVE SeenBy(p)'
<1>1. /\ Types /\ TypeInv /\ Data(p) \in Datas /\ run[p].pc = "search"
      /\ UNCHANGED <<files, place, marker, content, damaged, crashes>>
  BY Typed, SearchDoes DEF ExactInv, TypeInv
<1>2. run[p].disturbed => run'[p].disturbed
  BY StepMoves DEF Step, ExactInv
<1>3. CASE Fail(p)
  <2>1. run'[p].pc = "failed"
    BY <1>1, <1>3, FreshTyped, Kept DEF Fail, Labels
  <2> QED BY <2>1 DEF SeenBy
<1>4. CASE ~Fail(p)
  <2>1. PICK d \in Dirs, hits \in [Files -> Nat \union {None}] :
           /\ d = Current /\ lock' = lock
           /\ Keep(p, "done", [Data(p) EXCEPT !.hits = hits])
           /\ \A f \in Files : hits[f] = IF f \in Scope[p] /\ content[d][f] # None
                                         THEN content[d][f].text ELSE None
    BY <1>1, <1>4, SearchDoes
  <2> DEFINE data == [Data(p) EXCEPT !.hits = hits]
  <2>2. data \in Datas /\ data.complete = Data(p).complete /\ data.hits = hits /\ Keep(p, "done", data)
    BY <1>1, <2>1 DEF Datas
  <2> HIDE DEF data
  <2>3. run'[p].pc = "done" /\ run'[p].data = data
    BY <1>1, <2>2, Kept DEF Labels
  <2>4. ASSUME ~run[p].disturbed, Data(p).complete, NEW f \in Scope[p] \ unreadable
        PROVE  hits[f] = IF Indexable(f) THEN version[f] ELSE None
    <3>1. f \in Files /\ Exact(f \in present, version[f], content[d][f])
      BY <1>1, <2>1, <2>4, ScopesAndFormats DEF ExactInv, SeenExactly, SeenBy
    <3> QED BY <2>1, <3>1 DEF Exact, Indexable
  <2>5. present' = present /\ version' = version /\ unreadable' = unreadable
    BY <1>1 DEF files
  <2> QED BY <1>2, <2>2, <2>3, <2>4, <2>5 DEF SeenBy, Data, Indexable
<1> QED BY <1>3, <1>4

LEMMA SeenStep == ASSUME ExactInv, [Next]_vars PROVE SeenExactly'
<1>1. TypeInv /\ Types /\ SeenExactly
  BY DEF ExactInv, TypeInv
<1>2. CASE UNCHANGED vars
  BY <1>1, <1>2, SameCurrent DEF SeenExactly, SeenBy, Data, Indexable, vars, files, dirs
<1>3. ASSUME NEW p \in Invocations, Start(p) PROVE SeenExactly'
  <2>1. \A q \in Invocations : run'[q].disturbed \/ run'[q].pc = "open"
    BY <1>1, <1>3, Started
  <2> QED BY <2>1 DEF SeenExactly, SeenBy
<1>6. ASSUME NEW p \in Invocations, InstallFails(p) PROVE SeenExactly'
  <2>1. run'[p].pc = "undo"
    BY <1>1, <1>6, Failing
  <2> QED BY <1>1, <1>6, <2>1, SeenElsewhere
<1>4. ASSUME NEW p \in Invocations, Step(p) \/ Crash(p) PROVE SeenExactly'
  <2>1. Types /\ Fresh \in Datas /\ Data(p) \in Datas
    BY <1>1, FreshTyped, Typed
  <2>2. CASE \/ OpenIndex(p) \/ Build(p) \/ CheckOld(p) \/ MoveOld(p) \/ Install(p) \/ Conflict(p)
             \/ PutBack(p) \/ CheckMarker(p) \/ Reopen(p)
    <3>1. \A old \in Dirs \union {None} : [Data(p) EXCEPT !.old = old] \in Datas
      BY <2>1 DEF Datas
    <3>2. PICK label \in Labels \ {"plan", "lock", "load", "commit", "search", "done"}, data \in Datas :
             Keep(p, label, data)
      BY <1>1, <2>1, <2>2, <3>1, RebuildMoves DEF Labels
    <3>3. run'[p].pc = label
      BY <2>1, <3>2, Kept
    <3> QED BY <1>4, <3>2, <3>3, SeenElsewhere
  <2>3. CASE \/ Walk(p) \/ Plan(p) \/ AcquireWriter(p) \/ Load(p) \/ Flush(p) \/ Commit(p) \/ Search(p)
    BY <1>4, <2>3, SeenWalk, SeenPlan, SeenAcquireWriter, SeenLoad, SeenCommit, SeenSearch, SeenGoesOn
  <2>4. CASE Crash(p)
    <3>1. run'[p].pc = "crashed"
      BY <2>1, <2>4, Kept DEF Crash, Labels
    <3> QED BY <1>4, <3>1, SeenElsewhere
  <2> QED BY <1>4, <2>2, <2>3, <2>4 DEF Step
<1>5. ASSUME NEW f \in Files, WriteFile(f) \/ DeleteFile(f) \/ ChangePermissions(f) PROVE SeenExactly'
  BY <1>1, <1>5, FilesChanged DEF SeenExactly, SeenBy
<1> QED BY <1>2, <1>3, <1>4, <1>5, <1>6 DEF Next

LEMMA ExactAlways == Spec => []ExactInv
<1>1. ExactInv /\ [Next]_vars => ExactInv'
  BY TypesStep, RecordsStep, AloneStep, SeenStep DEF ExactInv
<1> QED BY <1>1, ExactBegin, PTL DEF Spec

(* A search that nothing disturbed, after a complete walk, returns what the *)
(* files say now, whatever crashed, was cut short or ran before it: its     *)
(* records were signed by a walk that read the same version or are replaced *)
(* by its own refresh, whose lock nobody else holds.                        *)
THEOREM UndisturbedExact == Spec => []UndisturbedSearchIsExact
<1>1. ExactInv => UndisturbedSearchIsExact
  BY DEF ExactInv, SeenExactly, SeenBy, UndisturbedSearchIsExact, At
<1> QED BY <1>1, ExactAlways, PTL

-----------------------------------------------------------------------------
(* One process at a time: nothing fails.  The directory it opened or made   *)
(* stays the installed one, its lock is free, and its segment and its       *)
(* metadata go to the same place.                                          *)
Solo == \A p, q \in Active : p = q

SoloRun(p) ==
    /\ run[p].pc \notin {"conflict", "check_marker"}
    /\ run[p].pc \in {"undo", "failed"} => run[p].disturbed
    /\ run[p].pc = "move_old" => Current # None
    /\ run[p].pc = "install"  => Current = None
    /\ run[p].pc = "reopen"   => Current = p /\ Data(p).old # p
    /\ run[p].pc \in {"walk", "plan", "lock", "search"} => Current # None
    /\ run[p].pc \in {"load", "commit"} => Current = Data(p).writer
    /\ run[p].pc = "commit" => Current = Data(p).flushed

SoloInv ==
    /\ RebuildInv /\ Solo
    /\ \A d \in Dirs : ~damaged[d]
    /\ \A p \in Invocations : SoloRun(p)

LEMMA SoloBegin == Init => SoloInv
<1> SUFFICES ASSUME Init PROVE SoloInv
  OBVIOUS
<1>1. \A p \in Invocations : run[p].pc = "idle"
  BY DEF Init
<1>2. Solo /\ \A p \in Invocations : SoloRun(p)
  BY <1>1 DEF Solo, SoloRun, Active, Ended
<1> QED BY <1>2, RebuildBegin DEF SoloInv, Init

(* A step of the process that runs, the others being idle or at their end.  *)
LEMMA SoloGoesOn ==
    ASSUME SoloInv, RebuildInv', NEW p \in Invocations, Step(p) \/ InstallFails(p) \/ Crash(p), SoloRun(p)',
           \A d \in Dirs : ~damaged'[d]
    PROVE  SoloInv'
<1>1. /\ p \in Active
      /\ \A q \in Invocations \ {p} : run'[q] = run[q]
  BY StepMoves DEF SoloInv, RebuildInv
<1>2. \A q \in Invocations \ {p} : run[q].pc \in Ended
  BY <1>1 DEF SoloInv, Solo, Active
<1>3. Solo'
  BY <1>1, <1>2 DEF Solo, Active
<1>4. ASSUME NEW q \in Invocations, q # p PROVE SoloRun(q)'
  <2>1. /\ run'[q].pc \in Ended
        /\ run'[q].pc = "failed" => run'[q].disturbed
    BY <1>1, <1>2, <1>4 DEF SoloInv, SoloRun
  <2> QED BY <2>1 DEF SoloRun, Ended
<1> QED BY <1>3, <1>4 DEF SoloInv

LEMMA SoloRebuild ==
    ASSUME SoloInv, RebuildInv', NEW p \in Invocations,
           \/ OpenIndex(p) \/ Build(p) \/ CheckOld(p) \/ MoveOld(p) \/ Install(p) \/ Conflict(p)
           \/ PutBack(p) \/ CheckMarker(p) \/ Reopen(p)
    PROVE  SoloInv'
<1>1. /\ Types /\ OneInstalled /\ Types' /\ OneInstalled' /\ TypeInv
      /\ p \in Dirs /\ Data(p) \in Datas /\ SoloRun(p) /\ p # None /\ RebuildInv
  BY Typed, NotADir DEF SoloInv, RebuildInv, TypeInv, Dirs
<1>2. \A d \in Dirs : ~damaged'[d]
  BY <1>1, RebuildMoves DEF SoloInv
<1>3. ASSUME SoloRun(p)' PROVE SoloInv'
  BY <1>2, <1>3, SoloGoesOn DEF Step
<1>4. ASSUME NEW label \in Labels, Goto(p, label)
      PROVE  run'[p].pc = label /\ run'[p].data = Data(p)
  <2>1. Keep(p, label, Data(p))
    BY <1>1, <1>4, Went
  <2> QED BY <1>1, <2>1, Kept
<1>5. CASE OpenIndex(p)
  <2>1. place' = place
    BY <1>5 DEF OpenIndex, dirs
  <2>2. run'[p].pc = "build" \/ (run'[p].pc = "walk" /\ Current # None)
    BY <1>4, <1>5 DEF OpenIndex, Labels
  <2> QED BY <1>3, <2>1, <2>2, SameCurrent DEF SoloRun
<1>6. CASE Build(p)
  <2>1. run'[p].pc = "check_old"
    BY <1>4, <1>6 DEF Build, Labels
  <2> QED BY <1>3, <2>1 DEF SoloRun
<1>7. CASE CheckOld(p)
  <2>1. place' = place
    BY <1>7 DEF CheckOld, dirs
  <2>2. (run'[p].pc = "install" /\ Current = None) \/ (run'[p].pc = "move_old" /\ Current # None)
    BY <1>4, <1>7 DEF CheckOld, Labels
  <2> QED BY <1>3, <2>1, <2>2, SameCurrent DEF SoloRun
<1>8. CASE MoveOld(p)
  <2>1. run[p].pc = "move_old" /\ Current # None
    BY <1>1, <1>8 DEF MoveOld, At, SoloRun
  <2>2. PICK d \in Dirs : d = Current /\ place[d] = "search"
    BY <1>1, <2>1, CurrentIs
  <2> DEFINE data == [Data(p) EXCEPT !.old = d]
  <2>3. place' = [place EXCEPT ![d] = "old"] /\ Keep(p, "install", data)
    BY <1>8, <2>1, <2>2 DEF MoveOld
  <2>4. data \in Datas
    BY <1>1 DEF Datas
  <2> HIDE DEF data
  <2>5. run'[p].pc = "install"
    BY <1>1, <2>3, <2>4, Kept DEF Labels
  <2>6. \A e \in Dirs : place'[e] # "search"
    BY <1>1, <2>2, <2>3 DEF Types, OneInstalled, Installed
  <2>7. Current' = None
    BY <1>1, <2>6, NothingInstalled
  <2> QED BY <1>3, <2>5, <2>7 DEF SoloRun
<1>9. CASE Install(p)
  <2>1. run[p].pc = "install" /\ Current = None
    BY <1>1, <1>9 DEF Install, At, SoloRun
  <2>2. place' = [place EXCEPT ![p] = "search"] /\ run'[p].pc = "reopen" /\ run'[p].data = Data(p)
    BY <1>4, <1>9, <2>1 DEF Install, Labels
  <2>3. Current' = p
    BY <1>1, <2>2, SomethingInstalled DEF Types
  <2>4. Data(p).old # p
    BY <1>1, <2>1, Placed DEF Replacing
  <2> QED BY <1>3, <2>2, <2>3, <2>4 DEF SoloRun, Data
<1>12. CASE PutBack(p)
  <2>1. Keep(p, "failed", Fresh) /\ run[p].disturbed
    BY <1>1, <1>12 DEF PutBack, Fail, At, SoloRun
  <2>2. run'[p].pc = "failed" /\ run'[p].disturbed
    BY <1>1, <2>1, FreshTyped, Kept DEF Labels
  <2> QED BY <1>3, <2>2 DEF SoloRun
<1>10. CASE Conflict(p) \/ CheckMarker(p)
  BY <1>1, <1>10 DEF Conflict, CheckMarker, At, SoloRun
<1>11. CASE Reopen(p)
  <2>1. run[p].pc = "reopen" /\ Current = p /\ Data(p).old # p
    BY <1>1, <1>11 DEF Reopen, At, SoloRun
  <2> DEFINE data == [Data(p) EXCEPT !.old = None]
  <2>2. Keep(p, "walk", data)
    BY <1>1, <1>11, <2>1 DEF Reopen
  <2>3. data \in Datas
    BY <1>1 DEF Datas
  <2> HIDE DEF data
  <2>4. run'[p].pc = "walk"
    BY <1>1, <2>2, <2>3, Kept DEF Labels
  <2>5. place[p] = "search"
    BY <1>1, <2>1, CurrentIs
  <2>6. place'[p] = "search"
    BY <1>1, <1>11, <2>1, <2>5 DEF Reopen
  <2>7. Current' = p
    BY <1>1, <2>6, SomethingInstalled
  <2> QED BY <1>1, <1>3, <2>4, <2>7 DEF SoloRun
<1> QED BY <1>5, <1>6, <1>7, <1>8, <1>9, <1>10, <1>11, <1>12

LEMMA SoloRefresh ==
    ASSUME SoloInv, RebuildInv', NEW p \in Invocations,
           \/ Walk(p) \/ Plan(p) \/ AcquireWriter(p) \/ Load(p) \/ Flush(p) \/ Commit(p) \/ Search(p)
    PROVE  SoloInv'
<1>1. /\ Types /\ OneInstalled /\ TypeInv /\ Data(p) \in Datas /\ SoloRun(p)
      /\ p \in Active /\ (Current # None => Current \in Dirs)
      /\ \A d \in Dirs : ~damaged[d]
  BY Typed, CurrentIs, StepMoves DEF SoloInv, RebuildInv, TypeInv, Step
<1>2. ASSUME SoloRun(p)', \A d \in Dirs : ~damaged'[d] PROVE SoloInv'
  BY <1>2, SoloGoesOn DEF Step
<1>3. place' = place /\ Current' = Current
  <2>1. place' = place
    BY DEF Walk, Plan, AcquireWriter, Load, Flush, Commit, Search, dirs
  <2> QED BY <2>1, SameCurrent
<1>4. CASE Walk(p)
  <2>1. run[p].pc = "walk" /\ damaged' = damaged
    BY <1>4 DEF Walk, At, dirs
  <2>2. PICK walked \in [Files -> Nat], complete \in BOOLEAN :
           /\ Keep(p, "plan", [Data(p) EXCEPT !.walked = walked, !.complete = complete])
           /\ \A f \in Files : (walked[f] = version[f] /\ f \in Scope[p] \cap present) \/ walked[f] = 0
           /\ complete => \A f \in Scope[p] \cap present : walked[f] = version[f]
    BY <1>1, <1>4, WalkDoes
  <2>3. [Data(p) EXCEPT !.walked = walked, !.complete = complete] \in Datas
    BY <1>1 DEF Datas
  <2>4. run'[p].pc = "plan"
    BY <1>1, <2>2, <2>3, Kept DEF Labels
  <2> QED BY <1>1, <1>2, <1>3, <2>1, <2>4 DEF SoloRun
<1>5. CASE Plan(p)
  <2>1. run[p].pc = "plan" /\ damaged' = damaged
    BY <1>1, <1>5, PlanDoes
  <2>2. Current # None /\ Readable(Current)
    BY <1>1, <2>1 DEF SoloRun, Readable
  <2>3. PICK d \in Dirs, todo, remove \in SUBSET Files, label \in {"search", "lock"} :
           /\ d = Current /\ ~damaged[d] /\ lock' = lock
           /\ Keep(p, label, [Data(p) EXCEPT !.todo = todo, !.remove = remove])
           /\ todo = Changed(Data(p).walked, content[d])
           /\ remove = IF Data(p).complete THEN Gone(p, Data(p).walked, content[d]) ELSE {}
           /\ label = IF todo \union remove = {} THEN "search" ELSE "lock"
    BY <1>1, <1>5, <2>2, PlanDoes
  <2>4. [Data(p) EXCEPT !.todo = todo, !.remove = remove] \in Datas
    BY <1>1 DEF Datas
  <2>5. run'[p].pc = label
    BY <1>1, <2>3, <2>4, Kept DEF Labels
  <2> QED BY <1>1, <1>2, <1>3, <2>1, <2>2, <2>5 DEF SoloRun
<1>6. CASE AcquireWriter(p)
  <2>1. run[p].pc = "lock" /\ damaged' = damaged
    BY <1>1, <1>6, AcquireWriterDoes
  <2>2. Current # None
    BY <1>1, <2>1 DEF SoloRun
  <2>3. lock[Current] = None
    <3> SUFFICES ASSUME lock[Current] # None PROVE FALSE
      OBVIOUS
    <3>1. PICK d \in Dirs, q \in Invocations : d = Current /\ lock[d] = q
      BY <1>1, <2>2 DEF Types
    <3>2. Data(q).writer = d /\ d # None
      BY <1>1, <3>1, NotADir DEF TypeInv, LocksHeld
    <3>3. run[q].pc \in {"load", "commit"}
      BY <1>1, <3>2 DEF TypeInv, LocksHeld
    <3> QED BY <1>1, <2>1, <3>3 DEF SoloInv, Solo, Active, Ended
  <2>4. PICK d \in Dirs, staged \in Records, based \in BOOLEAN :
           /\ d = Current /\ lock[d] = None /\ lock' = [lock EXCEPT ![d] = p]
           /\ Keep(p, "load", [Data(p) EXCEPT !.writer = d, !.based = based, !.staged = staged])
           /\ based = (content[d] # Empty)
           /\ \A f \in Files : staged[f] = IF f \in Data(p).todo \union Data(p).remove
                                           THEN None ELSE content[d][f]
    BY <1>1, <1>6, <2>2, <2>3, AcquireWriterDoes
  <2> DEFINE data == [Data(p) EXCEPT !.writer = d, !.based = based, !.staged = staged]
  <2>5. data \in Datas /\ data.writer = d /\ Keep(p, "load", data)
    BY <1>1, <2>4 DEF Datas
  <2> HIDE DEF data
  <2>6. run'[p].pc = "load" /\ run'[p].data = data
    BY <1>1, <2>5, Kept DEF Labels
  <2> QED BY <1>1, <1>2, <1>3, <2>1, <2>4, <2>5, <2>6 DEF SoloRun, Data
<1>7. CASE Load(p)
  <2>1. run[p].pc = "load" /\ damaged' = damaged
    BY <1>1, <1>7, LoadDoes DEF dirs
  <2>2. PICK f \in Data(p).todo, staged \in Records, refused \in SUBSET Files :
           /\ Keep(p, "load", [Data(p) EXCEPT !.todo = Data(p).todo \ {f}, !.staged = staged,
                                             !.refused = refused])
           /\ staged[f] = Loaded(p, f)
           /\ \A g \in Files \ {f} : staged[g] = Data(p).staged[g]
    BY <1>1, <1>7, LoadDoes
  <2> DEFINE data == [Data(p) EXCEPT !.todo = Data(p).todo \ {f}, !.staged = staged, !.refused = refused]
  <2>3. data \in Datas /\ data.writer = Data(p).writer /\ Keep(p, "load", data)
    BY <1>1, <2>2 DEF Datas
  <2> HIDE DEF data
  <2>4. run'[p].pc = "load" /\ run'[p].data = data
    BY <1>1, <2>3, Kept DEF Labels
  <2> QED BY <1>1, <1>2, <1>3, <2>1, <2>3, <2>4 DEF SoloRun, Data
<1>8. CASE Flush(p)
  <2>1. run[p].pc = "load" /\ damaged' = damaged
    BY <1>1, <1>8, FlushDoes
  <2>2. Current = Data(p).writer /\ Data(p).writer # None
    BY <1>1, <2>1 DEF SoloRun, TypeInv, LocksHeld, Active
  <2>3. PICK d \in Dirs : /\ d = Current /\ lock' = lock
                          /\ Keep(p, "commit", [Data(p) EXCEPT !.flushed = d])
    BY <1>1, <1>8, <2>2, FlushDoes
  <2> DEFINE data == [Data(p) EXCEPT !.flushed = d]
  <2>4. /\ data \in Datas /\ data.writer = Data(p).writer /\ data.flushed = d
        /\ Keep(p, "commit", data)
    BY <1>1, <2>3 DEF Datas
  <2> HIDE DEF data
  <2>5. run'[p].pc = "commit" /\ run'[p].data = data
    BY <1>1, <2>4, Kept DEF Labels
  <2> QED BY <1>1, <1>2, <1>3, <2>1, <2>2, <2>3, <2>4, <2>5 DEF SoloRun, Data
<1>9. CASE Commit(p)
  <2>1. run[p].pc = "commit"
    BY <1>1, <1>9, CommitDoes
  <2>2. Current = Data(p).writer /\ Current = Data(p).flushed /\ Current # None /\ ~damaged[Current]
    BY <1>1, <2>1 DEF SoloRun, TypeInv, LocksHeld, Active
  <2>3. PICK d \in Dirs :
           /\ d = Current /\ (Data(p).based => d = Data(p).writer /\ ~damaged[d])
           /\ content' = [content EXCEPT ![d] = Data(p).staged]
           /\ damaged' = [damaged EXCEPT ![d] = (Data(p).flushed # d /\ Data(p).staged # Empty)]
           /\ lock' = Unlocked(p)
           /\ Keep(p, "search", [Data(p) EXCEPT !.writer = None, !.staged = Empty, !.based = FALSE,
                                               !.flushed = None, !.remove = {}])
    BY <1>1, <1>9, <2>2, CommitDoes
  <2>4. \A e \in Dirs : ~damaged'[e]
    BY <1>1, <2>2, <2>3 DEF Types
  <2>5. [Data(p) EXCEPT !.writer = None, !.staged = Empty, !.based = FALSE, !.flushed = None,
                        !.remove = {}] \in Datas
    BY <1>1 DEF Datas, Empty, Records
  <2>6. run'[p].pc = "search"
    BY <1>1, <2>3, <2>5, Kept DEF Labels
  <2> QED BY <1>2, <1>3, <2>2, <2>4, <2>6 DEF SoloRun
<1>10. CASE Search(p)
  <2>1. run[p].pc = "search" /\ damaged' = damaged
    BY <1>1, <1>10, SearchDoes
  <2>2. Readable(Current)
    BY <1>1, <2>1 DEF SoloRun, Readable
  <2>3. PICK d \in Dirs, hits \in [Files -> Nat \union {None}] :
           /\ d = Current /\ lock' = lock
           /\ Keep(p, "done", [Data(p) EXCEPT !.hits = hits])
           /\ \A f \in Files : hits[f] = IF f \in Scope[p] /\ content[d][f] # None
                                         THEN content[d][f].text ELSE None
    BY <1>1, <1>10, <2>2, SearchDoes
  <2>4. [Data(p) EXCEPT !.hits = hits] \in Datas
    BY <1>1 DEF Datas
  <2>5. run'[p].pc = "done"
    BY <1>1, <2>3, <2>4, Kept DEF Labels
  <2> QED BY <1>1, <1>2, <2>1, <2>5 DEF SoloRun
<1> QED BY <1>4, <1>5, <1>6, <1>7, <1>8, <1>9, <1>10

LEMMA SoloStep ==
    ASSUME MaxActive <= 1, SoloInv, [Next]_vars
    PROVE  SoloInv'
<1>1. RebuildInv' /\ TypeInv /\ Types
  BY RebuildStep DEF SoloInv, RebuildInv, TypeInv
<1>2. CASE UNCHANGED vars
  <2>1. Current' = Current /\ damaged' = damaged /\ run' = run
    BY <1>2, SameCurrent DEF vars, dirs
  <2> QED BY <1>1, <2>1 DEF SoloInv, Solo, SoloRun, Active, Data
<1>3. ASSUME NEW p \in Invocations, Start(p) PROVE SoloInv'
  <2>1. Active = {}
    <3>1. Cardinality(Active) < MaxActive /\ MaxActive \in Nat
      BY <1>3, BoundsAreNatural DEF Start
    <3> SUFFICES ASSUME NEW q \in Active PROVE FALSE
      OBVIOUS
    <3>2. Active = {q}
      BY DEF SoloInv, Solo
    <3>3. Cardinality(Active) = 1
      BY <3>2, FS_Singleton
    <3> QED BY <3>1, <3>3
  <2>2. /\ run'[p].pc = "open"
        /\ \A q \in Invocations \ {p} : run'[q].pc = run[q].pc /\ run'[q].disturbed
        /\ damaged' = damaged
    BY <1>1, <1>3, Started DEF dirs
  <2>3. \A q \in Invocations \ {p} : run'[q].pc \in Ended
    BY <2>1, <2>2 DEF Active
  <2>4. Solo'
    BY <2>3 DEF Solo, Active
  <2>5. \A q \in Invocations : SoloRun(q)'
    BY <2>2, <2>3 DEF SoloRun, Ended
  <2> QED BY <1>1, <2>2, <2>4, <2>5 DEF SoloInv
<1>4. ASSUME NEW p \in Invocations, Step(p) PROVE SoloInv'
  BY <1>1, <1>4, SoloRebuild, SoloRefresh DEF Step
<1>5. ASSUME NEW p \in Invocations, Crash(p) PROVE SoloInv'
  <2>1. run'[p].pc = "crashed" /\ damaged' = damaged
    BY <1>1, <1>5, FreshTyped, Kept DEF Crash, Labels
  <2>2. SoloRun(p)'
    BY <2>1 DEF SoloRun
  <2> QED BY <1>1, <1>5, <2>1, <2>2, SoloGoesOn DEF SoloInv
<1>6. ASSUME NEW f \in Files, WriteFile(f) \/ DeleteFile(f) \/ ChangePermissions(f) PROVE SoloInv'
  <2>1. /\ \A q \in Invocations :
              run'[q].pc = run[q].pc /\ run'[q].data = run[q].data /\ run'[q].disturbed
        /\ damaged' = damaged /\ Current' = Current
    BY <1>1, <1>6, FilesChanged, SameCurrent DEF dirs
  <2> QED BY <1>1, <2>1 DEF SoloInv, Solo, SoloRun, Active, Data
<1>7. ASSUME NEW p \in Invocations, InstallFails(p) PROVE SoloInv'
  <2>1. run'[p].pc = "undo" /\ run'[p].disturbed /\ damaged' = damaged
    BY <1>1, <1>7, Failing
  <2>2. SoloRun(p)'
    BY <2>1 DEF SoloRun
  <2> QED BY <1>1, <1>7, <2>1, <2>2, SoloGoesOn DEF SoloInv
<1> QED BY <1>2, <1>3, <1>4, <1>5, <1>6, <1>7 DEF Next

(* Processes that run one after the other never fail unless the file system *)
(* fails them: what an earlier one left of the index, killed at any point,  *)
(* is opened or rebuilt.  The                                               *)
(* hypothesis is needed, a race can leave a damaged index behind.           *)
THEOREM SoloSearchSucceeds ==
    ASSUME MaxActive <= 1
    PROVE  Spec => []UndisturbedSearchSucceeds
<1>1. SoloInv /\ [Next]_vars => SoloInv'
  BY SoloStep
<1>2. SoloInv => UndisturbedSearchSucceeds
  BY DEF SoloInv, SoloRun, UndisturbedSearchSucceeds, At
<1> QED BY <1>1, <1>2, SoloBegin, PTL DEF Spec

-----------------------------------------------------------------------------
(***************************************************************************)
(* Refreshes of one version of outlint only move an index forward, and no  *)
(* search shows a file as it was before its own walk, for any number of    *)
(* processes, files, changes and crashes.                                  *)
(***************************************************************************)

(* One version of outlint and an index it made: nobody rebuilds.  A rebuild *)
(* that races with a refresh can move the index away between its steps.     *)
SameVersion == Original # None /\ \A p \in Invocations : Format[p] = Original

SteadyRun(label, data) ==
    /\ label \in {"idle", "open", "walk", "plan", "lock", "load", "commit", "search",
                  "done", "failed", "crashed"}
    /\ data.writer \in {None, Initial}
    /\ data.skipped => label \in {"search", "done"}
    /\ label \in {"commit", "search"} => data.todo = {}
    /\ label = "done" /\ ~data.skipped =>
          \A f \in Files : data.hits[f] # None => data.hits[f] >= data.walked[f]

Steady ==
    /\ \A d \in Dirs : place[d] = "search" <=> d = Initial
    /\ marker[Initial] = Original
    /\ \A p \in Invocations : SteadyRun(run[p].pc, Data(p))

(* The text of a record, if it has one, is not older than a version.        *)
NotOlder(r, v) == r # None /\ r.text # None => r.text >= v

Writing(p) == run[p].pc \in {"load", "commit"}

(* What a writer has prepared differs from what is indexed only in its own  *)
(* files, and is older neither than what is indexed nor than its walk.      *)
Prepared(p, f, data, indexed) ==
    /\ data.staged[f] # indexed => f \in Scope[p] /\ (data.walked[f] = 0 => data.complete)
    /\ indexed # None => /\ NotOlder(data.staged[f], indexed.sig)
                         /\ indexed.text # None => NotOlder(data.staged[f], indexed.text)
    /\ NotOlder(data.staged[f], data.walked[f])

PreparedAhead ==
    \A p \in Invocations, f \in Files :
        Writing(p) => Prepared(p, f, Data(p), content[Initial][f])

(* What a process found up to date stays so, whoever commits meanwhile.     *)
FoundUpToDate(label, data, f) == label \in {"lock", "search"} /\ ~data.skipped /\ f \notin data.todo

UpToDate ==
    \A p \in Invocations, f \in Files : FoundUpToDate(run[p].pc, Data(p), f) =>
        /\ NotOlder(content[Initial][f], Data(p).walked[f])
        /\ \A q \in Invocations : Writing(q) => NotOlder(Data(q).staged[f], Data(p).walked[f])

AdvanceInv == ExactInv /\ Steady /\ PreparedAhead /\ UpToDate

LEMMA AdvanceBegin == ASSUME SameVersion, Init PROVE AdvanceInv
<1>1. /\ Initial \in Dirs /\ ExactInv
      /\ \A p \in Invocations : Data(p) = Fresh /\ run[p].pc = "idle"
      /\ Fresh.writer = None /\ ~Fresh.skipped
  BY ExactBegin DEF Init, Data, Dirs, Fresh
<1>2. Steady
  BY <1>1 DEF SameVersion, Init, Steady, SteadyRun
<1>3. PreparedAhead /\ UpToDate
  BY <1>1 DEF PreparedAhead, UpToDate, FoundUpToDate, Writing
<1> QED BY <1>1, <1>2, <1>3 DEF AdvanceInv

LEMMA SteadyCurrent == ASSUME Types, OneInstalled, Steady PROVE Current = Initial /\ Initial \in Dirs
<1>1. Initial \in Dirs
  BY DEF Dirs
<1> QED BY <1>1, CurrentIs DEF Steady

(* Only one process writes at a time.                                       *)
LEMMA OneWriter ==
    ASSUME TypeInv, Steady, NEW p \in Invocations, NEW q \in Invocations, Writing(p), Writing(q)
    PROVE  p = q
<1>1. Data(p).writer = Initial /\ Data(q).writer = Initial /\ Initial \in Dirs
  BY DEF TypeInv, LocksHeld, Writing, Steady, SteadyRun, Dirs
<1> QED BY <1>1 DEF TypeInv, LocksHeld

-----------------------------------------------------------------------------
(* A step of a process that commits nothing.                                *)
Fits(p, label, data) ==
    /\ SteadyRun(label, data)
    /\ label \in {"load", "commit"} => \A f \in Files : Prepared(p, f, data, content[Initial][f])
    /\ \A f \in Files : FoundUpToDate(label, data, f) => NotOlder(content[Initial][f], data.walked[f])
    /\ \A q \in Invocations \ {p}, f \in Files :
          /\ label \in {"load", "commit"} /\ FoundUpToDate(run[q].pc, Data(q), f) =>
                NotOlder(data.staged[f], Data(q).walked[f])
          /\ FoundUpToDate(label, data, f) /\ Writing(q) =>
                NotOlder(Data(q).staged[f], data.walked[f])

LEMMA FittingStep ==
    ASSUME AdvanceInv, NEW p \in Invocations, NEW label \in Labels, NEW data \in Datas,
           Keep(p, label, data), UNCHANGED <<place, marker, content>>, Fits(p, label, data)
    PROVE  Steady' /\ PreparedAhead' /\ UpToDate'
<1>1. /\ run'[p].pc = label /\ run'[p].data = data
      /\ \A q \in Invocations \ {p} : run'[q] = run[q]
  BY Kept DEF AdvanceInv, ExactInv, TypeInv
<1>2. \A q \in Invocations : SteadyRun(run'[q].pc, run'[q].data)
  BY <1>1 DEF AdvanceInv, Steady, Fits, Data
<1>3. Steady'
  BY <1>2 DEF AdvanceInv, Steady, SteadyRun, Data
<1>4. ASSUME NEW q \in Invocations, NEW f \in Files, run'[q].pc \in {"load", "commit"}
      PROVE  Prepared(q, f, run'[q].data, content[Initial][f])
  BY <1>1, <1>4 DEF AdvanceInv, PreparedAhead, Writing, Fits, Data
<1>5. PreparedAhead'
  BY <1>4 DEF PreparedAhead, Prepared, NotOlder, Writing, Data
<1>6. ASSUME NEW q \in Invocations, NEW f \in Files, FoundUpToDate(run'[q].pc, run'[q].data, f)
      PROVE  /\ NotOlder(content[Initial][f], run'[q].data.walked[f])
             /\ \A x \in Invocations : run'[x].pc \in {"load", "commit"} =>
                                          NotOlder(run'[x].data.staged[f], run'[q].data.walked[f])
  <2>1. CASE q = p
    <3>1. label \notin {"load", "commit"}
      BY <1>1, <1>6, <2>1 DEF FoundUpToDate
    <3>2. FoundUpToDate(label, data, f) /\ run'[q].data = data
      BY <1>1, <1>6, <2>1
    <3>3. NotOlder(content[Initial][f], data.walked[f])
      BY <3>2 DEF Fits
    <3>4. ASSUME NEW x \in Invocations, run'[x].pc \in {"load", "commit"}
          PROVE  NotOlder(run'[x].data.staged[f], data.walked[f])
      <4>1. x # p /\ run'[x] = run[x]
        BY <1>1, <3>1, <3>4
      <4> QED BY <3>2, <3>4, <4>1 DEF Fits, Writing, Data
    <3> QED BY <3>2, <3>3, <3>4
  <2>2. CASE q # p
    BY <1>1, <1>6, <2>2 DEF AdvanceInv, UpToDate, Fits, Writing, Data
  <2> QED BY <2>1, <2>2
<1>7. UpToDate'
  BY <1>6 DEF UpToDate, FoundUpToDate, NotOlder, Writing, Data
<1> QED BY <1>3, <1>5, <1>7

(* With the index of its own version in place, a process rebuilds nothing.  *)
LEMMA NoRebuild ==
    ASSUME SameVersion, AdvanceInv, NEW p \in Invocations,
           \/ OpenIndex(p) \/ Build(p) \/ CheckOld(p) \/ MoveOld(p) \/ Install(p) \/ Conflict(p)
           \/ PutBack(p) \/ CheckMarker(p) \/ Reopen(p)
    PROVE  Steady' /\ PreparedAhead' /\ UpToDate'
<1>1. /\ Types /\ OneInstalled /\ Data(p) \in Datas
      /\ Current = Initial /\ Initial \in Dirs /\ Initial # None
      /\ SteadyRun(run[p].pc, Data(p)) /\ marker[Initial] = Format[p]
  BY Typed, SteadyCurrent, NotADir DEF AdvanceInv, ExactInv, TypeInv, Steady, SameVersion
<1>2. OpenIndex(p)
  BY <1>1 DEF SteadyRun, Build, CheckOld, MoveOld, Install, Conflict, PutBack, CheckMarker, Reopen, At
<1>3. /\ Keep(p, "walk", Data(p)) /\ run[p].pc = "open"
      /\ UNCHANGED <<place, marker, content>>
  BY <1>1, <1>2, Went DEF OpenIndex, At, Labels, dirs
<1>4. Fits(p, "walk", Data(p))
  BY <1>1, <1>3 DEF Fits, SteadyRun, FoundUpToDate
<1> QED BY <1>1, <1>3, <1>4, FittingStep DEF Labels

(* A process that ends leaves the others as they are.                       *)
LEMMA AdvanceEnd ==
    ASSUME AdvanceInv, NEW p \in Invocations, NEW label \in {"failed", "crashed"},
           Keep(p, label, Fresh), UNCHANGED <<place, marker, content>>
    PROVE  Steady' /\ PreparedAhead' /\ UpToDate'
<1>1. Fits(p, label, Fresh)
  BY DEF Fits, SteadyRun, FoundUpToDate, Fresh
<1> QED BY <1>1, FreshTyped, FittingStep DEF Labels

LEMMA AdvanceWalk ==
    ASSUME AdvanceInv, NEW p \in Invocations, Walk(p)
    PROVE  Steady' /\ PreparedAhead' /\ UpToDate'
<1>1. /\ Types /\ Data(p) \in Datas /\ run[p].pc = "walk" /\ UNCHANGED <<place, marker, content>>
      /\ SteadyRun(run[p].pc, Data(p))
  BY Typed DEF AdvanceInv, ExactInv, TypeInv, Steady, Walk, At, dirs
<1>2. PICK walked \in [Files -> Nat], complete \in BOOLEAN :
         /\ Keep(p, "plan", [Data(p) EXCEPT !.walked = walked, !.complete = complete])
         /\ \A f \in Files : (walked[f] = version[f] /\ f \in Scope[p] \cap present) \/ walked[f] = 0
         /\ complete => \A f \in Scope[p] \cap present : walked[f] = version[f]
  BY <1>1, WalkDoes
<1> DEFINE data == [Data(p) EXCEPT !.walked = walked, !.complete = complete]
<1>3. /\ data \in Datas /\ data.writer = Data(p).writer /\ data.skipped = Data(p).skipped
      /\ Keep(p, "plan", data)
  BY <1>1, <1>2 DEF Datas
<1> HIDE DEF data
<1>4. Fits(p, "plan", data)
  BY <1>1, <1>3 DEF Fits, SteadyRun, FoundUpToDate
<1> QED BY <1>1, <1>3, <1>4, FittingStep DEF Labels

(* A file that is up to date is indexed with the signature its walk saw, so *)
(* its text is not older than that, and neither is what a writer prepared.  *)
LEMMA AdvancePlan ==
    ASSUME AdvanceInv, NEW p \in Invocations, Plan(p)
    PROVE  Steady' /\ PreparedAhead' /\ UpToDate'
<1>1. /\ TypeInv /\ Types /\ Data(p) \in Datas /\ run[p].pc = "plan"
      /\ UNCHANGED <<files, place, marker, content, damaged, crashes>>
      /\ SteadyRun(run[p].pc, Data(p)) /\ Current = Initial /\ Initial \in Dirs
  BY Typed, PlanDoes, SteadyCurrent DEF AdvanceInv, ExactInv, TypeInv, Steady
<1>2. CASE Fail(p)
  BY <1>1, <1>2, AdvanceEnd DEF Fail
<1>3. CASE ~Fail(p)
  <2>1. PICK d \in Dirs, todo, remove \in SUBSET Files, label \in {"search", "lock"} :
           /\ d = Current /\ ~damaged[d] /\ lock' = lock
           /\ Keep(p, label, [Data(p) EXCEPT !.todo = todo, !.remove = remove])
           /\ todo = Changed(Data(p).walked, content[d])
           /\ remove = IF Data(p).complete THEN Gone(p, Data(p).walked, content[d]) ELSE {}
           /\ label = IF todo \union remove = {} THEN "search" ELSE "lock"
    BY <1>1, <1>3, PlanDoes
  <2> DEFINE data == [Data(p) EXCEPT !.todo = todo, !.remove = remove]
  <2>2. /\ data \in Datas /\ data.walked = Data(p).walked /\ data.todo = todo
        /\ data.writer = Data(p).writer /\ data.skipped = Data(p).skipped
        /\ Keep(p, label, data) /\ label \in Labels
    BY <1>1, <2>1 DEF Datas, Labels
  <2> HIDE DEF data
  <2>3. SteadyRun(label, data)
    BY <1>1, <2>1, <2>2 DEF SteadyRun
  <2>4. ASSUME NEW f \in Files, f \notin todo
        PROVE  /\ NotOlder(content[Initial][f], Data(p).walked[f])
               /\ \A q \in Invocations : Writing(q) => NotOlder(Data(q).staged[f], Data(p).walked[f])
    <3>1. /\ content[Initial][f] \in Record \union {None} /\ Data(p).walked[f] \in Nat
          /\ \A q \in Invocations : Data(q).staged[f] \in Record \union {None}
      BY <1>1, Typed DEF Types, Records, Datas
    <3>2. CASE Data(p).walked[f] = 0
      BY <3>1, <3>2 DEF NotOlder, Record
    <3>3. CASE Data(p).walked[f] # 0
      <4>1. content[Initial][f] # None /\ content[Initial][f].sig = Data(p).walked[f]
        BY <1>1, <2>1, <2>4, <3>3 DEF Changed
      <4>2. RecordRight(version[f], content[Initial][f])
        BY <1>1 DEF AdvanceInv, ExactInv, RecordsRight
      <4>3. NotOlder(content[Initial][f], Data(p).walked[f])
        BY <4>1, <4>2 DEF RecordRight, NotOlder
      <4>4. \A q \in Invocations : Writing(q) => NotOlder(Data(q).staged[f], Data(p).walked[f])
        BY <4>1 DEF AdvanceInv, PreparedAhead, Prepared
      <4> QED BY <4>3, <4>4
    <3> QED BY <3>2, <3>3
  <2>5. Fits(p, label, data)
    BY <2>1, <2>2, <2>3, <2>4 DEF Fits, FoundUpToDate
  <2> QED BY <1>1, <2>2, <2>5, FittingStep
<1> QED BY <1>2, <1>3

(* The writer starts from what is indexed: what it does not drop is up to   *)
(* date for whoever found it so.                                            *)
LEMMA AdvanceAcquireWriter ==
    ASSUME AdvanceInv, NEW p \in Invocations, AcquireWriter(p)
    PROVE  Steady' /\ PreparedAhead' /\ UpToDate'
<1>1. /\ TypeInv /\ Types /\ Data(p) \in Datas /\ run[p].pc = "lock"
      /\ UNCHANGED <<files, place, marker, content, damaged, crashes>>
      /\ SteadyRun(run[p].pc, Data(p)) /\ Current = Initial /\ Initial \in Dirs
  BY Typed, AcquireWriterDoes, SteadyCurrent DEF AdvanceInv, ExactInv, TypeInv, Steady
<1>2. ~Data(p).skipped /\ Initial # None
  BY <1>1, NotADir DEF SteadyRun
<1>3. CASE lock[Initial] # None
  <2> DEFINE data == [Data(p) EXCEPT !.skipped = TRUE, !.todo = {}, !.remove = {}]
  <2>1. Keep(p, "search", data)
    BY <1>1, <1>2, <1>3 DEF AcquireWriter
  <2>2. /\ data \in Datas /\ data.skipped /\ data.todo = {} /\ data.writer = Data(p).writer
    BY <1>1 DEF Datas
  <2> HIDE DEF data
  <2>3. Fits(p, "search", data)
    BY <1>1, <2>2 DEF Fits, SteadyRun, FoundUpToDate
  <2> QED BY <1>1, <2>1, <2>2, <2>3, FittingStep DEF Labels
<1>4. CASE lock[Initial] = None
  <2>1. PICK d \in Dirs, staged \in Records, based \in BOOLEAN :
           /\ d = Current /\ lock[d] = None /\ lock' = [lock EXCEPT ![d] = p]
           /\ Keep(p, "load", [Data(p) EXCEPT !.writer = d, !.based = based, !.staged = staged])
           /\ based = (content[d] # Empty)
           /\ \A f \in Files : staged[f] = IF f \in Data(p).todo \union Data(p).remove
                                           THEN None ELSE content[d][f]
    BY <1>1, <1>2, <1>4, AcquireWriterDoes, NotADir DEF Fail
  <2> DEFINE data == [Data(p) EXCEPT !.writer = d, !.based = based, !.staged = staged]
  <2>2. /\ data \in Datas /\ data.skipped = Data(p).skipped /\ data.todo = Data(p).todo
        /\ data.writer = Initial /\ data.staged = staged /\ data.walked = Data(p).walked
        /\ data.complete = Data(p).complete /\ Keep(p, "load", data)
    BY <1>1, <2>1 DEF Datas
  <2> HIDE DEF data
  <2>3. SteadyRun("load", data)
    BY <1>2, <2>2 DEF SteadyRun
  <2>4. ASSUME NEW f \in Files PROVE Prepared(p, f, data, content[Initial][f])
    <3>1. /\ staged[f] \in {None, content[Initial][f]}
          /\ staged[f] # content[Initial][f] => f \in Data(p).todo \union Data(p).remove
          /\ staged[f] # None => f \notin Data(p).todo
      BY <1>1, <2>1
    <3>2. /\ content[Initial][f] \in Record \union {None}
          /\ RecordRight(version[f], content[Initial][f])
      BY <1>1 DEF Types, Records, AdvanceInv, ExactInv, RecordsRight
    <3>3. f \in Data(p).todo \union Data(p).remove =>
             f \in Scope[p] /\ (Data(p).walked[f] = 0 => Data(p).complete)
      BY DEF AdvanceInv, ExactInv, WalksRight, WalkRight
    <3>4. content[Initial][f] # None =>
             /\ NotOlder(staged[f], content[Initial][f].sig)
             /\ content[Initial][f].text # None => NotOlder(staged[f], content[Initial][f].text)
      BY <3>1, <3>2 DEF NotOlder, RecordRight, Record
    <3>5. NotOlder(staged[f], Data(p).walked[f])
      BY <1>1, <1>2, <3>1 DEF AdvanceInv, UpToDate, FoundUpToDate, NotOlder
    <3> QED BY <2>2, <3>1, <3>3, <3>4, <3>5 DEF Prepared
  <2>5. ASSUME NEW q \in Invocations \ {p}, NEW f \in Files, FoundUpToDate(run[q].pc, Data(q), f)
        PROVE  NotOlder(data.staged[f], Data(q).walked[f])
    <3>1. NotOlder(content[Initial][f], Data(q).walked[f])
      BY <2>5 DEF AdvanceInv, UpToDate
    <3> QED BY <1>1, <2>1, <2>2, <3>1 DEF NotOlder
  <2>6. Fits(p, "load", data)
    BY <2>3, <2>4, <2>5 DEF Fits, FoundUpToDate
  <2> QED BY <1>1, <2>2, <2>6, FittingStep DEF Labels
<1> QED BY <1>3, <1>4

(* What is read now is at least as new as anything indexed or walked.       *)
LEMMA AdvanceLoad ==
    ASSUME AdvanceInv, NEW p \in Invocations, Load(p)
    PROVE  Steady' /\ PreparedAhead' /\ UpToDate'
<1>1. /\ TypeInv /\ Types /\ Data(p) \in Datas /\ run[p].pc = "load" /\ Writing(p)
      /\ UNCHANGED <<place, marker, content>>
      /\ SteadyRun(run[p].pc, Data(p)) /\ Initial \in Dirs
  BY Typed, LoadDoes DEF AdvanceInv, ExactInv, TypeInv, Steady, Writing, dirs, Dirs
<1>2. PICK g \in Data(p).todo, staged \in Records, refused \in SUBSET Files :
         /\ Keep(p, "load", [Data(p) EXCEPT !.todo = Data(p).todo \ {g}, !.staged = staged,
                                           !.refused = refused])
         /\ staged[g] = Loaded(p, g)
         /\ \A f \in Files \ {g} : staged[f] = Data(p).staged[f]
  BY <1>1, LoadDoes
<1> DEFINE data == [Data(p) EXCEPT !.todo = Data(p).todo \ {g}, !.staged = staged, !.refused = refused]
<1>3. /\ data \in Datas /\ data.skipped = Data(p).skipped /\ data.writer = Data(p).writer
      /\ data.staged = staged /\ data.walked = Data(p).walked /\ data.complete = Data(p).complete
      /\ Keep(p, "load", data) /\ g \in Files
  BY <1>1, <1>2 DEF Datas
<1> HIDE DEF data
<1>4. SteadyRun("load", data)
  BY <1>1, <1>3 DEF SteadyRun
<1>5. staged[g] # None /\ staged[g].text # None => staged[g].text = version[g]
  BY <1>2 DEF Loaded
<1>6. version[g] \in Nat /\ \A v \in Nat : v <= version[g] => NotOlder(staged[g], v)
  BY <1>1, <1>3, <1>5 DEF Types, NotOlder
<1>7. ASSUME NEW f \in Files PROVE Prepared(p, f, data, content[Initial][f])
  <2>1. CASE f = g
    <3>1. /\ content[Initial][g] \in Record \union {None}
          /\ RecordRight(version[g], content[Initial][g])
      BY <1>1, <1>3 DEF Types, Records, AdvanceInv, ExactInv, RecordsRight
    <3>2. /\ g \in Scope[p] /\ Data(p).walked[g] # 0
          /\ Data(p).walked[g] \in Nat /\ Data(p).walked[g] <= version[g]
      BY <1>1, <1>2, <1>3 DEF AdvanceInv, ExactInv, WalksRight, WalkRight, Datas
    <3>3. content[Initial][g] # None =>
             /\ NotOlder(staged[g], content[Initial][g].sig)
             /\ content[Initial][g].text # None => NotOlder(staged[g], content[Initial][g].text)
      BY <1>6, <3>1 DEF RecordRight, Record
    <3>4. NotOlder(staged[g], Data(p).walked[g])
      BY <1>6, <3>2
    <3> QED BY <1>3, <2>1, <3>2, <3>3, <3>4 DEF Prepared
  <2>2. CASE f # g
    BY <1>1, <1>2, <1>3, <2>2 DEF AdvanceInv, PreparedAhead, Prepared
  <2> QED BY <2>1, <2>2
<1>8. ASSUME NEW q \in Invocations \ {p}, NEW f \in Files, FoundUpToDate(run[q].pc, Data(q), f)
      PROVE  NotOlder(data.staged[f], Data(q).walked[f])
  <2>1. CASE f = g
    <3>1. Data(q).walked[g] \in Nat /\ Data(q).walked[g] <= version[g]
      BY <1>1, <1>3, Typed DEF AdvanceInv, ExactInv, WalksRight, WalkRight, Datas
    <3> QED BY <1>3, <1>6, <2>1, <3>1
  <2>2. CASE f # g
    BY <1>1, <1>2, <1>3, <1>8, <2>2 DEF AdvanceInv, UpToDate
  <2> QED BY <2>1, <2>2
<1>9. Fits(p, "load", data)
  BY <1>4, <1>7, <1>8 DEF Fits, FoundUpToDate
<1> QED BY <1>1, <1>3, <1>9, FittingStep DEF Labels

LEMMA AdvanceFlush ==
    ASSUME AdvanceInv, NEW p \in Invocations, Flush(p)
    PROVE  Steady' /\ PreparedAhead' /\ UpToDate'
<1>1. /\ TypeInv /\ Types /\ Data(p) \in Datas /\ run[p].pc = "load" /\ Writing(p)
      /\ Data(p).todo = {} /\ UNCHANGED <<files, place, marker, content, damaged, crashes>>
      /\ SteadyRun(run[p].pc, Data(p)) /\ Current = Initial /\ Initial \in Dirs /\ Initial # None
  BY Typed, FlushDoes, SteadyCurrent, NotADir DEF AdvanceInv, ExactInv, TypeInv, Steady, Writing
<1> DEFINE data == [Data(p) EXCEPT !.flushed = Initial]
<1>2. Keep(p, "commit", data)
  BY <1>1 DEF Flush
<1>3. /\ data \in Datas /\ data.skipped = Data(p).skipped /\ data.writer = Data(p).writer
      /\ data.staged = Data(p).staged /\ data.walked = Data(p).walked
      /\ data.complete = Data(p).complete /\ data.todo = Data(p).todo
  BY <1>1 DEF Datas
<1> HIDE DEF data
<1>4. SteadyRun("commit", data)
  BY <1>1, <1>3 DEF SteadyRun
<1>5. \A f \in Files : Prepared(p, f, data, content[Initial][f])
  BY <1>1, <1>3 DEF AdvanceInv, PreparedAhead, Prepared
<1>6. ASSUME NEW q \in Invocations \ {p}, NEW f \in Files, FoundUpToDate(run[q].pc, Data(q), f)
      PROVE  NotOlder(data.staged[f], Data(q).walked[f])
  BY <1>1, <1>3, <1>6 DEF AdvanceInv, UpToDate
<1>7. Fits(p, "commit", data)
  BY <1>4, <1>5, <1>6 DEF Fits, FoundUpToDate
<1> QED BY <1>1, <1>2, <1>3, <1>7, FittingStep DEF Labels

LEMMA AdvanceSearch ==
    ASSUME AdvanceInv, NEW p \in Invocations, Search(p)
    PROVE  Steady' /\ PreparedAhead' /\ UpToDate'
<1>1. /\ TypeInv /\ Types /\ Data(p) \in Datas /\ run[p].pc = "search"
      /\ UNCHANGED <<files, place, marker, content, damaged, crashes>>
      /\ SteadyRun(run[p].pc, Data(p)) /\ Current = Initial
  BY Typed, SearchDoes, SteadyCurrent DEF AdvanceInv, ExactInv, TypeInv, Steady
<1>2. CASE Fail(p)
  BY <1>1, <1>2, AdvanceEnd DEF Fail
<1>3. CASE ~Fail(p)
  <2>1. PICK d \in Dirs, hits \in [Files -> Nat \union {None}] :
           /\ d = Current /\ lock' = lock
           /\ Keep(p, "done", [Data(p) EXCEPT !.hits = hits])
           /\ \A f \in Files : hits[f] = IF f \in Scope[p] /\ content[d][f] # None
                                         THEN content[d][f].text ELSE None
    BY <1>1, <1>3, SearchDoes
  <2> DEFINE data == [Data(p) EXCEPT !.hits = hits]
  <2>2. /\ data \in Datas /\ data.skipped = Data(p).skipped /\ data.writer = Data(p).writer
        /\ data.walked = Data(p).walked /\ data.hits = hits /\ Keep(p, "done", data)
    BY <1>1, <2>1 DEF Datas
  <2> HIDE DEF data
  <2>3. ASSUME ~Data(p).skipped, NEW f \in Files, hits[f] # None
        PROVE  hits[f] >= Data(p).walked[f]
    <3>1. NotOlder(content[Initial][f], Data(p).walked[f])
      BY <1>1, <2>3 DEF SteadyRun, AdvanceInv, UpToDate, FoundUpToDate
    <3> QED BY <1>1, <2>1, <2>3, <3>1 DEF NotOlder
  <2>4. SteadyRun("done", data)
    BY <1>1, <2>2, <2>3 DEF SteadyRun
  <2>5. Fits(p, "done", data)
    BY <2>4 DEF Fits, FoundUpToDate
  <2> QED BY <1>1, <2>2, <2>5, FittingStep DEF Labels
<1> QED BY <1>2, <1>3

(* What the only writer has prepared becomes what is indexed.               *)
LEMMA CommitInstalls ==
    ASSUME AdvanceInv, NEW p \in Invocations, Commit(p), ~(Fail(p) /\ content' = content)
    PROVE  /\ Writing(p) /\ content' = [content EXCEPT ![Initial] = Data(p).staged]
           /\ run'[p].pc = "search" /\ run'[p].data.todo = Data(p).todo
           /\ run'[p].data.skipped = Data(p).skipped /\ run'[p].data.writer = None
           /\ run'[p].data.walked = Data(p).walked
           /\ \A q \in Invocations \ {p} : run'[q] = run[q] /\ ~Writing(q)
<1>1. /\ TypeInv /\ Types /\ Data(p) \in Datas /\ Current = Initial /\ run[p].pc = "commit"
  BY Typed, CommitDoes, SteadyCurrent DEF AdvanceInv, ExactInv, TypeInv
<1> DEFINE data == [Data(p) EXCEPT !.writer = None, !.staged = Empty, !.based = FALSE,
                                   !.flushed = None, !.remove = {}]
<1>2. content' = [content EXCEPT ![Initial] = Data(p).staged] /\ Keep(p, "search", data)
  BY <1>1, CommitDoes
<1>3. /\ data \in Datas /\ data.todo = Data(p).todo /\ data.skipped = Data(p).skipped
      /\ data.writer = None /\ data.walked = Data(p).walked
  BY <1>1 DEF Datas, Empty, Records
<1> HIDE DEF data
<1>4. /\ run'[p].pc = "search" /\ run'[p].data = data
      /\ \A q \in Invocations \ {p} : run'[q] = run[q]
  BY <1>1, <1>2, <1>3, Kept DEF Labels
<1>5. Writing(p) /\ \A q \in Invocations \ {p} : ~Writing(q)
  BY <1>1, OneWriter DEF AdvanceInv, ExactInv, Writing
<1> QED BY <1>2, <1>3, <1>4, <1>5

LEMMA AdvanceCommit ==
    ASSUME AdvanceInv, NEW p \in Invocations, Commit(p)
    PROVE  Steady' /\ PreparedAhead' /\ UpToDate'
<1>1. /\ TypeInv /\ Types /\ Data(p) \in Datas /\ run[p].pc = "commit"
      /\ UNCHANGED <<place, marker>> /\ SteadyRun(run[p].pc, Data(p)) /\ Initial \in Dirs
  BY Typed, CommitDoes DEF AdvanceInv, ExactInv, TypeInv, Steady, Dirs
<1>2. CASE Fail(p) /\ content' = content
  BY <1>1, <1>2, AdvanceEnd DEF Fail
<1>3. CASE ~(Fail(p) /\ content' = content)
  <2>1. /\ Writing(p) /\ content' = [content EXCEPT ![Initial] = Data(p).staged]
        /\ run'[p].pc = "search" /\ run'[p].data.todo = Data(p).todo
        /\ run'[p].data.skipped = Data(p).skipped /\ run'[p].data.writer = None
        /\ run'[p].data.walked = Data(p).walked
        /\ \A q \in Invocations \ {p} : run'[q] = run[q] /\ ~Writing(q)
    BY <1>3, CommitInstalls
  <2>2. ~Data(p).skipped /\ Data(p).todo = {}
    BY <1>1 DEF SteadyRun
  <2>3. \A q \in Invocations : SteadyRun(run'[q].pc, run'[q].data)
    BY <2>1, <2>2 DEF AdvanceInv, Steady, SteadyRun, Data
  <2>4. Steady'
    BY <1>1, <2>3 DEF AdvanceInv, Steady, SteadyRun, Data
  <2>5. \A q \in Invocations : run'[q].pc \notin {"load", "commit"}
    BY <2>1 DEF Writing
  <2>6. PreparedAhead'
    BY <2>5 DEF PreparedAhead, Writing
  <2>7. content'[Initial] = Data(p).staged
    BY <1>1, <2>1 DEF Types
  <2>8. ASSUME NEW q \in Invocations, NEW f \in Files, FoundUpToDate(run'[q].pc, run'[q].data, f)
        PROVE  NotOlder(content'[Initial][f], run'[q].data.walked[f])
    <3>1. CASE q = p
      BY <2>1, <2>7, <3>1 DEF AdvanceInv, PreparedAhead, Prepared
    <3>2. CASE q # p
      BY <2>1, <2>7, <2>8, <3>2 DEF AdvanceInv, UpToDate, Data
    <3> QED BY <3>1, <3>2
  <2>9. UpToDate'
    BY <2>5, <2>8 DEF UpToDate, FoundUpToDate, NotOlder, Writing, Data
  <2> QED BY <2>4, <2>6, <2>9
<1> QED BY <1>2, <1>3

-----------------------------------------------------------------------------
(* A start and a change to the files leave processes where they are, but    *)
(* for the one that opens the index.                                        *)
LEMMA AdvanceDisturbed ==
    ASSUME AdvanceInv, place' = place, marker' = marker, content' = content,
           \A q \in Invocations :
              /\ run'[q].data = run[q].data
              /\ run'[q].pc = run[q].pc \/ (run[q].pc = "idle" /\ run'[q].pc = "open")
    PROVE  Steady' /\ PreparedAhead' /\ UpToDate'
<1>1. \A q \in Invocations : SteadyRun(run'[q].pc, run'[q].data)
  BY DEF AdvanceInv, Steady, SteadyRun, Data
<1>2. Steady'
  BY <1>1 DEF AdvanceInv, Steady, SteadyRun, Data
<1>3. \A q \in Invocations, f \in Files :
         /\ run'[q].pc \in {"load", "commit"} => Writing(q)
         /\ FoundUpToDate(run'[q].pc, run'[q].data, f) => FoundUpToDate(run[q].pc, Data(q), f)
  BY DEF Writing, FoundUpToDate, Data
<1>4. \A q \in Invocations, f \in Files : run'[q].pc \in {"load", "commit"} =>
         Prepared(q, f, run'[q].data, content'[Initial][f])
  BY <1>3 DEF AdvanceInv, PreparedAhead, Data
<1>5. PreparedAhead'
  BY <1>4 DEF PreparedAhead, Prepared, NotOlder, Writing, Data
<1>6. ASSUME NEW q \in Invocations, NEW f \in Files, FoundUpToDate(run'[q].pc, run'[q].data, f)
      PROVE  /\ NotOlder(content'[Initial][f], run'[q].data.walked[f])
             /\ \A x \in Invocations : run'[x].pc \in {"load", "commit"} =>
                                          NotOlder(run'[x].data.staged[f], run'[q].data.walked[f])
  BY <1>3, <1>6 DEF AdvanceInv, UpToDate, Data
<1>7. UpToDate'
  BY <1>6 DEF UpToDate, FoundUpToDate, NotOlder, Writing, Data
<1> QED BY <1>2, <1>5, <1>7

LEMMA AdvanceStep == ASSUME SameVersion, AdvanceInv, [Next]_vars PROVE AdvanceInv'
<1>1. ExactInv' /\ Types
  BY TypesStep, RecordsStep, AloneStep, SeenStep DEF AdvanceInv, ExactInv, TypeInv
<1>2. CASE UNCHANGED vars
  BY <1>1, <1>2, AdvanceDisturbed DEF AdvanceInv, vars, dirs
<1>3. ASSUME NEW p \in Invocations, Start(p) PROVE Steady' /\ PreparedAhead' /\ UpToDate'
  <2>1. place' = place /\ marker' = marker /\ content' = content
    BY <1>1, <1>3, Started DEF dirs
  <2>2. \A q \in Invocations :
           /\ run'[q].data = run[q].data
           /\ run'[q].pc = run[q].pc \/ (run[q].pc = "idle" /\ run'[q].pc = "open")
    BY <1>1, <1>3, Started
  <2> QED BY <2>1, <2>2, AdvanceDisturbed
<1>4. ASSUME NEW p \in Invocations, Step(p) PROVE Steady' /\ PreparedAhead' /\ UpToDate'
  BY <1>4, NoRebuild, AdvanceWalk, AdvancePlan, AdvanceAcquireWriter, AdvanceLoad, AdvanceFlush,
     AdvanceCommit, AdvanceSearch DEF Step
<1>5. ASSUME NEW p \in Invocations, Crash(p) PROVE Steady' /\ PreparedAhead' /\ UpToDate'
  BY <1>5, AdvanceEnd DEF Crash
<1>8. \A p \in Invocations : ~InstallFails(p)
  BY DEF AdvanceInv, Steady, SteadyRun, InstallFails, At
<1>6. ASSUME NEW f \in Files, WriteFile(f) \/ DeleteFile(f) \/ ChangePermissions(f)
      PROVE  Steady' /\ PreparedAhead' /\ UpToDate'
  <2>1. place' = place /\ marker' = marker /\ content' = content
    BY <1>1, <1>6, FilesChanged DEF dirs
  <2>2. \A q \in Invocations : run'[q].data = run[q].data /\ run'[q].pc = run[q].pc
    BY <1>1, <1>6, FilesChanged
  <2> QED BY <2>1, <2>2, AdvanceDisturbed
<1>7. Steady' /\ PreparedAhead' /\ UpToDate'
  BY <1>2, <1>3, <1>4, <1>5, <1>6, <1>8 DEF Next, AdvanceInv
<1> QED BY <1>1, <1>7 DEF AdvanceInv

LEMMA AdvanceAlways == ASSUME SameVersion PROVE Spec => []AdvanceInv
<1>1. AdvanceInv /\ [Next]_vars => AdvanceInv'
  BY AdvanceStep
<1> QED BY <1>1, AdvanceBegin, PTL DEF Spec

-----------------------------------------------------------------------------
(* What is indexed changes only in the second half of a commit.             *)
LEMMA OnlyCommits ==
    ASSUME TypeInv, [Next]_vars, content' # content
    PROVE  \E p \in Invocations : Commit(p)
<1>1. \A p \in Invocations : ~Start(p)
  BY DEF Start, dirs
<1>2. \A p \in Invocations : ~InstallFails(p) /\ ~Crash(p)
  BY DEF InstallFails, Crash
<1>3. \A p \in Invocations : Step(p) => Commit(p)
  BY DEF Step, OpenIndex, Build, CheckOld, MoveOld, Install, Conflict, PutBack, CheckMarker, Reopen, Walk,
         Plan, AcquireWriter, Load, Flush, Search, dirs
<1>4. \A f \in Files : ~(WriteFile(f) \/ DeleteFile(f) \/ ChangePermissions(f))
  BY DEF WriteFile, DeleteFile, ChangePermissions, FilesChange, dirs
<1>5. ~UNCHANGED vars
  BY DEF vars, dirs
<1> QED BY <1>1, <1>2, <1>3, <1>4, <1>5 DEF Next

(* So a step that changes a record is the commit of the only writer.        *)
LEMMA RecordChanges ==
    ASSUME AdvanceInv, [Next]_vars, NEW d \in Dirs, NEW f \in Files, content'[d][f] # content[d][f]
    PROVE  \E p \in Invocations :
              /\ Prepared(p, f, Data(p), content[d][f])
              /\ content'[d][f] = Data(p).staged[f]
              /\ \A q \in Invocations \ {p} : run'[q] = run[q]
<1>1. TypeInv /\ Types
  BY DEF AdvanceInv, ExactInv, TypeInv
<1>2. PICK p \in Invocations : Commit(p)
  BY <1>1, OnlyCommits
<1>3. /\ Writing(p) /\ content' = [content EXCEPT ![Initial] = Data(p).staged]
      /\ \A q \in Invocations \ {p} : run'[q] = run[q]
  BY <1>2, CommitInstalls
<1>4. d = Initial /\ content'[d] = Data(p).staged
  BY <1>1, <1>3 DEF Types
<1> QED BY <1>3, <1>4 DEF AdvanceInv, PreparedAhead

LEMMA CommitTouchesOnlyItsFiles == ASSUME AdvanceInv, [Next]_vars PROVE TouchesOnlyItsFiles
<1> SUFFICES ASSUME NEW p \in Invocations, NEW d \in Dirs, NEW f \in Files,
                    run[p].pc = "commit", run'[p].pc = "search", content'[d][f] # content[d][f]
             PROVE  f \in Scope[p] /\ (Data(p).walked[f] = 0 => Data(p).complete)
  BY DEF TouchesOnlyItsFiles, At
<1>1. PICK q \in Invocations :
         /\ Prepared(q, f, Data(q), content[d][f])
         /\ content'[d][f] = Data(q).staged[f]
         /\ \A x \in Invocations \ {q} : run'[x] = run[x]
  BY RecordChanges
<1>2. q = p
  BY <1>1
<1> QED BY <1>1, <1>2 DEF Prepared

LEMMA CommitAdvancesText == ASSUME AdvanceInv, [Next]_vars PROVE TextAdvances
<1> SUFFICES ASSUME NEW d \in Dirs, NEW f \in Files,
                    content[d][f] # None, content'[d][f] # None,
                    content[d][f].text # None, content'[d][f].text # None
             PROVE  content'[d][f].text >= content[d][f].text
  BY DEF TextAdvances
<1>1. CASE content'[d][f] = content[d][f]
  BY <1>1 DEF AdvanceInv, ExactInv, TypeInv, Types, Records, Record
<1>2. CASE content'[d][f] # content[d][f]
  BY <1>2, RecordChanges DEF Prepared, NotOlder
<1> QED BY <1>1, <1>2

-----------------------------------------------------------------------------
(* What a search shows is current, whoever refreshes the same index at the  *)
(* same time: exact when nothing disturbed it, and never older than its own *)
(* walk.  What it found up to date, or wrote itself, is only ever replaced  *)
(* by something read from a file later.                                     *)
THEOREM SearchesCurrent == ASSUME SameVersion PROVE Spec => []SearchesAreCurrent
<1>1. AdvanceInv => UndisturbedSearchIsExact
  BY DEF AdvanceInv, ExactInv, SeenExactly, SeenBy, UndisturbedSearchIsExact, At
<1>2. AdvanceInv => HitsNotOlderThanWalk
  BY DEF AdvanceInv, Steady, SteadyRun, HitsNotOlderThanWalk, At
<1> QED BY <1>1, <1>2, AdvanceAlways, PTL DEF SearchesAreCurrent

(* A refresh changes only records of its own scope, drops a file it did not *)
(* walk only after a complete walk, and never replaces a text by an older   *)
(* one: the writer lock makes its commit the only one since it read what is *)
(* indexed.                                                                 *)
THEOREM RefreshesAdvance == ASSUME SameVersion PROVE Spec => RefreshesOnlyAdvance
<1>1. AdvanceInv /\ [Next]_vars => [TouchesOnlyItsFiles]_vars /\ [TextAdvances]_vars
  BY CommitTouchesOnlyItsFiles, CommitAdvancesText
<1> QED BY <1>1, AdvanceAlways, PTL DEF Spec, RefreshesOnlyAdvance, RefreshTouchesOnlyItsFiles,
                                        TextNeverGoesBack
=============================================================================
