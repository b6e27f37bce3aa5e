------------------------- MODULE CheckCommandProofs -------------------------
(***************************************************************************)
(* Theorems about the check commands, for any files, any references among  *)
(* them, and any changes to them while a command runs.                     *)
(***************************************************************************)
EXTENDS CheckCommand, SequenceTheorems, WellFoundedInduction, TLAPS

Links    == [id : Relatives \union {None}, to : Relatives \union {None}]
Resource == [logical : Uris, path : Uris, there : BOOLEAN, text : Texts \union {Unreadable}]

PreloadType ==
    /\ text \in Files
    /\ queue \in Seq(Items)
    /\ reading \in Readings \union {None}
    /\ \A key \in DOMAIN cached : cached[key] \in Texts
    /\ resources \in Seq(Resource)

(* A file that was there is looked up under its own name, and every text    *)
(* supplied of it is remembered under that name, so the file is not read    *)
(* again: this is what makes OneTextPerFile inductive.                      *)
KeyedByFile == reading # None /\ reading.there => reading.key = File(reading.item.path)
Remembered ==
    \A i \in Supplied : resources[i].there =>
        /\ File(resources[i].path) \in DOMAIN cached
        /\ cached[File(resources[i].path)] = resources[i].text

(* What was visited is supplied, or is being read.                          *)
BeingRead   == IF reading = None THEN {} ELSE {reading.item.logical}
SuppliedUris == {resources[i].logical : i \in DOMAIN resources}
VisitedUris == visited = SuppliedUris \union BeingRead /\ SuppliedUris \cap BeingRead = {}
SuppliedOnce ==
    \A i, j \in DOMAIN resources : i # j => resources[i].logical # resources[j].logical

(* A reference of a supplied text is supplied or still to come.             *)
Followed(uri) == uri \in visited \/ \E q \in DOMAIN queue : queue[q].logical = uri
ReferencesFollowed ==
    \A i \in Supplied : \A k \in DOMAIN LocalReferences(resources[i].text) :
        Followed(Target(LocalReferences(resources[i].text)[k], resources[i]).logical)

PreloadInv ==
    PreloadType /\ KeyedByFile /\ Remembered /\ VisitedUris /\ SuppliedOnce /\ ReferencesFollowed

----------------------------------------------------------------------------
(* Resolving keeps to the URIs.                                             *)
LEMMA DirectoriesLeft ==
    ASSUME NEW S, NEW s \in Seq(S), NEW t \in Seq(S), NEW up \in Nat
    PROVE  SubSeq(s, 1, Len(s) - up) \o t \in Seq(S)
OBVIOUS

LEMMA Resolved ==
    ASSUME NEW base \in Uris, NEW to \in Relatives \union {None}
    PROVE  Resolve(base, to) \in Uris
<1>1. CASE to = None
  BY <1>1 DEF Resolve
<1>2. CASE to # None /\ to.origin # None
  BY <1>2 DEF Resolve, Relatives, Uris
<1>3. CASE to # None /\ to.origin = None
  <2>1. to \in Relatives /\ base.dir \in Seq(Segments) /\ to.dir \in Seq(Segments) /\ to.up \in Nat
        /\ to.file \in Segments /\ base.origin \in Origins
    BY <1>3 DEF Relatives, Uris
  <2>2. SubSeq(base.dir, 1, Len(base.dir) - to.up) \o to.dir \in Seq(Segments)
    BY <2>1, DirectoriesLeft
  <2> QED
    BY <1>3, <2>1, <2>2 DEF Resolve, Uris
<1> QED
  BY <1>1, <1>2, <1>3

LEMMA Targeted ==
    ASSUME NEW reference \in Links, NEW item \in Items
    PROVE  Target(reference, item) \in Items
<1>1. item.logical \in Uris /\ item.path \in Uris
  BY DEF Items
<1>2. reference.id \in Relatives \union {None} /\ reference.to \in Relatives \union {None}
  BY DEF Links
<1>3. Resolve(Resolve(item.logical, reference.id), reference.to) \in Uris
  BY <1>1, <1>2, Resolved
<1>4. Resolve(item.path, reference.to) \in Uris
  BY <1>1, <1>2, Resolved
<1> QED
  BY <1>3, <1>4 DEF Target, Items

LEMMA QueuedReferences ==
    ASSUME NEW item \in Items, NEW found \in Texts \union {Unreadable}
    PROVE  Found(item, found) \in Seq(Items)
<1>1. CASE found = Unreadable
  BY <1>1 DEF Found
<1>2. CASE found # Unreadable
  <2>1. LocalReferences(found) \in Seq(Links)
    BY <1>2, LocalsAreSelected DEF Links
  <2>2. DOMAIN LocalReferences(found) = 1 .. Len(LocalReferences(found)) /\ Len(LocalReferences(found)) \in Nat
    BY <2>1
  <2>3. \A k \in 1 .. Len(LocalReferences(found)) : Target(LocalReferences(found)[k], item) \in Items
    BY <2>1, Targeted
  <2> QED
    BY <1>2, <2>2, <2>3 DEF Found
<1> QED
  BY <1>1, <1>2

(* What was read is a text or a failure, and the text that is remembered if *)
(* one is.                                                                  *)
LEMMA ReadOutcome ==
    ASSUME PreloadType, NEW path, NEW key
    PROVE  /\ Read(path, key) \in Texts \union {Unreadable}
           /\ key \in DOMAIN cached => Read(path, key) = cached[key]
<1>1. CASE key \in DOMAIN cached
  BY <1>1 DEF Read, PreloadType
<1>2. CASE key \notin DOMAIN cached /\ IsThere(path)
  <2>1. File(path) \in JsonFiles
    BY <1>2, PathsLeadToFiles DEF IsThere, File
  <2>2. text[File(path)] \in Texts \union {Unreadable}
    BY <1>2, <2>1 DEF IsThere, PreloadType, Files
  <2> QED
    BY <1>2, <2>2 DEF Read
<1>3. CASE key \notin DOMAIN cached /\ ~IsThere(path)
  BY <1>3 DEF Read
<1> QED
  BY <1>1, <1>2, <1>3

(* What is looked up is keyed by its file, if it is there.                  *)
LEMMA LookUpTyped ==
    ASSUME PreloadType, NEW item \in Items
    PROVE  LookUp(item) \in Readings /\ (LookUp(item).there => LookUp(item).key = File(item.path))
           /\ LookUp(item).item = item
<1>1. item.path \in Uris
  BY DEF Items
<1>2. IsThere(item.path) \in BOOLEAN /\ (IsThere(item.path) => File(item.path) \in JsonFiles)
  BY PathsLeadToFiles DEF IsThere, File
<1>3. Canonical(item.path) \in Uris \union JsonFiles
      /\ (IsThere(item.path) => Canonical(item.path) = File(item.path))
  BY <1>1, <1>2 DEF Canonical
<1> QED
  BY <1>2, <1>3 DEF LookUp, Readings

(* What appending, dropping the head and joining do to the entries.         *)
LEMMA Appended ==
    ASSUME NEW S, NEW s \in Seq(S), NEW e \in S
    PROVE  /\ DOMAIN Append(s, e) = 1 .. Len(s) + 1
           /\ \A i \in DOMAIN s : Append(s, e)[i] = s[i]
           /\ Append(s, e)[Len(s) + 1] = e
           /\ DOMAIN s = 1 .. Len(s) /\ Len(s) \in Nat
OBVIOUS

LEMMA TailEntries ==
    ASSUME NEW S, NEW s \in Seq(S), s # <<>>
    PROVE  /\ Head(s) \in S /\ Head(s) = s[1] /\ Tail(s) \in Seq(S)
           /\ \A q \in DOMAIN s : q # 1 => q - 1 \in DOMAIN Tail(s) /\ Tail(s)[q - 1] = s[q]
OBVIOUS

LEMMA JoinedEntries ==
    ASSUME NEW S, NEW s \in Seq(S), NEW t \in Seq(S)
    PROVE  /\ s \o t \in Seq(S)
           /\ \A i \in DOMAIN s : i \in DOMAIN (s \o t) /\ (s \o t)[i] = s[i]
           /\ \A k \in DOMAIN t : Len(s) + k \in DOMAIN (s \o t) /\ (s \o t)[Len(s) + k] = t[k]
OBVIOUS

LEMMA OneEntry ==
    ASSUME NEW S, NEW x \in S
    PROVE  \E s \in Seq(S) : s = <<x>> /\ s # <<>> /\ 1 \in DOMAIN s /\ s[1] = x
<1>1. <<x>> \in Seq(S) /\ 1 \in DOMAIN <<x>> /\ <<x>>[1] = x
  OBVIOUS
<1>2. <<x>> # <<>>
  OBVIOUS
<1> WITNESS <<x>> \in Seq(S)
<1> QED
  BY <1>1, <1>2

LEMMA NoEntry ==
    ASSUME NEW S
    PROVE  \E s \in Seq(S) : s = <<>>
<1>1. <<>> \in Seq(S)
  OBVIOUS
<1> QED
  BY <1>1

LEMMA JoinedEmpty ==
    ASSUME NEW S, NEW s \in Seq(S), NEW t \in Seq(S), NEW u \in Seq(S)
    PROVE  s \o t \o u \in Seq(S) /\ (s \o t \o u = <<>> => s = <<>> /\ t = <<>> /\ u = <<>>)
<1>1. s \o t \in Seq(S) /\ (s \o t = <<>> => s = <<>> /\ t = <<>>)
  OBVIOUS
<1> QED
  BY <1>1

(* A fetch passes its entry over or begins to read it; the queue loses it.  *)
LEMMA TailFollows ==
    ASSUME PreloadType, queue # <<>>, queue' = Tail(queue), visited \subseteq visited',
           Head(queue).logical \in visited', NEW uri, Followed(uri)
    PROVE  Followed(uri)'
<1>1. CASE uri \in visited
  BY <1>1 DEF Followed
<1>2. CASE \E q \in DOMAIN queue : queue[q].logical = uri
  <2>1. PICK q \in DOMAIN queue : queue[q].logical = uri
    BY <1>2
  <2>2. Head(queue) = queue[1] /\ (q # 1 => q - 1 \in DOMAIN Tail(queue) /\ Tail(queue)[q - 1] = queue[q])
    BY TailEntries DEF PreloadType
  <2>3. CASE q = 1
    BY <2>1, <2>2, <2>3 DEF Followed
  <2>4. CASE q # 1
    BY <2>1, <2>2, <2>4 DEF Followed
  <2> QED
    BY <2>3, <2>4
<1> QED
  BY <1>1, <1>2 DEF Followed

LEMMA FetchKeepsPreload ==
    ASSUME PreloadInv, Fetch
    PROVE  PreloadInv'
<1> DEFINE item == Head(queue)
<1>1. queue # <<>> /\ reading = None /\ queue' = Tail(queue) /\ UNCHANGED <<text, cached, resources>>
  BY DEF Fetch
<1>2. item \in Items /\ queue' \in Seq(Items)
  BY <1>1, TailEntries DEF PreloadInv, PreloadType
<1>3. \/ item.logical \in visited /\ UNCHANGED <<visited, reading>>
      \/ /\ item.logical \notin visited /\ visited' = visited \union {item.logical}
         /\ reading' = LookUp(item)
  BY DEF Fetch
<1>4. LookUp(item) \in Readings /\ (LookUp(item).there => LookUp(item).key = File(item.path))
      /\ LookUp(item).item = item
  BY <1>2, LookUpTyped DEF PreloadInv
<1>5. PreloadType'
  BY <1>1, <1>2, <1>3, <1>4 DEF PreloadInv, PreloadType
<1>6. KeyedByFile'
  BY <1>1, <1>3, <1>4 DEF KeyedByFile
<1>7. Remembered' /\ SuppliedOnce'
  BY <1>1 DEF PreloadInv, Remembered, SuppliedOnce, Supplied, Failures
<1>8. VisitedUris'
  <2>1. visited = SuppliedUris /\ SuppliedUris' = SuppliedUris
    BY <1>1 DEF PreloadInv, VisitedUris, BeingRead, SuppliedUris
  <2>2. CASE item.logical \in visited /\ UNCHANGED <<visited, reading>>
    BY <1>1, <2>1, <2>2 DEF VisitedUris, BeingRead
  <2>3. CASE /\ item.logical \notin visited /\ visited' = visited \union {item.logical}
             /\ reading' = LookUp(item)
    BY <1>4, <2>1, <2>3, DistinctOutcomes DEF VisitedUris, BeingRead
  <2> QED
    BY <1>3, <2>2, <2>3
<1>9. ReferencesFollowed'
  <2>1. Supplied' = Supplied /\ resources' = resources
    BY <1>1 DEF Supplied, Failures
  <2>2. visited \subseteq visited' /\ item.logical \in visited'
    BY <1>3
  <2>3. \A uri : Followed(uri) => Followed(uri)'
    BY <1>1, <2>2, TailFollows DEF PreloadInv
  <2> QED
    BY <2>1, <2>3 DEF ReferencesFollowed, PreloadInv
<1> QED
  BY <1>5, <1>6, <1>7, <1>8, <1>9 DEF PreloadInv

(* A supply adds one entry, and what it refers to joins the queue.          *)
Entry(item, there, found) ==
    [logical |-> item.logical, path |-> item.path, there |-> there, text |-> found]

LEMMA SuppliedEntries ==
    ASSUME PreloadType, NEW item \in Items, NEW there \in BOOLEAN, NEW found \in Texts \union {Unreadable},
           resources' = Append(resources, Entry(item, there, found))
    PROVE  /\ resources' \in Seq(Resource) /\ DOMAIN resources' = 1 .. Len(resources) + 1
           /\ \A i \in DOMAIN resources : resources'[i] = resources[i]
           /\ resources'[Len(resources) + 1].logical = item.logical
           /\ resources'[Len(resources) + 1].path = item.path
           /\ resources'[Len(resources) + 1].there = there
           /\ resources'[Len(resources) + 1].text = found
           /\ DOMAIN resources = 1 .. Len(resources) /\ Len(resources) \in Nat
<1>1. Entry(item, there, found) \in Resource
  BY DEF Entry, Resource, Items
<1>2. resources \in Seq(Resource)
  BY DEF PreloadType
<1>3. Append(resources, Entry(item, there, found)) \in Seq(Resource)
  BY <1>1, <1>2
<1>4. /\ Entry(item, there, found).logical = item.logical /\ Entry(item, there, found).path = item.path
      /\ Entry(item, there, found).there = there /\ Entry(item, there, found).text = found
  BY DEF Entry
<1> QED
  BY <1>1, <1>2, <1>3, <1>4, Appended

(* What a supply does, with the outcome of the read as a name.              *)
Remembers(key, found) ==
    IF found = Unreadable \/ key \in DOMAIN cached THEN cached
    ELSE [k \in DOMAIN cached \union {key} |-> IF k = key THEN found ELSE cached[k]]

LEMMA SupplyMeans ==
    ASSUME PreloadInv, Supply
    PROVE  \E item \in Items, there \in BOOLEAN, key \in Uris \union JsonFiles,
              found \in Texts \union {Unreadable} :
              /\ reading.item = item /\ reading # None /\ reading' = None
              /\ there => key = File(item.path)
              /\ key \in DOMAIN cached => found = cached[key]
              /\ cached' = Remembers(key, found)
              /\ resources' = Append(resources, Entry(item, there, found))
              /\ queue' = queue \o Found(item, found)
              /\ text' = text /\ visited' = visited
<1> DEFINE found == Read(reading.item.path, reading.key)
<1>1. reading # None /\ reading \in Readings
  BY DEF Supply, PreloadInv, PreloadType
<1>2. reading.item \in Items /\ reading.there \in BOOLEAN /\ reading.key \in Uris \union JsonFiles
  BY <1>1 DEF Readings
<1>3. found \in Texts \union {Unreadable} /\ (reading.key \in DOMAIN cached => found = cached[reading.key])
  BY ReadOutcome DEF PreloadInv
<1>4. reading.there => reading.key = File(reading.item.path)
  BY <1>1 DEF PreloadInv, KeyedByFile
<1>5. /\ cached' = Remembers(reading.key, found) /\ reading' = None
      /\ resources' = Append(resources, Entry(reading.item, reading.there, found))
      /\ queue' = queue \o Found(reading.item, found)
      /\ text' = text /\ visited' = visited
  BY DEF Supply, Remembers, Entry
<1> HIDE DEF found
<1> QED
  BY <1>1, <1>2, <1>3, <1>4, <1>5

LEMMA SupplyKeepsTexts ==
    ASSUME PreloadType, Remembered, NEW item \in Items, NEW there \in BOOLEAN, NEW key,
           NEW found \in Texts \union {Unreadable},
           there => key = File(item.path), key \in DOMAIN cached => found = cached[key],
           cached' = Remembers(key, found), resources' = Append(resources, Entry(item, there, found))
    PROVE  Remembered'
<1>1. /\ DOMAIN resources' = 1 .. Len(resources) + 1
      /\ \A i \in DOMAIN resources : resources'[i] = resources[i]
      /\ resources'[Len(resources) + 1].path = item.path /\ resources'[Len(resources) + 1].text = found
      /\ resources'[Len(resources) + 1].there = there
      /\ DOMAIN resources = 1 .. Len(resources) /\ Len(resources) \in Nat
  BY SuppliedEntries
<1>2. \A k \in DOMAIN cached : k \in DOMAIN cached' /\ cached'[k] = cached[k]
  BY DEF Remembers
<1>3. found # Unreadable => key \in DOMAIN cached' /\ cached'[key] = found
  BY DEF Remembers
<1>4. ASSUME NEW i \in Supplied', resources'[i].there
      PROVE  /\ File(resources'[i].path) \in DOMAIN cached'
             /\ cached'[File(resources'[i].path)] = resources'[i].text
  <2>0. i \in DOMAIN resources' /\ resources'[i].text # Unreadable
    BY <1>4 DEF Supplied, Failures
  <2>1. CASE i = Len(resources) + 1
    BY <1>1, <1>3, <1>4, <2>0, <2>1
  <2>2. CASE i # Len(resources) + 1
    <3>1. i \in Supplied /\ resources'[i] = resources[i]
      BY <1>1, <2>0, <2>2 DEF Supplied, Failures
    <3>2. File(resources[i].path) \in DOMAIN cached /\ cached[File(resources[i].path)] = resources[i].text
      BY <1>4, <3>1 DEF Remembered
    <3> QED
      BY <1>2, <3>1, <3>2
  <2> QED
    BY <2>1, <2>2
<1>5. \A path : File(path)' = File(path)
  BY DEF File
<1> QED
  BY <1>4, <1>5 DEF Remembered

LEMMA SupplyKeepsUris ==
    ASSUME PreloadType, VisitedUris, SuppliedOnce, NEW item \in Items, NEW there \in BOOLEAN,
           NEW found \in Texts \union {Unreadable}, reading # None, reading.item = item, reading' = None,
           visited' = visited, resources' = Append(resources, Entry(item, there, found))
    PROVE  VisitedUris' /\ SuppliedOnce'
<1>1. /\ DOMAIN resources' = 1 .. Len(resources) + 1
      /\ \A i \in DOMAIN resources : resources'[i] = resources[i]
      /\ resources'[Len(resources) + 1].logical = item.logical
      /\ DOMAIN resources = 1 .. Len(resources) /\ Len(resources) \in Nat
  BY SuppliedEntries
<1>2. SuppliedUris' = SuppliedUris \union {item.logical}
  BY <1>1 DEF SuppliedUris
<1>3. BeingRead = {item.logical} /\ BeingRead' = {}
  BY DEF BeingRead
<1>4. VisitedUris'
  BY <1>2, <1>3 DEF VisitedUris
<1>5. \A i \in DOMAIN resources : resources[i].logical # item.logical
  BY <1>3 DEF VisitedUris, SuppliedUris
<1>6. SuppliedOnce'
  BY <1>1, <1>5 DEF SuppliedOnce
<1> QED
  BY <1>4, <1>6

LEMMA SupplyKeepsFollowing ==
    ASSUME PreloadInv, NEW item \in Items, NEW there \in BOOLEAN, NEW found \in Texts \union {Unreadable},
           visited' = visited, queue' = queue \o Found(item, found),
           resources' = Append(resources, Entry(item, there, found))
    PROVE  ReferencesFollowed'
<1> DEFINE more == Found(item, found)
<1>1. more \in Seq(Items) /\ queue \in Seq(Items)
  BY QueuedReferences DEF PreloadInv, PreloadType
<1>2. /\ DOMAIN resources' = 1 .. Len(resources) + 1
      /\ \A i \in DOMAIN resources : resources'[i] = resources[i]
      /\ resources'[Len(resources) + 1].logical = item.logical
      /\ resources'[Len(resources) + 1].path = item.path /\ resources'[Len(resources) + 1].text = found
      /\ DOMAIN resources = 1 .. Len(resources) /\ Len(resources) \in Nat
  BY SuppliedEntries DEF PreloadInv
<1>3. found # Unreadable => /\ DOMAIN more = DOMAIN LocalReferences(found)
                            /\ \A k \in DOMAIN more : more[k] = Target(LocalReferences(found)[k], item)
  BY DEF Found
<1>4. queue' = queue \o more
  OBVIOUS
<1> HIDE DEF more
<1>5. ASSUME NEW uri, Followed(uri)
      PROVE  Followed(uri)'
  BY <1>1, <1>4, <1>5, JoinedEntries DEF Followed
<1>6. ASSUME NEW k \in DOMAIN more, NEW uri, uri = more[k].logical
      PROVE  Followed(uri)'
  <2>1. Len(queue) + k \in DOMAIN queue' /\ queue'[Len(queue) + k] = more[k]
    BY <1>1, <1>4, <1>6, JoinedEntries
  <2> QED
    BY <1>6, <2>1 DEF Followed
<1>7. ASSUME NEW i \in Supplied', NEW k \in DOMAIN LocalReferences(resources'[i].text),
             NEW uri, uri = Target(LocalReferences(resources'[i].text)[k], resources'[i]).logical
      PROVE  Followed(uri)'
  <2>0. i \in DOMAIN resources' /\ resources'[i].text # Unreadable
    BY <1>7 DEF Supplied, Failures
  <2>1. CASE i = Len(resources) + 1
    <3>1. Target(LocalReferences(found)[k], resources'[i]) = Target(LocalReferences(found)[k], item)
      BY <1>2, <2>1 DEF Target
    <3> QED
      BY <1>2, <1>3, <1>6, <1>7, <2>0, <2>1, <3>1
  <2>2. CASE i # Len(resources) + 1
    <3>1. i \in Supplied /\ resources'[i] = resources[i]
      BY <1>2, <2>0, <2>2 DEF Supplied, Failures
    <3>2. Followed(uri)
      BY <1>7, <3>1 DEF PreloadInv, ReferencesFollowed
    <3> QED
      BY <1>5, <3>1, <3>2
  <2> QED
    BY <2>1, <2>2
<1> QED
  BY <1>7 DEF ReferencesFollowed

LEMMA SupplyKeepsPreload ==
    ASSUME PreloadInv, Supply
    PROVE  PreloadInv'
<1>1. PICK item \in Items, there \in BOOLEAN, key \in Uris \union JsonFiles,
              found \in Texts \union {Unreadable} :
          /\ reading.item = item /\ reading # None /\ reading' = None
          /\ there => key = File(item.path)
          /\ key \in DOMAIN cached => found = cached[key]
          /\ cached' = Remembers(key, found)
          /\ resources' = Append(resources, Entry(item, there, found))
          /\ queue' = queue \o Found(item, found)
          /\ text' = text /\ visited' = visited
  BY SupplyMeans
<1>2. PreloadType'
  <2>1. Found(item, found) \in Seq(Items) /\ queue \in Seq(Items)
    BY QueuedReferences DEF PreloadInv, PreloadType
  <2>2. queue' \in Seq(Items)
    BY <1>1, <2>1
  <2>3. resources' \in Seq(Resource)
    BY <1>1, SuppliedEntries DEF PreloadInv
  <2>4. \A k \in DOMAIN cached' : cached'[k] \in Texts
    BY <1>1 DEF Remembers, PreloadInv, PreloadType
  <2> QED
    BY <1>1, <2>2, <2>3, <2>4 DEF PreloadInv, PreloadType
<1>3. KeyedByFile'
  BY <1>1 DEF KeyedByFile
<1>4. Remembered'
  BY <1>1, SupplyKeepsTexts DEF PreloadInv
<1>5. VisitedUris' /\ SuppliedOnce'
  BY <1>1, SupplyKeepsUris DEF PreloadInv
<1>6. ReferencesFollowed'
  BY <1>1, SupplyKeepsFollowing
<1> QED
  BY <1>2, <1>3, <1>4, <1>5, <1>6 DEF PreloadInv

LEMMA BeginKeepsPreload ==
    ASSUME PreloadInv, NEW root \in Items, Begin(root)
    PROVE  PreloadInv'
<1>1. queue' \in Seq(Items) /\ resources' = <<>> /\ visited' = {} /\ reading' = None
  BY DEF Begin
<1>2. DOMAIN cached' = {} /\ DOMAIN resources' = {}
  BY <1>1 DEF Begin, NothingCached
<1>3. PreloadType'
  BY <1>1, <1>2 DEF Begin, PreloadInv, PreloadType
<1>4. Supplied' = {} /\ SuppliedUris' = {} /\ BeingRead' = {}
  BY <1>1, <1>2 DEF Supplied, SuppliedUris, BeingRead
<1> QED
  BY <1>1, <1>2, <1>3, <1>4
     DEF PreloadInv, KeyedByFile, Remembered, VisitedUris, SuppliedOnce, ReferencesFollowed

(* Whatever happens to the files, what was read stays as it was.            *)
LEMMA FilesKeepPreload ==
    ASSUME PreloadInv, UNCHANGED preload, text' \in Files
    PROVE  PreloadInv'
<1>1. PreloadType'
  BY DEF PreloadInv, PreloadType, preload
<1>2. KeyedByFile' /\ Remembered' /\ VisitedUris' /\ SuppliedOnce'
  BY DEF PreloadInv, KeyedByFile, Remembered, VisitedUris, SuppliedUris, BeingRead, SuppliedOnce,
         Supplied, Failures, File, preload
<1>3. ReferencesFollowed'
  BY DEF PreloadInv, ReferencesFollowed, Followed, Supplied, Failures, preload
<1> QED
  BY <1>1, <1>2, <1>3 DEF PreloadInv

LEMMA PreloadInvConsistent ==
    ASSUME PreloadInv
    PROVE  PreloadConsistent
<1>1. OneTextPerFile
  BY DEF PreloadInv, Remembered, OneTextPerFile
<1>2. ASSUME queue = <<>>, reading = None, NEW i \in Supplied,
             NEW n \in DOMAIN Refers[resources[i].text], IsLocal(Refers[resources[i].text][n])
      PROVE  \E j \in DOMAIN resources :
                resources[j].logical = Target(Refers[resources[i].text][n], resources[i]).logical
  <2> DEFINE t == resources[i].text
             uri == Target(Refers[t][n], resources[i]).logical
  <2>1. resources[i] \in Resource /\ t # Unreadable
    BY DEF PreloadInv, PreloadType, Supplied, Failures
  <2>2. t \in Texts
    BY <2>1 DEF Resource
  <2>3. PICK k \in DOMAIN LocalReferences(t) : LocalReferences(t)[k] = Refers[t][n]
    BY <1>2, <2>2, LocalsAreSelected
  <2>4. Followed(uri)
    BY <2>3 DEF PreloadInv, ReferencesFollowed
  <2>5. uri \in visited
    BY <1>2, <2>4 DEF Followed
  <2> HIDE DEF uri
  <2>6. uri \in SuppliedUris
    BY <1>2, <2>5 DEF PreloadInv, VisitedUris, BeingRead
  <2>7. \E j \in DOMAIN resources : resources[j].logical = uri
    BY <2>6 DEF SuppliedUris
  <2> QED
    BY <2>7 DEF uri
<1>3. GraphWhole
  BY <1>2 DEF GraphWhole, PreloadInv, SuppliedOnce
<1> QED
  BY <1>1, <1>3 DEF PreloadConsistent

----------------------------------------------------------------------------
(* What the command is at is an argument or a group, and a group is that of *)
(* a schema: only so does a preload begin with a reference.                 *)
Loads == {"pending", "valid", "invalid", "failed"}
Groups == [path : Schemas, load : Loads, emitted : BOOLEAN]

CommandType ==
    /\ args \in CommandLines
    /\ pc = "preflight" => args.command = "check"
    /\ next \in Nat \ {0}
    /\ groups \in Seq(Groups)
    /\ pc = "preload" => next <= Len(groups)

Inv == PreloadInv /\ CommandType

LEMMA GroupOf ==
    ASSUME NEW path \in Schemas
    PROVE  Group(path) \in Groups
BY DEF Group, Groups, Loads

LEMMA FilesOfLine ==
    ASSUME NEW line \in CommandLines
    PROVE  /\ line.schema \in Schemas \union {None}
           /\ line.command = "schema" => line.files \in Seq(Schemas)
           /\ line.command = "check" /\ line.schema = None => line.files \in Seq(DOMAIN Candidates)
BY ArgumentsNameSchemas

LEMMA CommandLine ==
    ASSUME NEW line \in CommandLines
    PROVE  line.command \in {"check", "schema"} /\ DOMAIN line.files = 1 .. Len(line.files)
           /\ Len(line.files) \in Nat
<1>1. line.command \in {"check", "schema"}
  BY ArgumentsNameSchemas
<1>2. PICK S : line.files \in Seq(S)
  BY ArgumentsNameSchemas
<1> QED
  BY <1>1, <1>2

LEMMA Least ==
    ASSUME NEW T, T \subseteq Nat, T # {}
    PROVE  \E m \in T : \A n \in T : m <= n
<1>1. PICK m \in T : \A n \in T : <<n, m>> \notin OpToRel(<, Nat)
  BY NatLessThanWellFounded, WFMin
<1>2. \A n \in T : ~ (n < m)
  BY <1>1 DEF OpToRel
<1> QED
  BY <1>2

(* Discovery finds one of the candidates, or nothing.                       *)
LEMMA DiscoveredSchema ==
    ASSUME NEW file \in DOMAIN Candidates
    PROVE  Discovered(file) \in Schemas \union {None}
<1> DEFINE paths == Candidates[file]
           stops == {i \in DOMAIN paths : kind[paths[i]] \in {"file", "inaccessible"}}
           first == CHOOSE i \in stops : \A j \in stops : i <= j
<1>1. paths \in Seq(Schemas)
  BY ArgumentsNameSchemas
<1>2. CASE stops = {}
  BY <1>2 DEF Discovered
<1>3. CASE stops # {}
  <2>1. stops \subseteq Nat
    BY <1>1
  <2>2. \E m \in stops : \A n \in stops : m <= n
    BY <1>3, <2>1, Least
  <2>3. first \in stops
    BY <2>2
  <2>4. paths[first] \in Schemas
    BY <1>1, <2>3
  <2> HIDE DEF first
  <2> QED
    BY <2>4 DEF Discovered, first
<1> QED
  BY <1>2, <1>3

LEMMA PreflightSchema ==
    ASSUME CommandType, pc = "preflight", next <= Len(args.files)
    PROVE  SchemaFor(args.files[next]) \in Schemas \union {None}
<1>1. CASE args.schema # None
  BY <1>1, FilesOfLine DEF CommandType, SchemaFor
<1>2. CASE args.schema = None
  <2>1. args.files \in Seq(DOMAIN Candidates) /\ next \in 1 .. Len(args.files)
    BY <1>2, FilesOfLine DEF CommandType
  <2>2. args.files[next] \in DOMAIN Candidates
    BY <2>1
  <2> QED
    BY <1>2, <2>2, DiscoveredSchema DEF SchemaFor
<1> QED
  BY <1>1, <1>2

LEMMA PreflightKeepsGroups ==
    ASSUME CommandType, Preflight
    PROVE  groups' \in Seq(Groups)
<1> DEFINE file == args.files[next]
           path == SchemaFor(file)
<1>1. path \in Schemas \union {None}
  BY PreflightSchema DEF Preflight
<1>2. groups' = IF GroupFor(path) = Len(groups) + 1 THEN Append(groups, Group(path)) ELSE groups
  BY DEF Preflight
<1> HIDE DEF path
<1>3. CASE path = None
  <2>1. GroupFor(path) = None /\ None \notin Nat
    BY <1>3, ArgumentsNameSchemas DEF GroupFor
  <2> QED
    BY <1>2, <2>1 DEF CommandType
<1>4. CASE path # None
  BY <1>1, <1>2, <1>4, GroupOf DEF CommandType
<1> QED
  BY <1>3, <1>4

LEMMA LoadedKeepsGroups ==
    ASSUME CommandType, next <= Len(groups), NEW load \in Loads, Loaded(load)
    PROVE  groups' \in Seq(Groups)
<1>1. next \in 1 .. Len(groups) /\ groups[next] \in Groups
  BY DEF CommandType
<1>2. [groups[next] EXCEPT !.load = load] \in Groups
  BY <1>1 DEF Groups
<1>3. groups' = [groups EXCEPT ![next] = [groups[next] EXCEPT !.load = load]]
  BY DEF Loaded
<1> QED
  BY <1>1, <1>2, <1>3, ExceptSeq DEF CommandType

LEMMA EmissionKeepsGroups ==
    ASSUME CommandType, EmitInvalidSchema
    PROVE  groups' \in Seq(Groups)
<1> DEFINE g == inputs[next].group
<1>1. groups' = [groups EXCEPT ![g] = [groups[g] EXCEPT !.emitted = TRUE]]
  BY DEF EmitInvalidSchema
<1> HIDE DEF g
<1>2. CASE g \in DOMAIN groups
  <2>1. g \in 1 .. Len(groups) /\ groups[g] \in Groups
    BY <1>2 DEF CommandType
  <2>2. [groups[g] EXCEPT !.emitted = TRUE] \in Groups
    BY <2>1 DEF Groups
  <2> QED
    BY <1>1, <2>1, <2>2, ExceptSeq DEF CommandType
<1>3. CASE g \notin DOMAIN groups
  <2>1. groups = [i \in 1 .. Len(groups) |-> groups[i]] /\ DOMAIN groups = 1 .. Len(groups)
    BY DEF CommandType
  <2>2. groups' = [i \in 1 .. Len(groups) |-> groups[i]]
    BY <1>1, <1>3, <2>1
  <2> QED
    BY <2>1, <2>2 DEF CommandType
<1> QED
  BY <1>2, <1>3

----------------------------------------------------------------------------
LEMMA InitInv == Init => Inv
<1> SUFFICES ASSUME Init PROVE Inv
  OBVIOUS
<1>1. PreloadType
  BY DEF Init, InitPreload, NothingCached, PreloadType
<1>2. DOMAIN resources = {} /\ visited = {} /\ reading = None
  BY DEF Init, InitPreload
<1>2a. Supplied = {} /\ SuppliedUris = {} /\ BeingRead = {}
  BY <1>2 DEF Supplied, SuppliedUris, BeingRead
<1>3. PreloadInv
  BY <1>1, <1>2, <1>2a DEF PreloadInv, KeyedByFile, Remembered, VisitedUris, SuppliedOnce, ReferencesFollowed
<1>4. groups \in Seq(Groups)
  <2>1. CASE args.command = "schema"
    <3>1. args.files \in Seq(Schemas)
      BY <2>1, FilesOfLine DEF Init
    <3>2. \A i \in 1 .. Len(args.files) : Group(args.files[i]) \in Groups
      BY <3>1, GroupOf
    <3> QED
      BY <2>1, <3>1, <3>2 DEF Init
  <2>2. CASE args.command # "schema"
    BY <2>2, FilesOfLine, GroupOf DEF Init
  <2> QED
    BY <2>1, <2>2
<1>5. pc = "preflight" => args.command = "check"
  BY DEF Init
<1> QED
  BY <1>3, <1>4, <1>5 DEF Inv, CommandType, Init

(* Every action keeps the invariant; most leave the preload alone.          *)
LEMMA NextKeepsInv == Inv /\ [Next]_vars => Inv'
<1> SUFFICES ASSUME Inv, [Next]_vars PROVE Inv'
  OBVIOUS
<1>0. PreloadInv /\ CommandType /\ text \in Files
  BY DEF Inv, PreloadInv, PreloadType
<1>a. UNCHANGED <<text, preload>> => PreloadInv'
  BY <1>0, FilesKeepPreload
<1>1. CASE Preflight
  <2>1. UNCHANGED <<text, preload, args, pc>> /\ next' = next + 1 /\ pc = "preflight"
    BY <1>1 DEF Preflight
  <2> QED
    BY <1>0, <1>1, <1>a, <2>1, PreflightKeepsGroups DEF Inv, CommandType
<1>2. ASSUME NEW from, NEW to, Proceed(from, to), to \notin {"preflight", "preload"}
      PROVE  Inv'
  BY <1>0, <1>2, <1>a DEF Proceed, command, Inv, CommandType
<1>3. CASE BeginLoading \/ BeginValidating \/ BeginFinishing
  BY <1>2, <1>3 DEF BeginLoading, BeginValidating, BeginFinishing
<1>4. ASSUME NEW load \in Loads, Loaded(load), next <= Len(groups), UNCHANGED <<text, preload>>
      PROVE  Inv'
  <2>1. UNCHANGED args /\ next' = next + 1 /\ pc' = "load"
    BY <1>4 DEF Loaded
  <2>2. groups' \in Seq(Groups)
    BY <1>0, <1>4, LoadedKeepsGroups
  <2> QED
    BY <1>0, <1>4, <1>a, <2>1, <2>2 DEF Inv, CommandType
<1>5. CASE ReadSchema
  <2> DEFINE path == groups[next].path
  <2>1. path \in Schemas /\ next <= Len(groups)
    <3>1. next \in 1 .. Len(groups)
      BY <1>0, <1>5 DEF ReadSchema, CommandType
    <3>2. groups[next] \in Groups
      BY <1>0, <3>1 DEF CommandType
    <3> QED
      BY <3>1, <3>2 DEF Groups
  <2>2. CASE \E load \in Loads : Loaded(load) /\ UNCHANGED <<text, preload>>
    BY <1>4, <2>1, <2>2
  <2>3. CASE /\ Link[path] # None /\ Begin(Link[path]) /\ pc' = "preload"
             /\ UNCHANGED <<args, kind, next, stdin, command, exit, changes>>
    <3>1. Link[path] \in Items
      BY <2>1, <2>3, ArgumentsNameSchemas
    <3>2. PreloadInv'
      BY <1>0, <2>3, <3>1, BeginKeepsPreload
    <3> QED
      BY <1>0, <2>1, <2>3, <3>2 DEF Inv, CommandType, command
  <2> QED
    BY <1>5, <2>2, <2>3 DEF ReadSchema, Loads
<1>6. CASE FetchResource
  BY <1>0, <1>6, FetchKeepsPreload DEF FetchResource, Inv, CommandType, command
<1>6a. CASE SupplyResource
  BY <1>0, <1>6a, SupplyKeepsPreload DEF SupplyResource, Inv, CommandType, command
<1>7. CASE JudgeSchema
  <2>1. next <= Len(groups) /\ UNCHANGED <<text, preload>>
    BY <1>0, <1>7 DEF JudgeSchema, CommandType
  <2>2. \E load \in Loads : Loaded(load)
    BY <1>7 DEF JudgeSchema, Loads
  <2> QED
    BY <1>4, <2>1, <2>2
<1>8. CASE Validate
  <2>1. UNCHANGED <<text, preload, args, pc, groups>> /\ next' = next + 1 /\ pc = "validate"
    BY <1>8 DEF Validate, Validated
  <2> QED
    BY <1>0, <1>a, <2>1 DEF Inv, CommandType
<1>9. CASE EmitInvalidSchema
  BY <1>0, <1>9, <1>a, EmissionKeepsGroups DEF EmitInvalidSchema, Validated, Inv, CommandType
<1>10. CASE SkipInput
  BY <1>0, <1>10, <1>a DEF SkipInput, Validated, Inv, CommandType
<1>11. CASE Finish
  BY <1>0, <1>11, <1>a DEF Finish, Inv, CommandType, command
<1>12. CASE FilesChange
  <2>1. text' \in Files /\ UNCHANGED preload
    BY <1>0, <1>12 DEF FilesChange, Files
  <2> QED
    BY <1>0, <1>12, <2>1, FilesKeepPreload DEF FilesChange, Inv, CommandType, command
<1>13. CASE UNCHANGED vars
  BY <1>0, <1>13, <1>a DEF vars, Inv, CommandType, command
<1> QED
  BY <1>1, <1>3, <1>5, <1>6, <1>6a, <1>7, <1>8, <1>9, <1>10, <1>11, <1>12, <1>13 DEF Next, Step

(* In every reachable state what a preload has read is remembered under its *)
(* file, supplied once, and followed or queued.                             *)
THEOREM InvariantHolds == Spec => []Inv
BY InitInv, NextKeepsInv, PTL DEF Spec

(* The check commands compile one consistent set of linked schema files,    *)
(* whatever the references among them and however they change meanwhile.    *)
THEOREM PreloadsAreConsistent == Spec => []PreloadConsistent
<1>1. Inv => PreloadConsistent
  BY PreloadInvConsistent DEF Inv
<1> QED
  BY <1>1, InvariantHolds, PTL

-----------------------------------------------------------------------------
(* Exit status 0: what each phase has established about the arguments, the  *)
(* groups and the documents it has passed, as long as nothing went wrong.   *)
Errors  == [what : {"source", "schema", "load", "document"}, at : Nat]
Results == [about : {"schema", "document"}, at : Nat, diagnostics : BOOLEAN]
Inputs  == [source : {"text", "unreadable"}, group : Nat \union {None}]

OutputType ==
    /\ errors \in Seq(Errors)
    /\ results \in Seq(Results)
    /\ inputs \in Seq(Inputs)
    /\ stdin \in {None, "text", "unreadable"}
    /\ pc \in {"preflight", "load", "preload", "validate", "finish", "done"}

NoDiagnostics == \A i \in DOMAIN results : ~results[i].diagnostics

InputsRead ==
    args.command = "check" =>
        /\ pc = "preflight" => next <= Len(args.files) + 1
        /\ Len(inputs) = IF pc = "preflight" THEN next - 1 ELSE Len(args.files)
        /\ errors = <<>> => \A n \in DOMAIN inputs :
              inputs[n].source = "text" /\ inputs[n].group \in DOMAIN groups

PassedGroup(g) == IF pc \in {"load", "preload"} THEN g < next ELSE pc \in {"validate", "finish", "done"}
GroupsLoaded ==
    /\ args.command = "schema" => Len(groups) = Len(args.files) /\ pc \notin {"preflight", "validate"}
    /\ \A g \in DOMAIN groups : PassedGroup(g) =>
          /\ groups[g].load # "pending"
          /\ errors = <<>> => groups[g].load # "failed"
          /\ args.command = "schema" /\ groups[g].load # "failed" => HasResult("schema", g)

(* A schema is emitted with diagnostics: this is what makes it right to pass *)
(* over the documents that follow.                                          *)
EmittedWithDiagnostics ==
    \A g \in DOMAIN groups : groups[g].emitted => ~NoDiagnostics

PassedInput(n) == IF pc = "validate" THEN n < next ELSE pc \in {"finish", "done"}
InputsValidated ==
    args.command = "check" /\ errors = <<>> /\ NoDiagnostics =>
        \A n \in DOMAIN inputs : PassedInput(n) => HasResult("document", n)

ExitDecided ==
    /\ pc # "done" => exit = None
    /\ exit = 0 => pc = "done" /\ errors = <<>> /\ NoDiagnostics

ZeroInv == /\ OutputType /\ InputsRead /\ GroupsLoaded
           /\ EmittedWithDiagnostics /\ InputsValidated /\ ExitDecided

LEMMA ZeroInvValid ==
    ASSUME CommandType, ZeroInv
    PROVE  ZeroMeansAllValid
<1> SUFFICES ASSUME exit = 0
             PROVE  /\ \A n \in DOMAIN args.files : ArgumentResult(n)
                    /\ NoDiagnostics
  BY DEF ZeroMeansAllValid, NoDiagnostics
<1>1. pc = "done" /\ errors = <<>> /\ NoDiagnostics
  BY DEF ZeroInv, ExitDecided
<1>2. ASSUME NEW n \in DOMAIN args.files PROVE ArgumentResult(n)
  <2>0. args \in CommandLines /\ args.command \in {"check", "schema"} /\ DOMAIN args.files = 1 .. Len(args.files)
    BY CommandLine DEF CommandType
  <2>1. CASE args.command = "check"
    <3>1. n \in DOMAIN inputs
      BY <1>1, <1>2, <2>0, <2>1 DEF ZeroInv, InputsRead, OutputType
    <3> QED
      BY <1>1, <2>1, <3>1 DEF ZeroInv, InputsValidated, PassedInput, ArgumentResult
  <2>2. CASE args.command = "schema"
    <3>1. n \in DOMAIN groups
      BY <1>1, <1>2, <2>0, <2>2 DEF ZeroInv, GroupsLoaded, CommandType
    <3> QED
      BY <1>1, <2>2, <3>1 DEF ZeroInv, GroupsLoaded, PassedGroup, ArgumentResult
  <2> QED
    BY <2>0, <2>1, <2>2
<1> QED
  BY <1>1, <1>2

(* Results and errors are only added: what was said stays said.             *)
LEMMA OutputGrows ==
    ASSUME OutputType, NEW r \in Seq(Results), NEW e \in Seq(Errors),
           results' = results \o r, errors' = errors \o e
    PROVE  /\ results' \in Seq(Results) /\ errors' \in Seq(Errors)
           /\ errors' = <<>> => errors = <<>> /\ e = <<>>
           /\ NoDiagnostics' => NoDiagnostics /\ \A k \in DOMAIN r : ~r[k].diagnostics
           /\ \A about, at : HasResult(about, at) => HasResult(about, at)'
           /\ \A k \in DOMAIN r : HasResult(r[k].about, r[k].at)'
<1>1. results \in Seq(Results) /\ errors \in Seq(Errors)
  BY DEF OutputType
<1>2. /\ results' \in Seq(Results)
      /\ \A i \in DOMAIN results : i \in DOMAIN results' /\ results'[i] = results[i]
      /\ \A k \in DOMAIN r : Len(results) + k \in DOMAIN results' /\ results'[Len(results) + k] = r[k]
  BY <1>1, JoinedEntries
<1>3. errors' \in Seq(Errors) /\ (errors' = <<>> => errors = <<>> /\ e = <<>>)
  BY <1>1
<1>4. NoDiagnostics' => NoDiagnostics /\ \A k \in DOMAIN r : ~r[k].diagnostics
  BY <1>2 DEF NoDiagnostics
<1>5. \A about, at : HasResult(about, at) => HasResult(about, at)'
  BY <1>2 DEF HasResult
<1>6. \A k \in DOMAIN r : HasResult(r[k].about, r[k].at)'
  BY <1>2 DEF HasResult
<1> QED
  BY <1>2, <1>3, <1>4, <1>5, <1>6

(* A preload leaves the output alone, and so do the files.                  *)
LEMMA OutputKept ==
    ASSUME ZeroInv, UNCHANGED <<args, next, stdin, command, exit>>,
           pc' = pc \/ (pc = "load" /\ pc' = "preload")
    PROVE  ZeroInv'
<1> USE DEF command
<1>1. OutputType' /\ ExitDecided'
  BY DEF ZeroInv, OutputType, ExitDecided, NoDiagnostics
<1>2. InputsRead'
  BY DEF ZeroInv, InputsRead
<1>3. GroupsLoaded'
  BY DEF ZeroInv, GroupsLoaded, PassedGroup, HasResult
<1>4. EmittedWithDiagnostics' /\ InputsValidated'
  BY DEF ZeroInv, EmittedWithDiagnostics, InputsValidated, PassedInput, HasResult, NoDiagnostics
<1> QED
  BY <1>1, <1>2, <1>3, <1>4 DEF ZeroInv

LEMMA BeginLoadingKeepsZero ==
    ASSUME CommandType, ZeroInv, BeginLoading
    PROVE  ZeroInv'
<1>1. /\ pc = "preflight" /\ pc' = "load" /\ next' = 1 /\ next > Len(args.files)
      /\ UNCHANGED <<args, stdin, inputs, groups, results, errors, exit>>
  BY DEF BeginLoading, Proceed, command
<1>2. args.command = "check" /\ next \in Nat /\ Len(args.files) \in Nat
  BY <1>1, CommandLine DEF CommandType
<1>3. OutputType' /\ ExitDecided' /\ EmittedWithDiagnostics'
  BY <1>1 DEF ZeroInv, OutputType, ExitDecided, EmittedWithDiagnostics, NoDiagnostics
<1>4. InputsRead'
  BY <1>1, <1>2 DEF ZeroInv, InputsRead
<1>5. GroupsLoaded'
  BY <1>1, <1>2 DEF CommandType, GroupsLoaded, PassedGroup
<1>6. InputsValidated'
  BY <1>1 DEF InputsValidated, PassedInput
<1> QED
  BY <1>3, <1>4, <1>5, <1>6 DEF ZeroInv

LEMMA BeginValidatingKeepsZero ==
    ASSUME CommandType, ZeroInv, BeginValidating
    PROVE  ZeroInv'
<1>1. /\ pc = "load" /\ pc' = (IF args.command = "check" THEN "validate" ELSE "finish")
      /\ next' = 1 /\ next > Len(groups)
      /\ UNCHANGED <<args, stdin, inputs, groups, results, errors, exit>>
  BY DEF BeginValidating, Proceed, command
<1>2. \A g \in DOMAIN groups : PassedGroup(g)
  BY <1>1 DEF CommandType, PassedGroup
<1>3. OutputType' /\ ExitDecided' /\ EmittedWithDiagnostics'
  BY <1>1 DEF ZeroInv, OutputType, ExitDecided, EmittedWithDiagnostics, NoDiagnostics
<1>4. InputsRead'
  BY <1>1 DEF ZeroInv, InputsRead
<1>5. GroupsLoaded'
  BY <1>1, <1>2 DEF ZeroInv, GroupsLoaded, HasResult
<1>6. InputsValidated'
  BY <1>1 DEF ZeroInv, OutputType, InputsValidated, PassedInput
<1> QED
  BY <1>3, <1>4, <1>5, <1>6 DEF ZeroInv

LEMMA BeginFinishingKeepsZero ==
    ASSUME CommandType, ZeroInv, BeginFinishing
    PROVE  ZeroInv'
<1>1. /\ pc = "validate" /\ pc' = "finish" /\ next' = 1 /\ next > Len(inputs)
      /\ UNCHANGED <<args, stdin, inputs, groups, results, errors, exit>>
  BY DEF BeginFinishing, Proceed, command
<1>2. \A n \in DOMAIN inputs : PassedInput(n)
  BY <1>1 DEF ZeroInv, OutputType, CommandType, PassedInput
<1>3. OutputType' /\ ExitDecided' /\ EmittedWithDiagnostics'
  BY <1>1 DEF ZeroInv, OutputType, ExitDecided, EmittedWithDiagnostics, NoDiagnostics
<1>4. InputsRead'
  BY <1>1 DEF ZeroInv, InputsRead
<1>5. GroupsLoaded'
  BY <1>1 DEF ZeroInv, GroupsLoaded, PassedGroup, HasResult
<1>6. InputsValidated'
  BY <1>1, <1>2 DEF ZeroInv, InputsValidated, HasResult, NoDiagnostics
<1> QED
  BY <1>3, <1>4, <1>5, <1>6 DEF ZeroInv

LEMMA FinishKeepsZero ==
    ASSUME CommandType, ZeroInv, Finish
    PROVE  ZeroInv'
<1>1. /\ pc = "finish" /\ pc' = "done"
      /\ UNCHANGED <<args, next, stdin, inputs, groups, results, errors>>
      /\ exit' = 0 => errors = <<>> /\ NoDiagnostics
  BY DEF Finish, command, Exit, NoDiagnostics
<1>2. OutputType' /\ ExitDecided' /\ EmittedWithDiagnostics'
  BY <1>1 DEF ZeroInv, OutputType, ExitDecided, EmittedWithDiagnostics, NoDiagnostics
<1>3. InputsRead'
  BY <1>1 DEF ZeroInv, InputsRead
<1>4. GroupsLoaded'
  BY <1>1 DEF ZeroInv, GroupsLoaded, PassedGroup, HasResult
<1>5. InputsValidated'
  BY <1>1 DEF ZeroInv, InputsValidated, PassedInput, HasResult, NoDiagnostics
<1> QED
  BY <1>2, <1>3, <1>4, <1>5 DEF ZeroInv

(* An argument that could be read, of which a schema was found, has a group. *)
LEMMA GroupForPath ==
    ASSUME CommandType, NEW path \in Schemas \union {None},
           groups' = IF GroupFor(path) = Len(groups) + 1 THEN Append(groups, Group(path)) ELSE groups
    PROVE  /\ GroupFor(path) \in Nat \union {None}
           /\ path # None => GroupFor(path) \in DOMAIN groups'
           /\ \A g \in DOMAIN groups : g \in DOMAIN groups'
           /\ \A g \in DOMAIN groups' : groups'[g].emitted =>
                 g \in DOMAIN groups /\ groups[g].emitted
<1>1. groups \in Seq(Groups) /\ DOMAIN groups = 1 .. Len(groups) /\ Len(groups) \in Nat
  BY DEF CommandType
<1>2. GroupAt(path) \subseteq DOMAIN groups /\ None \notin Nat
  BY ArgumentsNameSchemas DEF GroupAt
<1>3. CASE path = None
  <2>1. GroupFor(path) = None
    BY <1>3 DEF GroupFor
  <2>2. GroupFor(path) # Len(groups) + 1
    BY <1>1, <1>2, <2>1
  <2>3. groups' = groups
    BY <2>2
  <2> QED
    BY <1>3, <2>1, <2>3
<1>4. CASE path # None /\ GroupAt(path) # {}
  <2>1. GroupFor(path) \in DOMAIN groups
    BY <1>2, <1>4 DEF GroupFor
  <2>2. GroupFor(path) # Len(groups) + 1
    BY <1>1, <2>1
  <2>3. groups' = groups
    BY <2>2
  <2>4. GroupFor(path) \in Nat
    BY <1>1, <2>1
  <2>5. DOMAIN groups' = DOMAIN groups
    BY <2>3
  <2> QED
    BY <2>1, <2>3, <2>4, <2>5
<1>5. CASE path # None /\ GroupAt(path) = {}
  <2>1. GroupFor(path) = Len(groups) + 1 /\ groups' = Append(groups, Group(path))
    BY <1>5 DEF GroupFor
  <2>2. Group(path) \in Groups /\ ~Group(path).emitted
    BY <1>5, GroupOf DEF Group
  <2>3. /\ DOMAIN groups' = 1 .. Len(groups) + 1 /\ groups'[Len(groups) + 1] = Group(path)
        /\ \A g \in DOMAIN groups : groups'[g] = groups[g]
    BY <1>1, <2>1, <2>2, Appended
  <2> QED
    BY <1>1, <2>1, <2>2, <2>3
<1> QED
  BY <1>3, <1>4, <1>5

LEMMA PreflightKeepsZero ==
    ASSUME CommandType, ZeroInv, Preflight
    PROVE  ZeroInv'
<1> DEFINE path == SchemaFor(args.files[next])
           unreadable(source) == IF source = "unreadable" THEN <<ErrorAbout("source", next)>> ELSE <<>>
           unfound == IF path = None THEN <<ErrorAbout("schema", next)>> ELSE <<>>
<1>1. PICK source \in Sources(args.files[next]) :
        /\ stdin' = IF args.files[next] = Stdin THEN source ELSE stdin
        /\ inputs' = Append(inputs, [source |-> source, group |-> GroupFor(path)])
        /\ groups' = IF GroupFor(path) = Len(groups) + 1 THEN Append(groups, Group(path)) ELSE groups
        /\ errors' = errors \o unreadable(source) \o unfound
  BY DEF Preflight
<1>2. /\ pc = "preflight" /\ pc' = "preflight" /\ next' = next + 1 /\ next <= Len(args.files)
      /\ UNCHANGED <<args, results, exit>>
  BY DEF Preflight
<1>3. /\ args.command = "check" /\ next \in Nat \ {0} /\ Len(args.files) \in Nat
      /\ inputs \in Seq(Inputs) /\ errors \in Seq(Errors) /\ Len(inputs) = next - 1
  BY <1>2, CommandLine DEF CommandType, ZeroInv, OutputType, InputsRead
<1>4. path \in Schemas \union {None}
  BY <1>2, PreflightSchema
<1>5. source \in {"text", "unreadable"}
  BY DEF Sources, ZeroInv, OutputType
<1>6. /\ GroupFor(path) \in Nat \union {None}
      /\ path # None => GroupFor(path) \in DOMAIN groups'
      /\ \A g \in DOMAIN groups : g \in DOMAIN groups'
      /\ \A g \in DOMAIN groups' : groups'[g].emitted => g \in DOMAIN groups /\ groups[g].emitted
  BY <1>1, <1>4, GroupForPath
<1>7. unreadable(source) \in Seq(Errors) /\ unfound \in Seq(Errors)
  <2>1. ErrorAbout("source", next) \in Errors /\ ErrorAbout("schema", next) \in Errors
    BY <1>3 DEF Errors, ErrorAbout
  <2> QED
    BY <2>1
<1>8. /\ errors' \in Seq(Errors)
      /\ errors' = <<>> => errors = <<>> /\ source = "text" /\ path # None
  <2>1. errors' \in Seq(Errors) /\ (errors' = <<>> => errors = <<>> /\ unreadable(source) = <<>> /\ unfound = <<>>)
    <3> HIDE DEF unreadable, unfound
    <3> QED
      BY <1>1, <1>3, <1>7, JoinedEmpty
  <2>2. (unreadable(source) = <<>> => source # "unreadable") /\ (unfound = <<>> => path # None)
    OBVIOUS
  <2> QED
    BY <1>5, <2>1, <2>2
<1>9. [source |-> source, group |-> GroupFor(path)] \in Inputs
  BY <1>5, <1>6 DEF Inputs
<1> HIDE DEF path, unreadable, unfound
<1>10. /\ inputs' \in Seq(Inputs) /\ Len(inputs') = next /\ DOMAIN inputs' = 1 .. Len(inputs) + 1
       /\ \A n \in DOMAIN inputs : inputs'[n] = inputs[n]
       /\ inputs'[Len(inputs) + 1] = [source |-> source, group |-> GroupFor(path)]
       /\ DOMAIN inputs = 1 .. Len(inputs)
  BY <1>1, <1>3, <1>9, Appended
<1>11. OutputType'
  BY <1>1, <1>2, <1>5, <1>8, <1>10 DEF ZeroInv, OutputType
<1>12. InputsRead'
  <2>1. ASSUME errors' = <<>>, NEW n \in DOMAIN inputs'
        PROVE  inputs'[n].source = "text" /\ inputs'[n].group \in DOMAIN groups'
    <3>1. CASE n = Len(inputs) + 1
      BY <1>6, <1>8, <1>10, <2>1, <3>1
    <3>2. CASE n # Len(inputs) + 1
      BY <1>3, <1>6, <1>8, <1>10, <2>1, <3>2 DEF ZeroInv, InputsRead
    <3> QED
      BY <3>1, <3>2
  <2> QED
    BY <1>2, <1>3, <1>10, <2>1 DEF InputsRead
<1>13. GroupsLoaded'
  BY <1>2, <1>3 DEF GroupsLoaded, PassedGroup
<1>14. EmittedWithDiagnostics'
  BY <1>2, <1>6 DEF ZeroInv, EmittedWithDiagnostics, NoDiagnostics
<1>15. InputsValidated' /\ ExitDecided'
  BY <1>2, ArgumentsNameSchemas DEF ZeroInv, InputsValidated, PassedInput, ExitDecided
<1> QED
  BY <1>11, <1>12, <1>13, <1>14, <1>15 DEF ZeroInv

LEMMA LoadedOutput ==
    ASSUME CommandType, next \in Nat, NEW load \in {"valid", "invalid", "failed"}, Loaded(load)
    PROVE  \E r \in Seq(Results), e \in Seq(Errors) :
              /\ results' = results \o r /\ errors' = errors \o e
              /\ e = <<>> => load # "failed"
              /\ args.command = "schema" /\ load # "failed" =>
                    \E k \in DOMAIN r : r[k].about = "schema" /\ r[k].at = next
<1> DEFINE said   == Result("schema", next, load = "invalid")
           r      == IF args.command = "schema" /\ load # "failed" THEN <<said>> ELSE <<>>
           failed == ErrorAbout("load", next)
           e      == IF load = "failed" THEN <<failed>> ELSE <<>>
<1>1. said \in Results /\ said.about = "schema" /\ said.at = next /\ failed \in Errors
  BY DEF Results, Errors, Result, ErrorAbout
<1>2. results' = results \o r /\ errors' = errors \o e
  BY DEF Loaded
<1> HIDE DEF said, failed
<1>3. r \in Seq(Results) /\ e \in Seq(Errors) /\ (e = <<>> => load # "failed")
  BY <1>1
<1>4. args.command = "schema" /\ load # "failed" => 1 \in DOMAIN r /\ r[1] = said
  OBVIOUS
<1> HIDE DEF r, e
<1> QED
  BY <1>1, <1>2, <1>3, <1>4

LEMMA LoadedKeepsZero ==
    ASSUME CommandType, ZeroInv, pc \in {"load", "preload"}, next <= Len(groups),
           NEW load \in {"valid", "invalid", "failed"}, Loaded(load)
    PROVE  ZeroInv'
<1>1. /\ pc' = "load" /\ next' = next + 1 /\ UNCHANGED <<inputs, args, stdin, exit>>
      /\ groups' = [groups EXCEPT ![next].load = load]
  BY DEF Loaded
<1>2. next \in 1 .. Len(groups) /\ next \in Nat /\ groups \in Seq(Groups) /\ DOMAIN groups = 1 .. Len(groups)
  BY DEF CommandType
<1>3. PICK r \in Seq(Results), e \in Seq(Errors) :
        /\ results' = results \o r /\ errors' = errors \o e
        /\ e = <<>> => load # "failed"
        /\ args.command = "schema" /\ load # "failed" =>
              \E k \in DOMAIN r : r[k].about = "schema" /\ r[k].at = next
  BY <1>2, LoadedOutput
<1>4. /\ results' \in Seq(Results) /\ errors' \in Seq(Errors)
      /\ errors' = <<>> => errors = <<>> /\ e = <<>>
      /\ NoDiagnostics' => NoDiagnostics
      /\ \A about, at : HasResult(about, at) => HasResult(about, at)'
      /\ \A k \in DOMAIN r : HasResult(r[k].about, r[k].at)'
  BY <1>3, OutputGrows DEF ZeroInv
<1>5. /\ DOMAIN groups' = DOMAIN groups /\ Len(groups') = Len(groups)
      /\ groups'[next].load = load
      /\ \A g \in DOMAIN groups : groups'[g].emitted = groups[g].emitted
                                 /\ (g # next => groups'[g].load = groups[g].load)
  <2>1. groups[next] \in Groups
    BY <1>2
  <2>2. [groups[next] EXCEPT !.load = load] \in Groups
    BY <2>1 DEF Groups, Loads
  <2>3. groups' = [groups EXCEPT ![next] = [groups[next] EXCEPT !.load = load]]
    BY <1>1
  <2>4. Len(groups') = Len(groups) /\ groups' \in Seq(Groups)
    BY <1>2, <2>2, <2>3, ExceptSeq
  <2>5. [groups[next] EXCEPT !.load = load].load = load
        /\ [groups[next] EXCEPT !.load = load].emitted = groups[next].emitted
    BY <2>1 DEF Groups
  <2> QED
    BY <1>2, <2>3, <2>4, <2>5
<1>6. OutputType'
  BY <1>1, <1>4 DEF ZeroInv, OutputType
<1>7. InputsRead'
  BY <1>1, <1>4, <1>5 DEF ZeroInv, InputsRead
<1>8. GroupsLoaded'
  <2>1. args'.command = "schema" => Len(groups') = Len(args'.files) /\ pc' \notin {"preflight", "validate"}
    BY <1>1, <1>5 DEF ZeroInv, GroupsLoaded
  <2>2. ASSUME NEW g \in DOMAIN groups', PassedGroup(g)'
        PROVE  /\ groups'[g].load # "pending"
               /\ errors' = <<>> => groups'[g].load # "failed"
               /\ args'.command = "schema" /\ groups'[g].load # "failed" => HasResult("schema", g)'
    <3>1. CASE g = next
      BY <1>1, <1>3, <1>4, <1>5, <3>1
    <3>2. CASE g # next
      <4>1. PassedGroup(g) /\ g \in DOMAIN groups
        BY <1>1, <1>2, <1>5, <2>2, <3>2 DEF PassedGroup
      <4> QED
        BY <1>1, <1>4, <1>5, <3>2, <4>1 DEF ZeroInv, GroupsLoaded
    <3> QED
      BY <3>1, <3>2
  <2> QED
    BY <2>1, <2>2 DEF GroupsLoaded
<1>9. EmittedWithDiagnostics'
  BY <1>4, <1>5 DEF ZeroInv, EmittedWithDiagnostics
<1>10. InputsValidated'
  BY <1>1 DEF InputsValidated, PassedInput
<1>11. ExitDecided'
  BY <1>1, ArgumentsNameSchemas DEF ZeroInv, ExitDecided
<1> QED
  BY <1>6, <1>7, <1>8, <1>9, <1>10, <1>11 DEF ZeroInv

(* A document is passed with a result of its own, or the output says what   *)
(* is wrong.                                                                *)
LEMMA InputPassed ==
    ASSUME CommandType, ZeroInv, pc = "validate", pc' = "validate", next' = next + 1,
           UNCHANGED <<args, stdin, inputs, exit>>,
           NEW r \in Seq(Results), NEW e \in Seq(Errors), results' = results \o r, errors' = errors \o e,
           DOMAIN groups' = DOMAIN groups, Len(groups') = Len(groups),
           \A g \in DOMAIN groups :
              /\ groups'[g].load = groups[g].load
              /\ groups'[g].emitted => groups[g].emitted \/ \E k \in DOMAIN r : r[k].diagnostics,
           errors = <<>> /\ e = <<>> /\ NoDiagnostics =>
              \E k \in DOMAIN r : r[k].diagnostics \/ (r[k].about = "document" /\ r[k].at = next)
    PROVE  ZeroInv'
<1>1. /\ results' \in Seq(Results) /\ errors' \in Seq(Errors)
      /\ errors' = <<>> => errors = <<>> /\ e = <<>>
      /\ NoDiagnostics' => NoDiagnostics /\ \A k \in DOMAIN r : ~r[k].diagnostics
      /\ \A about, at : HasResult(about, at) => HasResult(about, at)'
      /\ \A k \in DOMAIN r : HasResult(r[k].about, r[k].at)'
  BY OutputGrows DEF ZeroInv
<1>2. OutputType' /\ ExitDecided'
  BY <1>1, ArgumentsNameSchemas DEF ZeroInv, OutputType, ExitDecided
<1>3. InputsRead'
  BY <1>1 DEF ZeroInv, InputsRead
<1>4. GroupsLoaded'
  BY <1>1 DEF ZeroInv, GroupsLoaded, PassedGroup
<1>5. EmittedWithDiagnostics'
  BY <1>1 DEF ZeroInv, EmittedWithDiagnostics
<1>6. ASSUME args'.command = "check", errors' = <<>>, NoDiagnostics',
             NEW n \in DOMAIN inputs', PassedInput(n)'
      PROVE  HasResult("document", n)'
  <2>1. CASE n = next
    BY <1>1, <1>6, <2>1
  <2>2. CASE n # next
    <3>1. PassedInput(n)
      BY <1>6, <2>2 DEF PassedInput, CommandType, ZeroInv, OutputType
    <3> QED
      BY <1>1, <1>6, <3>1 DEF ZeroInv, InputsValidated
  <2> QED
    BY <2>1, <2>2
<1>7. InputsValidated'
  BY <1>6 DEF InputsValidated
<1> QED
  BY <1>2, <1>3, <1>4, <1>5, <1>7 DEF ZeroInv

LEMMA ValidateKeepsZero ==
    ASSUME CommandType, ZeroInv, Validate
    PROVE  ZeroInv'
<1>1. next \in Nat /\ pc = "validate" /\ UNCHANGED groups
  BY DEF CommandType, Validate
<1>2. CASE \E diagnostics \in BOOLEAN : Validated(<<Result("document", next, diagnostics)>>, <<>>)
  <2>1. PICK diagnostics \in BOOLEAN : Validated(<<Result("document", next, diagnostics)>>, <<>>)
    BY <1>2
  <2>2. PICK said \in Results : said = Result("document", next, diagnostics)
    BY <1>1 DEF Results, Result
  <2>3. said.about = "document" /\ said.at = next
    BY <2>2 DEF Result
  <2>4. PICK r \in Seq(Results) : r = <<said>> /\ 1 \in DOMAIN r /\ r[1] = said
    BY OneEntry
  <2>5. PICK e \in Seq(Errors) : e = <<>>
    BY NoEntry
  <2>6. /\ results' = results \o r /\ errors' = errors \o e /\ pc' = "validate" /\ next' = next + 1
        /\ UNCHANGED <<args, stdin, inputs, exit>>
    BY <1>1, <2>1, <2>2, <2>4, <2>5 DEF Validated
  <2> QED
    BY <1>1, <2>3, <2>4, <2>6, InputPassed
<1>3. CASE Validated(<<>>, <<ErrorAbout("document", next)>>)
  <2>1. PICK said \in Errors : said = ErrorAbout("document", next)
    BY <1>1 DEF Errors, ErrorAbout
  <2>2. PICK e \in Seq(Errors) : e = <<said>> /\ e # <<>>
    BY OneEntry
  <2>3. PICK r \in Seq(Results) : r = <<>>
    BY NoEntry
  <2>4. /\ results' = results \o r /\ errors' = errors \o e /\ pc' = "validate" /\ next' = next + 1
        /\ UNCHANGED <<args, stdin, inputs, exit>>
    BY <1>1, <1>3, <2>1, <2>2, <2>3 DEF Validated
  <2> QED
    BY <1>1, <2>2, <2>4, InputPassed
<1> QED
  BY <1>2, <1>3 DEF Validate

LEMMA EmissionKeepsZero ==
    ASSUME CommandType, ZeroInv, EmitInvalidSchema
    PROVE  ZeroInv'
<1> DEFINE g == inputs[next].group
<1>1. /\ pc = "validate" /\ next \in 1 .. Len(inputs) /\ LoadHere = "invalid"
      /\ groups' = [groups EXCEPT ![g].emitted = TRUE]
      /\ Validated(<<Result("schema", g, TRUE)>>, <<>>)
  BY DEF CommandType, ZeroInv, OutputType, EmitInvalidSchema
<1>2. inputs[next] \in Inputs /\ g # None
  BY <1>1 DEF ZeroInv, OutputType, LoadHere
<1>3. g \in Nat
  BY <1>2 DEF Inputs
<1>4. PICK said \in Results : said = Result("schema", g, TRUE)
  BY <1>3 DEF Results, Result
<1>5. said.diagnostics
  BY <1>4 DEF Result
<1>6. PICK r \in Seq(Results) : r = <<said>> /\ 1 \in DOMAIN r /\ r[1] = said
  BY OneEntry
<1>7. PICK e \in Seq(Errors) : e = <<>>
  BY NoEntry
<1>8. /\ results' = results \o r /\ errors' = errors \o e /\ pc' = "validate" /\ next' = next + 1
      /\ UNCHANGED <<args, stdin, inputs, exit>>
  BY <1>1, <1>4, <1>6, <1>7 DEF Validated
<1>9. /\ groups \in Seq(Groups) /\ groups' \in Seq(Groups) /\ DOMAIN groups' = DOMAIN groups
       /\ \A i \in DOMAIN groups : groups'[i].load = groups[i].load
  <2>1. groups \in Seq(Groups) /\ groups' \in Seq(Groups)
    BY EmissionKeepsGroups DEF CommandType
  <2>2. DOMAIN groups' = DOMAIN groups
    BY <1>1
  <2>3. \A i \in DOMAIN groups : groups[i] \in Groups
    BY <2>1
  <2>4. \A i \in DOMAIN groups : groups'[i].load = groups[i].load
    BY <1>1, <2>3 DEF Groups
  <2> QED
    BY <2>1, <2>2, <2>4
<1>10. Len(groups') = Len(groups)
  BY <1>9
<1> QED
  BY <1>1, <1>5, <1>6, <1>8, <1>9, <1>10, InputPassed

(* What is passed over in silence has an error, or diagnostics elsewhere.   *)
LEMMA SkipKeepsZero ==
    ASSUME CommandType, ZeroInv, SkipInput
    PROVE  ZeroInv'
<1>1. /\ pc = "validate" /\ next \in 1 .. Len(inputs) /\ UNCHANGED groups /\ Validated(<<>>, <<>>)
  BY DEF CommandType, ZeroInv, OutputType, SkipInput
<1>2. ASSUME errors = <<>>, NoDiagnostics
      PROVE  FALSE
  <2> DEFINE g == inputs[next].group
  <2>1. args.command = "check"
    <3>1. args.command \in {"check", "schema"}
      BY CommandLine DEF CommandType
    <3> QED
      BY <1>1, <3>1 DEF ZeroInv, GroupsLoaded
  <2>2. inputs[next].source = "text" /\ g \in DOMAIN groups /\ g # None
    <3>1. inputs[next].source = "text" /\ g \in DOMAIN groups
      BY <1>1, <1>2, <2>1 DEF ZeroInv, InputsRead, OutputType
    <3>2. None \notin Nat
      BY ArgumentsNameSchemas
    <3> QED
      BY <3>1, <3>2 DEF CommandType
  <2>3. LoadHere = groups[g].load /\ Emitted = groups[g].emitted
    BY <2>2 DEF LoadHere, Emitted
  <2>4. groups[g] \in Groups
    BY <2>2 DEF CommandType
  <2>5. groups[g].load \in {"valid", "invalid"}
    BY <1>1, <1>2, <2>2, <2>4 DEF ZeroInv, GroupsLoaded, PassedGroup, Groups, Loads
  <2>6. ~groups[g].emitted
    BY <1>2, <2>2 DEF ZeroInv, EmittedWithDiagnostics
  <2>7. CASE LoadHere = "valid"
    BY <2>2, <2>7 DEF SkipInput
  <2>8. CASE LoadHere = "invalid"
    BY <2>3, <2>6, <2>8 DEF SkipInput
  <2> QED
    BY <2>3, <2>5, <2>7, <2>8
<1>3. PICK r \in Seq(Results), e \in Seq(Errors) : r = <<>> /\ e = <<>>
  BY NoEntry
<1>4. /\ results' = results \o r /\ errors' = errors \o e /\ pc' = "validate" /\ next' = next + 1
      /\ UNCHANGED <<args, stdin, inputs, exit>>
  BY <1>1, <1>3 DEF Validated
<1> QED
  BY <1>1, <1>2, <1>4, InputPassed

-----------------------------------------------------------------------------
LEMMA InitZero == Init => ZeroInv
<1> SUFFICES ASSUME Init PROVE ZeroInv
  OBVIOUS
<1>1. /\ args \in CommandLines /\ next = 1 /\ stdin = None /\ inputs = <<>> /\ results = <<>>
      /\ errors = <<>> /\ exit = None /\ pc = IF args.command = "check" THEN "preflight" ELSE "load"
  BY DEF Init
<1>2. args.command \in {"check", "schema"} /\ Len(args.files) \in Nat /\ DOMAIN args.files = 1 .. Len(args.files)
  BY <1>1, CommandLine
<1>3. DOMAIN results = {} /\ DOMAIN inputs = {} /\ Len(inputs) = 0
  BY <1>1
<1>4. OutputType
  BY <1>1, NoEntry DEF OutputType
<1>5. InputsRead
  BY <1>1, <1>2, <1>3 DEF InputsRead
<1>6. groups \in Seq(Groups)
  BY InitInv DEF Inv, CommandType
<1>7. \A g \in DOMAIN groups : g \in Nat \ {0} /\ ~groups[g].emitted
  <2>1. CASE args.command = "schema"
    <3>1. groups = [i \in DOMAIN args.files |-> Group(args.files[i])]
      BY <2>1 DEF Init
    <3> QED
      BY <1>2, <3>1 DEF Group
  <2>2. CASE args.command # "schema"
    <3>1. groups = <<Group(args.schema)>> \/ groups = <<>>
      BY <2>2 DEF Init
    <3> QED
      BY <3>1 DEF Group
  <2> QED
    BY <2>1, <2>2
<1>8. args.command = "schema" => Len(groups) = Len(args.files)
  BY <1>2 DEF Init
<1>9. GroupsLoaded
  BY <1>1, <1>7, <1>8 DEF GroupsLoaded, PassedGroup
<1>10. EmittedWithDiagnostics /\ InputsValidated
  BY <1>3, <1>7 DEF EmittedWithDiagnostics, InputsValidated
<1>11. ExitDecided
  BY <1>1, ArgumentsNameSchemas DEF ExitDecided
<1> QED
  BY <1>4, <1>5, <1>9, <1>10, <1>11 DEF ZeroInv

LEMMA NextKeepsZero == Inv /\ ZeroInv /\ [Next]_vars => ZeroInv'
<1> SUFFICES ASSUME Inv, ZeroInv, [Next]_vars PROVE ZeroInv'
  OBVIOUS
<1>0. CommandType /\ next \in Nat
  BY DEF Inv, CommandType
<1>1. CASE Preflight
  BY <1>0, <1>1, PreflightKeepsZero
<1>2. CASE BeginLoading \/ BeginValidating \/ BeginFinishing
  BY <1>0, <1>2, BeginLoadingKeepsZero, BeginValidatingKeepsZero, BeginFinishingKeepsZero
<1>3. CASE ReadSchema
  <2> DEFINE path == groups[next].path
  <2>1. pc = "load" /\ next <= Len(groups)
    BY <1>3 DEF ReadSchema
  <2>2. CASE \E load \in {"valid", "invalid", "failed"} : Loaded(load)
    BY <1>0, <2>1, <2>2, LoadedKeepsZero
  <2>3. CASE pc' = "preload" /\ UNCHANGED <<args, kind, next, stdin, command, exit, changes>>
    BY <2>1, <2>3, OutputKept
  <2> QED
    BY <1>3, <2>2, <2>3 DEF ReadSchema
<1>4. CASE FetchResource \/ SupplyResource
  BY <1>4, OutputKept DEF FetchResource, SupplyResource
<1>5. CASE JudgeSchema
  <2>1. pc = "preload" /\ next <= Len(groups) /\ \E load \in {"valid", "invalid", "failed"} : Loaded(load)
    BY <1>0, <1>5 DEF JudgeSchema, CommandType
  <2> QED
    BY <1>0, <2>1, LoadedKeepsZero
<1>6. CASE Validate \/ EmitInvalidSchema \/ SkipInput
  BY <1>0, <1>6, ValidateKeepsZero, EmissionKeepsZero, SkipKeepsZero
<1>7. CASE Finish
  BY <1>0, <1>7, FinishKeepsZero
<1>8. CASE FilesChange
  BY <1>8, OutputKept DEF FilesChange
<1>9. CASE UNCHANGED vars
  BY <1>9, OutputKept DEF vars
<1> QED
  BY <1>1, <1>2, <1>3, <1>4, <1>5, <1>6, <1>7, <1>8, <1>9 DEF Next, Step

(* Exit status 0 is only ever given when every argument was checked and is  *)
(* valid, whatever fails on the way and however the files change.           *)
THEOREM ZeroIsEarned == Spec => []ZeroMeansAllValid
<1>1. Init => Inv /\ ZeroInv
  BY InitInv, InitZero
<1>2. (Inv /\ ZeroInv) /\ [Next]_vars => (Inv /\ ZeroInv)'
  BY NextKeepsInv, NextKeepsZero
<1>3. Inv /\ ZeroInv => ZeroMeansAllValid
  BY ZeroInvValid DEF Inv
<1> QED
  BY <1>1, <1>2, <1>3, PTL DEF Spec

-----------------------------------------------------------------------------
(***************************************************************************)
(* Every argument of a check command is accounted for, in its place, for   *)
(* any command line, any files and any failures on the way.                *)
(***************************************************************************)

ExitTyped == exit \in {None, 0, 1, 2}

(* Whatever keeps an argument from being validated is in the output.        *)
FailuresReported ==
    /\ \A n \in DOMAIN inputs :
          /\ inputs[n].group \in DOMAIN groups \union {None}
          /\ inputs[n].source = "unreadable" => HasError("source", n)
          /\ inputs[n].group = None => HasError("schema", n)
    /\ \A g \in DOMAIN groups :
          /\ PassedGroup(g) /\ groups[g].load = "failed" => HasError("load", g)
          /\ groups[g].emitted =>
                /\ pc \in {"validate", "finish", "done"}
                /\ groups[g].load = "invalid" /\ HasResult("schema", g)

(* A document that was passed has a result or something that explains why   *)
(* not, and an invalid schema is emitted with the first of its documents.   *)
Settled(n) ==
    LET g == inputs[n].group IN
    /\ \/ HasResult("document", n) \/ HasError("document", n)
       \/ inputs[n].source = "unreadable" \/ g = None \/ groups[g].load \in {"failed", "invalid"}
    /\ g # None /\ groups[g].load = "invalid" => groups[g].emitted
InputsSettled ==
    args.command = "check" => \A n \in DOMAIN inputs : PassedInput(n) => Settled(n)

(* Results stand at arguments that were passed.                             *)
InOrder ==
    /\ args.command = "check" /\ pc \in {"preflight", "load", "preload"} => results = <<>>
    /\ \A i \in DOMAIN results :
          /\ Position(results[i]) \in Nat
          /\ pc \in {"load", "preload", "validate"} => Position(results[i]) < next
    /\ ResultsInArgumentOrder

AccountInv == ExitTyped /\ FailuresReported /\ InputsSettled /\ InOrder

LEMMA AccountMeansAccounted ==
    ASSUME CommandType, ZeroInv, AccountInv, StdinReadOnce
    PROVE  ArgumentsAccountedFor
<1>1. TypeOK
  <2>1. \A n \in DOMAIN inputs : inputs[n] \in Inputs
    BY DEF ZeroInv, OutputType
  <2>2. \A g \in DOMAIN groups : groups[g] \in Groups
    BY DEF CommandType
  <2>3. pc \in {"validate", "finish", "done"} => \A g \in DOMAIN groups : groups[g].load # "pending"
    BY DEF ZeroInv, GroupsLoaded, PassedGroup
  <2> QED BY <2>1, <2>2, <2>3 DEF TypeOK, AccountInv, ExitTyped, FailuresReported, Inputs, Groups, Loads
<1>2. ASSUME pc = "done", NEW n \in DOMAIN args.files
      PROVE  \/ ArgumentResult(n)
             \/ \E what \in {"source", "schema", "document"} : args.command = "check" /\ HasError(what, n)
             \/ LET g == IF args.command = "check" THEN inputs[n].group ELSE n IN
                HasError("load", g) \/ (HasResult("schema", g) /\ groups[g].load = "invalid")
  <2>0. args.command \in {"check", "schema"} /\ DOMAIN args.files = 1 .. Len(args.files)
    BY CommandLine DEF CommandType
  <2>1. CASE args.command = "check"
    <3>1. n \in DOMAIN inputs
      BY <1>2, <2>0, <2>1 DEF ZeroInv, InputsRead, OutputType
    <3>2. Settled(n)
      BY <1>2, <2>1, <3>1 DEF AccountInv, InputsSettled, PassedInput
    <3> DEFINE g == inputs[n].group
    <3>3. /\ g \in DOMAIN groups \union {None}
          /\ inputs[n].source = "unreadable" => HasError("source", n)
          /\ g = None => HasError("schema", n)
      BY <3>1 DEF AccountInv, FailuresReported
    <3>4. g \in DOMAIN groups =>
             /\ groups[g].load = "failed" => HasError("load", g)
             /\ groups[g].emitted => groups[g].load = "invalid" /\ HasResult("schema", g)
      BY <1>2 DEF AccountInv, FailuresReported, PassedGroup
    <3> HIDE DEF g
    <3>5. \/ HasResult("document", n) \/ HasError("document", n) \/ HasError("source", n)
          \/ HasError("schema", n) \/ HasError("load", g)
          \/ (HasResult("schema", g) /\ groups[g].load = "invalid")
      BY <3>2, <3>3, <3>4 DEF Settled, g
    <3> QED BY <2>1, <3>5 DEF ArgumentResult, g
  <2>2. CASE args.command = "schema"
    <3>1. n \in DOMAIN groups
      BY <1>2, <2>0, <2>2 DEF ZeroInv, GroupsLoaded, CommandType
    <3>2. groups[n].load # "failed" => HasResult("schema", n)
      BY <1>2, <2>2, <3>1 DEF ZeroInv, GroupsLoaded, PassedGroup
    <3>3. groups[n].load = "failed" => HasError("load", n)
      BY <1>2, <3>1 DEF AccountInv, FailuresReported, PassedGroup
    <3> QED BY <2>2, <3>2, <3>3 DEF ArgumentResult
  <2> QED BY <2>0, <2>1, <2>2
<1>3. AbsentResultExplained
  BY <1>2 DEF AbsentResultExplained
<1> QED BY <1>1, <1>3 DEF ArgumentsAccountedFor, AccountInv, InOrder

-----------------------------------------------------------------------------
LEMMA ErrorsGrow ==
    ASSUME errors \in Seq(Errors), NEW e \in Seq(Errors), errors' = errors \o e
    PROVE  /\ errors' \in Seq(Errors)
           /\ \A what, at : HasError(what, at) => HasError(what, at)'
           /\ \A what, at : \A k \in DOMAIN e : e[k] = ErrorAbout(what, at) => HasError(what, at)'
<1>1. /\ errors' \in Seq(Errors)
      /\ \A i \in DOMAIN errors : i \in DOMAIN errors' /\ errors'[i] = errors[i]
      /\ \A k \in DOMAIN e : Len(errors) + k \in DOMAIN errors' /\ errors'[Len(errors) + k] = e[k]
  BY JoinedEntries
<1>2. \A what, at : HasError(what, at) => HasError(what, at)'
  BY <1>1 DEF HasError
<1>3. \A what, at : \A k \in DOMAIN e : e[k] = ErrorAbout(what, at) => HasError(what, at)'
  BY <1>1 DEF HasError
<1> QED BY <1>1, <1>2, <1>3

(* Where a result stands depends on the command line and the documents.     *)
LEMMA SamePosition ==
    ASSUME UNCHANGED <<args, inputs>>, NEW said
    PROVE  Position(said)' = Position(said)
  BY DEF Position

(* Between the steps that say something, phases only move on.               *)
LEMMA AccountKept ==
    ASSUME AccountInv, args' = args, inputs' = inputs, groups' = groups, results' = results,
           errors' = errors, exit' \in {None, 0, 1, 2},
           \A g \in DOMAIN groups : PassedGroup(g)' => PassedGroup(g),
           args.command = "check" => \A n \in DOMAIN inputs : PassedInput(n)' => PassedInput(n),
           pc \in {"validate", "finish", "done"} => pc' \in {"validate", "finish", "done"},
           args.command = "check" /\ pc' \in {"preflight", "load", "preload"} =>
              pc \in {"preflight", "load", "preload"},
           \/ pc' \notin {"load", "preload", "validate"} \/ results = <<>>
           \/ pc \in {"load", "preload", "validate"} /\ next' = next
    PROVE  AccountInv'
<1>1. ExitTyped'
  BY DEF ExitTyped
<1>2. FailuresReported'
  BY DEF AccountInv, FailuresReported, HasError, HasResult
<1>3. InputsSettled'
  BY DEF AccountInv, InputsSettled, Settled, HasError, HasResult
<1>4. \A i \in DOMAIN results : Position(results[i])' = Position(results[i])
  BY SamePosition
<1>5. InOrder'
  BY <1>4 DEF AccountInv, InOrder, ResultsInArgumentOrder
<1> QED BY <1>1, <1>2, <1>3, <1>5 DEF AccountInv

LEMMA PhasesKeepAccount ==
    ASSUME CommandType, ZeroInv, AccountInv, BeginLoading \/ BeginValidating \/ BeginFinishing \/ Finish
    PROVE  AccountInv'
<1>1. /\ UNCHANGED <<args, inputs, groups, results, errors>> /\ exit' \in {None, 0, 1, 2}
      /\ args.command \in {"check", "schema"} /\ next \in Nat
      /\ DOMAIN groups = 1 .. Len(groups) /\ DOMAIN inputs = 1 .. Len(inputs)
  BY CommandLine DEF BeginLoading, BeginValidating, BeginFinishing, Finish, Proceed, Exit, command,
                     CommandType, ZeroInv, OutputType, AccountInv, ExitTyped
<1>2. CASE BeginLoading
  <2>1. pc = "preflight" /\ pc' = "load" /\ next' = 1 /\ args.command = "check"
    BY <1>2 DEF BeginLoading, Proceed, CommandType
  <2>2. results = <<>>
    BY <2>1 DEF AccountInv, InOrder
  <2> QED BY <1>1, <2>1, <2>2, AccountKept DEF PassedGroup, PassedInput
<1>3. CASE BeginValidating
  <2>1. /\ pc = "load" /\ next' = 1 /\ next > Len(groups)
        /\ pc' = IF args.command = "check" THEN "validate" ELSE "finish"
    BY <1>3 DEF BeginValidating, Proceed
  <2>2. args.command = "check" => results = <<>>
    BY <2>1 DEF AccountInv, InOrder
  <2>3. \A g \in DOMAIN groups : PassedGroup(g)
    BY <1>1, <2>1 DEF PassedGroup, CommandType
  <2> QED BY <1>1, <2>1, <2>2, <2>3, AccountKept DEF PassedInput
<1>4. CASE BeginFinishing
  <2>1. pc = "validate" /\ pc' = "finish" /\ next > Len(inputs)
    BY <1>4 DEF BeginFinishing, Proceed
  <2>2. \A n \in DOMAIN inputs : PassedInput(n)
    BY <1>1, <2>1 DEF PassedInput, ZeroInv, OutputType
  <2> QED BY <1>1, <2>1, <2>2, AccountKept DEF PassedGroup
<1>5. CASE Finish
  <2>1. pc = "finish" /\ pc' = "done"
    BY <1>5 DEF Finish
  <2> QED BY <1>1, <2>1, AccountKept DEF PassedGroup, PassedInput
<1> QED BY <1>2, <1>3, <1>4, <1>5

LEMMA PreloadKeepsAccount ==
    ASSUME ZeroInv, AccountInv, UNCHANGED <<args, next, stdin, command, exit>>,
           pc' = pc \/ (pc = "load" /\ pc' = "preload")
    PROVE  AccountInv'
<1>1. exit' \in {None, 0, 1, 2}
  BY DEF AccountInv, ExitTyped
<1> QED BY <1>1, AccountKept DEF PassedGroup, PassedInput, command

-----------------------------------------------------------------------------
(* A result that stands at the argument a step passes comes after all that  *)
(* were there.                                                              *)
LEMMA OrderGrows ==
    ASSUME InOrder, results \in Seq(Results), UNCHANGED <<args, inputs>>, next \in Nat, next' = next + 1,
           pc \in {"load", "preload", "validate"}, args.command = "check" => pc' = "validate",
           NEW said \in Results, results' = Append(results, said), Position(said) = next
    PROVE  InOrder'
<1>1. /\ DOMAIN results' = 1 .. Len(results) + 1 /\ DOMAIN results = 1 .. Len(results)
      /\ Len(results) \in Nat /\ results'[Len(results) + 1] = said
      /\ \A i \in DOMAIN results : results'[i] = results[i]
  BY Appended
<1>2. \A i \in DOMAIN results : Position(results[i])' = Position(results[i])
  BY <1>1, SamePosition
<1>3. Position(said)' = next
  BY <1>1, SamePosition
<1>4. ASSUME NEW i \in DOMAIN results'
      PROVE  Position(results[i])' \in Nat /\ Position(results[i])' < next + 1
  <2>1. CASE i \in DOMAIN results
    BY <1>2, <2>1 DEF InOrder
  <2>2. CASE i \notin DOMAIN results
    BY <1>1, <1>3, <2>2
  <2> QED BY <2>1, <2>2
<1>5. ASSUME NEW i \in DOMAIN results', NEW j \in DOMAIN results', i < j
      PROVE  Position(results[i])' < Position(results[j])'
  <2>1. i \in DOMAIN results
    BY <1>1, <1>5
  <2>2. CASE j \in DOMAIN results
    BY <1>2, <1>5, <2>1, <2>2 DEF InOrder, ResultsInArgumentOrder
  <2>3. CASE j \notin DOMAIN results
    <3>1. j = Len(results) + 1
      BY <1>1, <2>3
    <3>2. Position(results[i]) < next
      BY <2>1 DEF InOrder
    <3> QED BY <1>2, <1>3, <2>1, <3>1, <3>2
  <2> QED BY <2>2, <2>3
<1>6. ResultsInArgumentOrder'
  BY <1>5 DEF ResultsInArgumentOrder
<1> QED BY <1>4, <1>6 DEF InOrder

LEMMA OrderKept ==
    ASSUME InOrder, UNCHANGED <<args, inputs, results>>, next \in Nat, next' = next + 1,
           pc \in {"load", "preload", "validate"}, pc' \in {"load", "validate"},
           args.command = "check" /\ pc' = "load" => pc # "validate"
    PROVE  InOrder'
<1>1. \A i \in DOMAIN results : Position(results[i])' = Position(results[i])
  BY SamePosition
<1>2. ASSUME NEW i \in DOMAIN results
      PROVE  Position(results[i])' \in Nat /\ Position(results[i])' < next + 1
  BY <1>1 DEF InOrder
<1>3. ResultsInArgumentOrder'
  BY <1>1 DEF InOrder, ResultsInArgumentOrder
<1> QED BY <1>2, <1>3 DEF InOrder

-----------------------------------------------------------------------------
LEMMA AddedLast ==
    ASSUME NEW S, NEW s \in Seq(S), NEW x \in S
    PROVE  s \o <<x>> = Append(s, x)
OBVIOUS

LEMMA AddedNothing ==
    ASSUME NEW S, NEW s \in Seq(S)
    PROVE  s \o <<>> = s
OBVIOUS

(* What a load does to its group, and to the others.                        *)
LEMMA LoadedGroups ==
    ASSUME CommandType, next <= Len(groups), NEW load \in {"valid", "invalid", "failed"}, Loaded(load)
    PROVE  /\ next \in DOMAIN groups /\ DOMAIN groups' = DOMAIN groups
           /\ groups'[next].load = load
           /\ \A g \in DOMAIN groups : groups'[g].emitted = groups[g].emitted
                                      /\ (g # next => groups'[g].load = groups[g].load)
<1>1. next \in 1 .. Len(groups) /\ groups \in Seq(Groups) /\ DOMAIN groups = 1 .. Len(groups)
  BY DEF CommandType
<1>2. groups[next] \in Groups
  BY <1>1
<1>3. groups' = [groups EXCEPT ![next] = [groups[next] EXCEPT !.load = load]]
  BY DEF Loaded
<1>4. /\ [groups[next] EXCEPT !.load = load].load = load
      /\ [groups[next] EXCEPT !.load = load].emitted = groups[next].emitted
  BY <1>2 DEF Groups
<1> QED BY <1>1, <1>3, <1>4

LEMMA LoadedKeepsAccount ==
    ASSUME CommandType, ZeroInv, AccountInv, pc \in {"load", "preload"}, next <= Len(groups),
           NEW load \in {"valid", "invalid", "failed"}, Loaded(load)
    PROVE  AccountInv'
<1>1. /\ pc' = "load" /\ next' = next + 1 /\ next \in Nat /\ UNCHANGED <<inputs, args, exit>>
      /\ results \in Seq(Results) /\ errors \in Seq(Errors) /\ args.command \in {"check", "schema"}
  BY CommandLine DEF Loaded, CommandType, ZeroInv, OutputType
<1>2. /\ next \in DOMAIN groups /\ DOMAIN groups' = DOMAIN groups
      /\ groups'[next].load = load
      /\ \A g \in DOMAIN groups : groups'[g].emitted = groups[g].emitted
                                 /\ (g # next => groups'[g].load = groups[g].load)
  BY LoadedGroups
<1>3. PICK e \in Seq(Errors) : /\ errors' = errors \o e
                               /\ load = "failed" => 1 \in DOMAIN e /\ e[1] = ErrorAbout("load", next)
  <2>1. ErrorAbout("load", next) \in Errors
    BY <1>1 DEF Errors, ErrorAbout
  <2>2. CASE load = "failed"
    BY <2>1, <2>2, OneEntry DEF Loaded
  <2>3. CASE load # "failed"
    BY <2>3, NoEntry DEF Loaded
  <2> QED BY <2>2, <2>3
<1>4. /\ \A what, at : HasError(what, at) => HasError(what, at)'
      /\ load = "failed" => \A at : at = next => HasError("load", at)'
  <2>1. /\ \A what, at : HasError(what, at) => HasError(what, at)'
        /\ \A what, at : \A k \in DOMAIN e : e[k] = ErrorAbout(what, at) => HasError(what, at)'
    BY <1>1, <1>3, ErrorsGrow
  <2> QED BY <1>3, <2>1
<1>5. InOrder'
  <2>1. CASE args.command = "schema" /\ load # "failed"
    <3> DEFINE entry == Result("schema", next, load = "invalid")
    <3>0. entry \in Results
      BY <1>1 DEF Results, Result
    <3>1. PICK said \in Results : said = entry
      BY <3>0
    <3>2. said.at = next /\ Position(said) = next
      BY <2>1, <3>1 DEF Position, Result, entry
    <3>3. results' = Append(results, said)
      BY <1>1, <2>1, <3>1, AddedLast DEF Loaded, entry
    <3> QED BY <1>1, <2>1, <3>2, <3>3, OrderGrows DEF AccountInv
  <2>2. CASE ~(args.command = "schema" /\ load # "failed")
    <3>1. results' = results
      BY <1>1, <2>2, AddedNothing DEF Loaded
    <3> QED BY <1>1, <3>1, OrderKept DEF AccountInv
  <2> QED BY <2>1, <2>2
<1>6. ASSUME NEW g \in DOMAIN groups'
      PROVE  /\ PassedGroup(g)' /\ groups'[g].load = "failed" => HasError("load", g)'
             /\ ~groups'[g].emitted
  <2>1. ~groups'[g].emitted
    BY <1>2, <1>6 DEF AccountInv, FailuresReported
  <2>2. CASE g = next
    BY <1>2, <1>4, <2>1, <2>2
  <2>3. CASE g # next
    <3>1. PassedGroup(g)' => PassedGroup(g)
      BY <1>1, <1>2, <1>6, <2>3 DEF PassedGroup, CommandType
    <3> QED BY <1>2, <1>4, <1>6, <2>1, <2>3, <3>1 DEF AccountInv, FailuresReported
  <2> QED BY <2>2, <2>3
<1>7. \A n \in DOMAIN inputs :
         /\ inputs[n].group \in DOMAIN groups' \union {None}
         /\ inputs[n].source = "unreadable" => HasError("source", n)'
         /\ inputs[n].group = None => HasError("schema", n)'
  BY <1>2, <1>4 DEF AccountInv, FailuresReported
<1>8. FailuresReported'
  BY <1>1, <1>6, <1>7 DEF FailuresReported
<1>9. InputsSettled' /\ ExitTyped'
  BY <1>1 DEF InputsSettled, PassedInput, AccountInv, ExitTyped
<1> QED BY <1>5, <1>8, <1>9 DEF AccountInv

(* An argument that could not be read, or of which no schema was found, is  *)
(* reported where it is noted.                                              *)
LEMMA PreflightReports ==
    ASSUME CommandType, ZeroInv, Preflight
    PROVE  \E input \in Inputs, unread, unfound \in Seq(Errors) :
              /\ inputs' = Append(inputs, input)
              /\ input.group \in DOMAIN groups' \union {None}
              /\ errors' = errors \o unread \o unfound
              /\ input.source = "unreadable" => 1 \in DOMAIN unread /\ unread[1] = ErrorAbout("source", next)
              /\ input.group = None => 1 \in DOMAIN unfound /\ unfound[1] = ErrorAbout("schema", next)
<1> DEFINE path == SchemaFor(args.files[next])
<1>1. PICK source \in Sources(args.files[next]) :
        /\ inputs' = Append(inputs, [source |-> source, group |-> GroupFor(path)])
        /\ groups' = IF GroupFor(path) = Len(groups) + 1 THEN Append(groups, Group(path)) ELSE groups
        /\ errors' = errors \o (IF source = "unreadable" THEN <<ErrorAbout("source", next)>> ELSE <<>>)
                            \o (IF path = None THEN <<ErrorAbout("schema", next)>> ELSE <<>>)
  BY DEF Preflight
<1>2. next \in Nat /\ pc = "preflight" /\ next <= Len(args.files)
  BY DEF CommandType, Preflight
<1>3. path \in Schemas \union {None}
  BY <1>2, PreflightSchema
<1>4. source \in {"text", "unreadable"}
  BY DEF Sources, ZeroInv, OutputType
<1>5. /\ GroupFor(path) \in Nat \union {None}
      /\ path # None => GroupFor(path) \in DOMAIN groups'
  BY <1>1, <1>3, GroupForPath
<1>6. path = None => GroupFor(path) = None
  BY DEF GroupFor
<1>7. path # None => GroupFor(path) # None
  <2>1. groups' \in Seq(Groups) /\ None \notin Nat
    BY PreflightKeepsGroups, ArgumentsNameSchemas
  <2>2. None \notin DOMAIN groups'
    BY <2>1
  <2> QED BY <1>5, <2>2
<1>8. ErrorAbout("source", next) \in Errors /\ ErrorAbout("schema", next) \in Errors
  BY <1>2 DEF Errors, ErrorAbout
<1>9. PICK unread \in Seq(Errors) :
         /\ unread = IF source = "unreadable" THEN <<ErrorAbout("source", next)>> ELSE <<>>
         /\ source = "unreadable" => 1 \in DOMAIN unread /\ unread[1] = ErrorAbout("source", next)
  <2>1. CASE source = "unreadable"
    BY <1>8, <2>1, OneEntry
  <2>2. CASE source # "unreadable"
    BY <2>2, NoEntry
  <2> QED BY <2>1, <2>2
<1>10. PICK unfound \in Seq(Errors) :
          /\ unfound = IF path = None THEN <<ErrorAbout("schema", next)>> ELSE <<>>
          /\ path = None => 1 \in DOMAIN unfound /\ unfound[1] = ErrorAbout("schema", next)
  <2> HIDE DEF path
  <2>1. CASE path = None
    BY <1>8, <2>1, OneEntry
  <2>2. CASE path # None
    BY <2>2, NoEntry
  <2> QED BY <2>1, <2>2
<1> HIDE DEF path
<1>11. PICK input \in Inputs : input = [source |-> source, group |-> GroupFor(path)]
  BY <1>4, <1>5 DEF Inputs
<1>12. input.source = source /\ input.group = GroupFor(path)
  BY <1>11
<1>13. input.group \in DOMAIN groups' \union {None}
  BY <1>5, <1>6, <1>12
<1>14. inputs' = Append(inputs, input) /\ errors' = errors \o unread \o unfound
  BY <1>1, <1>9, <1>10, <1>11
<1> QED BY <1>6, <1>7, <1>9, <1>10, <1>12, <1>13, <1>14

LEMMA PreflightKeepsAccount ==
    ASSUME CommandType, ZeroInv, AccountInv, Preflight
    PROVE  AccountInv'
<1>1. /\ pc = "preflight" /\ pc' = "preflight" /\ UNCHANGED <<args, results, exit>>
      /\ args.command = "check" /\ next \in Nat \ {0} /\ inputs \in Seq(Inputs)
      /\ errors \in Seq(Errors) /\ Len(inputs) = next - 1 /\ results = <<>>
  BY DEF Preflight, CommandType, ZeroInv, OutputType, InputsRead, AccountInv, InOrder
<1>2. PICK input \in Inputs, unread, unfound \in Seq(Errors) :
         /\ inputs' = Append(inputs, input)
         /\ input.group \in DOMAIN groups' \union {None}
         /\ errors' = errors \o unread \o unfound
         /\ input.source = "unreadable" => 1 \in DOMAIN unread /\ unread[1] = ErrorAbout("source", next)
         /\ input.group = None => 1 \in DOMAIN unfound /\ unfound[1] = ErrorAbout("schema", next)
  BY PreflightReports
<1>3. /\ DOMAIN inputs' = 1 .. Len(inputs) + 1 /\ DOMAIN inputs = 1 .. Len(inputs)
      /\ inputs'[Len(inputs) + 1] = input /\ \A n \in DOMAIN inputs : inputs'[n] = inputs[n]
  BY <1>1, <1>2, Appended
<1>4. /\ \A what, at : HasError(what, at) => HasError(what, at)'
      /\ \A at : at = next =>
            /\ input.source = "unreadable" => HasError("source", at)'
            /\ input.group = None => HasError("schema", at)'
  <2>1. errors' = errors \o (unread \o unfound) /\ unread \o unfound \in Seq(Errors)
    BY <1>1, <1>2
  <2>2. /\ \A k \in DOMAIN unread : k \in DOMAIN (unread \o unfound) /\ (unread \o unfound)[k] = unread[k]
        /\ \A k \in DOMAIN unfound : /\ Len(unread) + k \in DOMAIN (unread \o unfound)
                                     /\ (unread \o unfound)[Len(unread) + k] = unfound[k]
    BY JoinedEntries
  <2>3. PICK e \in Seq(Errors) : e = unread \o unfound
    BY <2>1
  <2>4. /\ \A what, at : HasError(what, at) => HasError(what, at)'
        /\ \A what, at : \A k \in DOMAIN e : e[k] = ErrorAbout(what, at) => HasError(what, at)'
    BY <1>1, <2>1, <2>3, ErrorsGrow
  <2>5. input.source = "unreadable" => 1 \in DOMAIN e /\ e[1] = ErrorAbout("source", next)
    BY <1>2, <2>2, <2>3
  <2>6. input.group = None => \E k \in DOMAIN e : e[k] = ErrorAbout("schema", next)
    BY <1>2, <2>2, <2>3
  <2> QED BY <2>4, <2>5, <2>6
<1>5. /\ \A g \in DOMAIN groups : g \in DOMAIN groups'
      /\ \A g \in DOMAIN groups' : ~groups'[g].emitted
  <2>1. SchemaFor(args.files[next]) \in Schemas \union {None}
    BY PreflightSchema DEF Preflight
  <2>2. /\ \A g \in DOMAIN groups : g \in DOMAIN groups'
        /\ \A g \in DOMAIN groups' : groups'[g].emitted => g \in DOMAIN groups /\ groups[g].emitted
    BY <2>1, GroupForPath DEF Preflight
  <2> QED BY <1>1, <2>2 DEF AccountInv, FailuresReported
<1>6. ASSUME NEW n \in DOMAIN inputs'
      PROVE  /\ inputs'[n].group \in DOMAIN groups' \union {None}
             /\ inputs'[n].source = "unreadable" => HasError("source", n)'
             /\ inputs'[n].group = None => HasError("schema", n)'
  <2>1. CASE n = next
    BY <1>1, <1>2, <1>3, <1>4, <2>1
  <2>2. CASE n # next
    <3>1. n \in DOMAIN inputs /\ inputs'[n] = inputs[n]
      BY <1>1, <1>3, <1>6, <2>2
    <3> QED BY <1>4, <1>5, <3>1 DEF AccountInv, FailuresReported
  <2> QED BY <2>1, <2>2
<1>7. FailuresReported'
  BY <1>1, <1>5, <1>6 DEF FailuresReported, PassedGroup
<1>8. InputsSettled' /\ ExitTyped'
  BY <1>1 DEF InputsSettled, PassedInput, AccountInv, ExitTyped
<1>9. InOrder'
  BY <1>1 DEF InOrder, ResultsInArgumentOrder
<1> QED BY <1>7, <1>8, <1>9 DEF AccountInv

-----------------------------------------------------------------------------
LEMMA ResultsGrow ==
    ASSUME results \in Seq(Results), NEW said \in Results, results' = Append(results, said)
    PROVE  /\ \A about, at : HasResult(about, at) => HasResult(about, at)'
           /\ HasResult(said.about, said.at)'
  BY Appended DEF HasResult

(* A document is passed and settled; the others stay as they were.          *)
Emits == \A g \in DOMAIN groups :
            /\ groups'[g].load = groups[g].load
            /\ groups[g].emitted => groups'[g].emitted
            /\ groups'[g].emitted => groups[g].emitted \/ (groups[g].load = "invalid" /\ HasResult("schema", g)')
SaysMore == /\ \A about, at : HasResult(about, at) => HasResult(about, at)'
            /\ \A what, at : HasError(what, at) => HasError(what, at)'

LEMMA Settling ==
    ASSUME CommandType, ZeroInv, AccountInv, pc = "validate", pc' = "validate", next' = next + 1,
           args' = args, inputs' = inputs, exit' = exit, DOMAIN groups' = DOMAIN groups,
           InOrder', Emits, SaysMore, \A n : n = next => Settled(n)'
    PROVE  AccountInv'
<1>1. ASSUME NEW g \in DOMAIN groups'
      PROVE  /\ PassedGroup(g)' /\ groups'[g].load = "failed" => HasError("load", g)'
             /\ groups'[g].emitted => groups'[g].load = "invalid" /\ HasResult("schema", g)'
  <2>1. PassedGroup(g)
    BY DEF PassedGroup
  <2>2. groups[g].load = "failed" => HasError("load", g)'
    BY <1>1, <2>1 DEF SaysMore, AccountInv, FailuresReported
  <2>3. groups[g].emitted => groups[g].load = "invalid" /\ HasResult("schema", g)'
    BY <1>1 DEF SaysMore, AccountInv, FailuresReported
  <2> QED BY <1>1, <2>2, <2>3 DEF Emits
<1>2. \A n \in DOMAIN inputs :
         /\ inputs[n].group \in DOMAIN groups \union {None}
         /\ inputs[n].source = "unreadable" => HasError("source", n)'
         /\ inputs[n].group = None => HasError("schema", n)'
  BY DEF SaysMore, AccountInv, FailuresReported
<1>3. FailuresReported'
  BY <1>1, <1>2 DEF FailuresReported
<1>4. ASSUME args.command = "check", NEW n \in DOMAIN inputs, PassedInput(n)' PROVE Settled(n)'
  <2>1. CASE n = next
    BY <2>1
  <2>2. CASE n # next
    <3>1. PassedInput(n)
      BY <1>4, <2>2 DEF PassedInput, CommandType, ZeroInv, OutputType
    <3>2. Settled(n)
      BY <1>4, <3>1 DEF AccountInv, InputsSettled
    <3>3. inputs[n].group \in DOMAIN groups \union {None}
      BY <1>4 DEF AccountInv, FailuresReported
    <3> QED BY <3>2, <3>3 DEF Settled, SaysMore, Emits
  <2> QED BY <2>1, <2>2
<1>5. InputsSettled' /\ ExitTyped'
  BY <1>4 DEF InputsSettled, AccountInv, ExitTyped
<1> QED BY <1>3, <1>5 DEF AccountInv

LEMMA ValidateKeepsAccount ==
    ASSUME CommandType, ZeroInv, AccountInv, Validate
    PROVE  AccountInv'
<1>1. /\ pc = "validate" /\ pc' = "validate" /\ next \in Nat /\ next' = next + 1
      /\ args' = args /\ inputs' = inputs /\ exit' = exit /\ groups' = groups
      /\ results \in Seq(Results) /\ errors \in Seq(Errors)
  BY DEF Validate, Validated, CommandType, ZeroInv, OutputType
<1>2. LoadHere = "valid"
  BY DEF Validate
<1>3. Emits
  BY <1>1 DEF Emits
<1>4. ASSUME InOrder', SaysMore, \A n : n = next => HasResult("document", n)' \/ HasError("document", n)'
      PROVE  AccountInv'
  <2>1. inputs[next].group # None => groups[inputs[next].group].load = "valid"
    BY <1>2 DEF LoadHere
  <2>2. \A n : n = next => Settled(n)'
    BY <1>1, <1>4, <2>1 DEF Settled
  <2> QED BY <1>1, <1>3, <1>4, <2>2, Settling
<1>5. CASE \E diagnostics \in BOOLEAN : Validated(<<Result("document", next, diagnostics)>>, <<>>)
  <2>1. PICK diagnostics \in BOOLEAN : Validated(<<Result("document", next, diagnostics)>>, <<>>)
    BY <1>5
  <2>2. PICK said \in Results : said = Result("document", next, diagnostics)
    BY <1>1 DEF Results, Result
  <2>3. said.about = "document" /\ said.at = next /\ Position(said) = next
    BY <2>2 DEF Result, Position
  <2>4. results' = Append(results, said) /\ errors' = errors
    BY <1>1, <2>1, <2>2, AddedLast, AddedNothing DEF Validated
  <2>5. InOrder'
    BY <1>1, <2>3, <2>4, OrderGrows DEF AccountInv
  <2>6. /\ \A about, at : HasResult(about, at) => HasResult(about, at)'
        /\ HasResult(said.about, said.at)'
    BY <1>1, <2>4, ResultsGrow
  <2>7. SaysMore
    BY <2>4, <2>6 DEF SaysMore, HasError
  <2> QED BY <1>4, <2>3, <2>5, <2>6, <2>7
<1>6. CASE Validated(<<>>, <<ErrorAbout("document", next)>>)
  <2>1. PICK said \in Errors : said = ErrorAbout("document", next)
    BY <1>1 DEF Errors, ErrorAbout
  <2>2. PICK e \in Seq(Errors) : e = <<said>> /\ 1 \in DOMAIN e /\ e[1] = said
    BY OneEntry
  <2>3. results' = results /\ errors' = errors \o e
    BY <1>1, <1>6, <2>1, <2>2, AddedNothing DEF Validated
  <2>4. /\ \A what, at : HasError(what, at) => HasError(what, at)'
        /\ \A what, at : \A k \in DOMAIN e : e[k] = ErrorAbout(what, at) => HasError(what, at)'
    BY <1>1, <2>3, ErrorsGrow
  <2>5. InOrder' /\ SaysMore
    BY <1>1, <2>3, <2>4, OrderKept DEF AccountInv, SaysMore, HasResult
  <2> QED BY <1>4, <2>1, <2>2, <2>4, <2>5
<1> QED BY <1>5, <1>6 DEF Validate

LEMMA SkipKeepsAccount ==
    ASSUME CommandType, ZeroInv, AccountInv, SkipInput
    PROVE  AccountInv'
<1>1. /\ pc = "validate" /\ pc' = "validate" /\ next \in Nat /\ next' = next + 1
      /\ args' = args /\ inputs' = inputs /\ exit' = exit /\ groups' = groups
      /\ results' = results /\ errors' = errors
  BY AddedNothing DEF SkipInput, Validated, CommandType, ZeroInv, OutputType
<1>2. InOrder' /\ SaysMore /\ Emits
  BY <1>1, OrderKept DEF AccountInv, SaysMore, HasResult, HasError, Emits
<1>3. LoadHere \in {"valid", "invalid", "failed"}
  <2>1. next \in DOMAIN inputs
    BY <1>1 DEF SkipInput, CommandType, ZeroInv, OutputType
  <2>2. inputs[next].group \in DOMAIN groups \union {None}
    BY <2>1 DEF AccountInv, FailuresReported
  <2>3. \A g \in DOMAIN groups : groups[g] \in Groups /\ groups[g].load # "pending"
    BY <1>1 DEF CommandType, ZeroInv, GroupsLoaded, PassedGroup
  <2> QED BY <2>2, <2>3 DEF LoadHere, Groups, Loads
<1>4. Settled(next)
  BY <1>3 DEF SkipInput, Settled, LoadHere, Emitted
<1>5. \A n : n = next => Settled(n)'
  BY <1>1, <1>4 DEF Settled, HasResult, HasError
<1> QED BY <1>1, <1>2, <1>5, Settling

(* An invalid schema is emitted at the first of its documents: those that   *)
(* were passed before would have emitted it.                                *)
LEMMA EmissionKeepsAccount ==
    ASSUME CommandType, ZeroInv, AccountInv, EmitInvalidSchema
    PROVE  AccountInv'
<1> DEFINE g == inputs[next].group
<1>1. /\ pc = "validate" /\ pc' = "validate" /\ next \in Nat \ {0} /\ next' = next + 1
      /\ args' = args /\ inputs' = inputs /\ exit' = exit /\ errors' = errors
      /\ groups' = [groups EXCEPT ![g].emitted = TRUE]
      /\ results' = results \o <<Result("schema", g, TRUE)>> /\ next \in DOMAIN inputs
      /\ results \in Seq(Results) /\ groups \in Seq(Groups) /\ inputs \in Seq(Inputs)
  BY AddedNothing DEF EmitInvalidSchema, Validated, CommandType, ZeroInv, OutputType
<1>2. args.command = "check"
  <2>1. args.command \in {"check", "schema"}
    BY CommandLine DEF CommandType
  <2> QED BY <1>1, <2>1 DEF ZeroInv, GroupsLoaded
<1>3. g \in DOMAIN groups /\ g # None /\ groups[g].load = "invalid" /\ ~groups[g].emitted
  <2>1. g \in DOMAIN groups \union {None}
    BY <1>1 DEF AccountInv, FailuresReported
  <2> QED BY <2>1 DEF EmitInvalidSchema, LoadHere, Emitted
<1>4. ASSUME NEW m \in DOMAIN inputs, inputs[m].group = g PROVE next <= m
  <2>1. CASE PassedInput(m)
    <3>1. Settled(m)
      BY <1>2, <1>4, <2>1 DEF AccountInv, InputsSettled
    <3> QED BY <1>3, <1>4, <3>1 DEF Settled
  <2>2. CASE ~PassedInput(m)
    BY <1>1, <2>2 DEF PassedInput
  <2> QED BY <2>1, <2>2
<1>5. PICK said \in Results : said = Result("schema", g, TRUE)
  <2>1. g \in Nat
    BY <1>1, <1>3
  <2> HIDE DEF g
  <2> QED BY <2>1 DEF Results, Result
<1>6. said.about = "schema" /\ said.at = g
  BY <1>5 DEF Result
<1>7. Position(said) = next
  <2> DEFINE First(n) == /\ inputs[n].group = said.at
                         /\ \A m \in DOMAIN inputs : inputs[m].group = said.at => n <= m
  <2>1. Position(said) = CHOOSE n \in DOMAIN inputs : First(n)
    BY <1>2, <1>6 DEF Position
  <2>2. First(next)
    BY <1>4, <1>6
  <2>3. ASSUME NEW n \in DOMAIN inputs, First(n) PROVE n = next
    <3>1. n \in Nat
      BY <1>1
    <3>2. n <= next
      BY <1>1, <1>6, <2>3
    <3>3. next <= n
      BY <1>4, <1>6, <2>3
    <3> QED BY <1>1, <3>1, <3>2, <3>3
  <2> HIDE DEF First
  <2> QED BY <1>1, <2>1, <2>2, <2>3
<1>8. results' = Append(results, said)
  BY <1>1, <1>5, AddedLast
<1>9. InOrder'
  BY <1>1, <1>7, <1>8, OrderGrows DEF AccountInv
<1>10. /\ \A about, at : HasResult(about, at) => HasResult(about, at)'
       /\ HasResult(said.about, said.at)'
  BY <1>1, <1>8, ResultsGrow
<1>11. SaysMore
  BY <1>1, <1>10 DEF SaysMore, HasError
<1>12. /\ DOMAIN groups' = DOMAIN groups /\ groups'[g].emitted
       /\ \A i \in DOMAIN groups : /\ groups'[i].load = groups[i].load
                                   /\ i # g => groups'[i] = groups[i]
  <2>1. groups[g] \in Groups
    BY <1>1, <1>3
  <2> HIDE DEF g
  <2> QED BY <1>1, <1>3, <2>1 DEF Groups
<1>13. Emits
  <2>1. \A i \in DOMAIN groups : i = g => groups[i].load = "invalid" /\ HasResult("schema", i)'
    BY <1>3, <1>6, <1>10
  <2> QED BY <1>12, <2>1 DEF Emits
<1>14. \A n : n = next => Settled(n)'
  BY <1>1, <1>3, <1>12 DEF Settled
<1> QED BY <1>1, <1>9, <1>11, <1>12, <1>13, <1>14, Settling

-----------------------------------------------------------------------------
LEMMA InitAccount == Init => AccountInv
<1> SUFFICES ASSUME Init PROVE AccountInv
  OBVIOUS
<1>1. /\ inputs = <<>> /\ results = <<>> /\ exit = None /\ next = 1
      /\ pc = IF args.command = "check" THEN "preflight" ELSE "load"
      /\ DOMAIN inputs = {} /\ DOMAIN results = {} /\ args.command \in {"check", "schema"}
  BY CommandLine DEF Init
<1>2. groups \in Seq(Groups) /\ \A g \in DOMAIN groups : ~groups[g].emitted /\ g \in Nat \ {0}
  <2>1. groups \in Seq(Groups)
    BY InitInv DEF Inv, CommandType
  <2>2. CASE args.command = "schema"
    <3>1. groups = [i \in DOMAIN args.files |-> Group(args.files[i])]
      BY <2>2 DEF Init
    <3> QED BY <2>1, <3>1 DEF Group
  <2>3. CASE args.command # "schema"
    <3>1. groups = <<Group(args.schema)>> \/ groups = <<>>
      BY <2>3 DEF Init
    <3> QED BY <2>1, <3>1 DEF Group
  <2> QED BY <2>2, <2>3
<1>3. FailuresReported
  BY <1>1, <1>2 DEF FailuresReported, PassedGroup
<1>4. InOrder
  BY <1>1 DEF InOrder, ResultsInArgumentOrder
<1> QED BY <1>1, <1>3, <1>4 DEF AccountInv, InputsSettled, ExitTyped

LEMMA NextKeepsAccount == Inv /\ ZeroInv /\ AccountInv /\ [Next]_vars => AccountInv'
<1> SUFFICES ASSUME Inv, ZeroInv, AccountInv, [Next]_vars PROVE AccountInv'
  OBVIOUS
<1>0. CommandType
  BY DEF Inv
<1>1. CASE BeginLoading \/ BeginValidating \/ BeginFinishing \/ Finish
  BY <1>0, <1>1, PhasesKeepAccount
<1>2. CASE ReadSchema
  <2> DEFINE path == groups[next].path
  <2>1. pc = "load" /\ next <= Len(groups)
    BY <1>2 DEF ReadSchema
  <2>2. CASE \E load \in {"valid", "invalid", "failed"} : Loaded(load)
    BY <1>0, <2>1, <2>2, LoadedKeepsAccount
  <2>3. CASE pc' = "preload" /\ UNCHANGED <<args, kind, next, stdin, command, exit, changes>>
    BY <2>1, <2>3, PreloadKeepsAccount
  <2> QED BY <1>2, <2>2, <2>3 DEF ReadSchema
<1>3. CASE JudgeSchema
  <2>1. pc = "preload" /\ next <= Len(groups) /\ \E load \in {"valid", "invalid", "failed"} : Loaded(load)
    BY <1>0, <1>3 DEF JudgeSchema, CommandType
  <2> QED BY <1>0, <2>1, LoadedKeepsAccount
<1>4. CASE Preflight \/ Validate \/ EmitInvalidSchema \/ SkipInput
  BY <1>0, <1>4, PreflightKeepsAccount, ValidateKeepsAccount, EmissionKeepsAccount, SkipKeepsAccount
<1>5. CASE FetchResource \/ SupplyResource
  BY <1>5, PreloadKeepsAccount DEF FetchResource, SupplyResource
<1>6. CASE FilesChange
  BY <1>6, PreloadKeepsAccount DEF FilesChange
<1>7. CASE UNCHANGED vars
  BY <1>7, PreloadKeepsAccount DEF vars
<1> QED BY <1>1, <1>2, <1>3, <1>4, <1>5, <1>6, <1>7 DEF Next, Step

(* Standard input is remembered as it was read, for all who name it.        *)
StdinRemembered ==
    \A i \in DOMAIN inputs : args.files[i] = Stdin => stdin # None /\ inputs[i].source = stdin

LEMMA NextKeepsStdin == Inv /\ ZeroInv /\ StdinRemembered /\ [Next]_vars => StdinRemembered'
<1> SUFFICES ASSUME Inv, ZeroInv, StdinRemembered, [Next]_vars PROVE StdinRemembered'
  OBVIOUS
<1>1. CASE UNCHANGED <<args, inputs, stdin>>
  BY <1>1 DEF StdinRemembered
<1>2. CASE Preflight
  <2> DEFINE file == args.files[next]
  <2>1. PICK source \in Sources(file) :
           /\ stdin' = IF file = Stdin THEN source ELSE stdin
           /\ inputs' = Append(inputs, [source |-> source, group |-> GroupFor(SchemaFor(file))])
    BY <1>2 DEF Preflight
  <2>2. pc = "preflight" /\ next <= Len(args.files) /\ UNCHANGED args
    BY <1>2 DEF Preflight
  <2>3. inputs \in Seq(Inputs) /\ Len(inputs) = next - 1 /\ next \in Nat
    BY <2>2 DEF Inv, CommandType, ZeroInv, OutputType, InputsRead
  <2>4. /\ DOMAIN inputs' = 1 .. Len(inputs) + 1 /\ DOMAIN inputs = 1 .. Len(inputs)
        /\ inputs'[Len(inputs) + 1].source = source /\ \A n \in DOMAIN inputs : inputs'[n] = inputs[n]
    BY <2>1, <2>3
  <2>5. file = Stdin => source # None /\ (stdin # None => source = stdin)
    BY ArgumentsNameSchemas DEF Sources
  <2>6. ASSUME NEW i \in DOMAIN inputs', args.files[i] = Stdin
        PROVE  stdin' # None /\ inputs'[i].source = stdin'
    <3>1. CASE i = next
      BY <2>1, <2>3, <2>4, <2>5, <2>6, <3>1
    <3>2. CASE i # next
      <4>1. i \in DOMAIN inputs /\ inputs'[i] = inputs[i]
        BY <2>3, <2>4, <2>6, <3>2
      <4>2. stdin # None /\ inputs[i].source = stdin
        BY <2>6, <4>1 DEF StdinRemembered
      <4>3. stdin' = stdin
        BY <2>1, <2>5, <4>2
      <4> QED
        BY <4>1, <4>2, <4>3
    <3> QED
      BY <3>1, <3>2
  <2> QED
    BY <2>2, <2>6 DEF StdinRemembered
<1>3. CASE BeginLoading \/ BeginValidating \/ BeginFinishing \/ Finish \/ FilesChange
  BY <1>1, <1>3 DEF BeginLoading, BeginValidating, BeginFinishing, Finish, FilesChange, Proceed, command
<1>4. CASE ReadSchema \/ FetchResource \/ SupplyResource \/ JudgeSchema
  BY <1>1, <1>4 DEF ReadSchema, FetchResource, SupplyResource, JudgeSchema, Loaded, command
<1>5. CASE Validate \/ EmitInvalidSchema \/ SkipInput
  BY <1>1, <1>5 DEF Validate, EmitInvalidSchema, SkipInput, Validated
<1>6. CASE UNCHANGED vars
  BY <1>1, <1>6 DEF vars, command
<1> QED BY <1>2, <1>3, <1>4, <1>5, <1>6 DEF Next, Step

(* When a command ends, each of its arguments has a result or an error that *)
(* explains why not, results stand in the order of the arguments and an     *)
(* invalid schema once, at its first document, whatever fails on the way    *)
(* and however the files change; and standard input is the same to all who  *)
(* name it.                                                                 *)
THEOREM ArgumentsAreAccountedFor == Spec => []ArgumentsAccountedFor
<1>1. Init => Inv /\ ZeroInv /\ AccountInv /\ StdinRemembered
  BY InitInv, InitZero, InitAccount DEF Init, StdinRemembered
<1>2. (Inv /\ ZeroInv /\ AccountInv /\ StdinRemembered) /\ [Next]_vars
         => (Inv /\ ZeroInv /\ AccountInv /\ StdinRemembered)'
  BY NextKeepsInv, NextKeepsZero, NextKeepsAccount, NextKeepsStdin
<1>3. Inv /\ ZeroInv /\ AccountInv /\ StdinRemembered => ArgumentsAccountedFor
  <2>1. StdinRemembered => StdinReadOnce
    BY DEF StdinRemembered, StdinReadOnce
  <2> QED BY <2>1, AccountMeansAccounted DEF Inv
<1> QED BY <1>1, <1>2, <1>3, PTL DEF Spec
=============================================================================
