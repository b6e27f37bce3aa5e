-------------------------- MODULE NpmInstallProofs --------------------------
(***************************************************************************)
(* Theorems about the npm wrapper, for any number of concurrent runs, any  *)
(* number of which are killed, on either kind of platform.                 *)
(***************************************************************************)
EXTENDS NpmInstall, TLAPS

(* What a run has in its hands, by where it is.  Past the `finally` blocks *)
(* a run that does not throw finds the binary in place.                    *)
Holds(w) ==
    /\ pc[w] \in {"sidecar", "verify"} => archive[w] \in {"released", "damaged"}
    /\ pc[w] = "verify" => sidecar[w] \in {"released", "invalid"}
    /\ pc[w] \in {"extract", "copy", "copying"} => archive[w] = "released"
    /\ pc[w] = "chmod" => staged[w] = File("released", FALSE)
    /\ pc[w] \in {"rename", "beaten"} => staged[w] = Binary
    /\ pc[w] \in {"unstage", "clean"} => installed = Binary \/ failing[w]
    /\ pc[w] = "start" => installed = Binary
    /\ pc[w] = "ran" => ran[w] = Binary

(* What a run has on disk, until its `finally` blocks have run.            *)
Leaves(w) ==
    /\ pc[w] \in {"look", "archive", "sidecar", "verify", "extract", "copy", "clean", "start",
                  "ran", "failed", "crashed"} => staged[w] = None
    /\ pc[w] \in {"look", "start", "ran", "failed"} => ~temporary[w]

IInv ==
    /\ TypeOK
    /\ installed \in {None, Binary}
    /\ \A w \in Wrappers : asked[w] => redirects[w] <= MaxRedirects
    /\ \A w \in Wrappers : Holds(w) /\ Leaves(w)

----------------------------------------------------------------------------
LEMMA BinaryIsFile == Binary \in Files /\ File("released", FALSE) \in Files
BY DEF Binary, File, Files

LEMMA InitEstablishesInvariant == Init => IInv
BY DEF Init, IInv, TypeOK, Holds, Leaves, Downloading, Final, MaxRedirects

(* No run takes back, damages or replaces by anything else what is in      *)
(* place, so what one run relies on no other run disturbs.                 *)
LEMMA OthersAreUndisturbed ==
    ASSUME IInv, NEW w \in Wrappers, NEW v \in Wrappers, v # w,
           installed' \in {installed, Binary},
           pc'[v] = pc[v], archive'[v] = archive[v], sidecar'[v] = sidecar[v], staged'[v] = staged[v],
           temporary'[v] = temporary[v], failing'[v] = failing[v], ran'[v] = ran[v]
    PROVE  Holds(v)' /\ Leaves(v)'
BY DEF IInv, Holds, Leaves

(* The steps before anything is staged: the download and its verification. *)
LEMMA DownloadStep ==
    ASSUME IInv, NEW w \in Wrappers,
           Look(w) \/ Request(w) \/ Answer(w) \/ Verify(w) \/ Extract(w)
    PROVE  IInv'
<1>1. TypeOK'
  <2>1. CASE Look(w)
    BY <2>1 DEF IInv, TypeOK, Downloading, Final, MaxRedirects, Look, Goto
  <2>2. CASE Request(w)
    BY <2>2 DEF IInv, TypeOK, Downloading, Final, MaxRedirects, Request, Throw, Goto
  <2>3. CASE Redirect(w)
    BY <2>3 DEF IInv, TypeOK, Downloading, Final, MaxRedirects, Redirect
  <2>4. CASE DownloadFails(w)
    BY <2>4 DEF IInv, TypeOK, Downloading, Final, MaxRedirects, DownloadFails, Throw, Goto
  <2>5. CASE \E body \in {"released", "damaged"} : ReceiveArchive(w, body)
    BY <2>5 DEF IInv, TypeOK, Downloading, Final, MaxRedirects, ReceiveArchive, Goto
  <2>6. CASE \E text \in {"released", "invalid"} : ReceiveSidecar(w, text)
    BY <2>6 DEF IInv, TypeOK, Downloading, Final, MaxRedirects, ReceiveSidecar, Goto
  <2>7. CASE Verify(w)
    BY <2>7 DEF IInv, TypeOK, Downloading, Final, MaxRedirects, Verify, Throw, Goto
  <2>8. CASE Extract(w)
    BY <2>8 DEF IInv, TypeOK, Downloading, Final, MaxRedirects, Extract, Throw, Goto
  <2>9. CASE MalformedRedirect(w)
    BY <2>9 DEF IInv, TypeOK, Downloading, Final, MaxRedirects, MalformedRedirect, Goto
  <2> QED
    BY <2>1, <2>2, <2>3, <2>4, <2>5, <2>6, <2>7, <2>8, <2>9 DEF Answer
<1>2. installed' = installed
  BY DEF Look, Request, Answer, Redirect, MalformedRedirect, DownloadFails, ReceiveArchive,
         DownloadFails, ReceiveArchive, ReceiveSidecar, Verify, Extract
<1>3. Holds(w)' /\ Leaves(w)'
  <2>1. CASE Look(w)
    BY <2>1 DEF IInv, TypeOK, Holds, Leaves, Downloading, Final, Look, Goto
  <2>2. CASE Request(w)
    BY <2>2 DEF IInv, TypeOK, Holds, Leaves, Downloading, Final, Request, Throw, Goto
  <2>3. CASE Redirect(w)
    BY <2>3 DEF IInv, TypeOK, Holds, Leaves, Downloading, Final, Redirect
  <2>4. CASE DownloadFails(w)
    BY <2>4 DEF IInv, TypeOK, Holds, Leaves, Downloading, Final, DownloadFails, Throw, Goto
  <2>5. CASE \E body \in {"released", "damaged"} : ReceiveArchive(w, body)
    BY <2>5 DEF IInv, TypeOK, Holds, Leaves, Downloading, Final, ReceiveArchive, Goto
  <2>6. CASE \E text \in {"released", "invalid"} : ReceiveSidecar(w, text)
    BY <2>6 DEF IInv, TypeOK, Holds, Leaves, Downloading, Final, ReceiveSidecar, Goto
  <2>7. CASE Verify(w)
    BY <2>7 DEF IInv, TypeOK, Holds, Leaves, Downloading, Final, Verify, Throw, Goto
  <2>8. CASE Extract(w)
    BY <2>8 DEF IInv, TypeOK, Holds, Leaves, Downloading, Final, Extract, Throw, Goto
  <2>9. CASE MalformedRedirect(w)
    BY <2>9 DEF IInv, TypeOK, Holds, Leaves, Downloading, Final, MalformedRedirect, Goto
  <2> QED
    BY <2>1, <2>2, <2>3, <2>4, <2>5, <2>6, <2>7, <2>8, <2>9 DEF Answer
<1>4. ASSUME NEW v \in Wrappers, v # w PROVE Holds(v)' /\ Leaves(v)'
  <2>1. /\ pc'[v] = pc[v] /\ archive'[v] = archive[v] /\ sidecar'[v] = sidecar[v] /\ staged'[v] = staged[v]
        /\ temporary'[v] = temporary[v] /\ failing'[v] = failing[v] /\ ran'[v] = ran[v]
    BY <1>4 DEF IInv, TypeOK, Look, Request, Answer, Redirect, MalformedRedirect, DownloadFails,
           ReceiveArchive, ReceiveSidecar, Verify, Extract, Goto, Throw
  <2>2. QED
    BY <1>2, <1>4, <2>1, OthersAreUndisturbed
<1>5. \A v \in Wrappers : asked'[v] => redirects'[v] <= MaxRedirects
  BY DEF IInv, TypeOK, MaxRedirects, Look, Request, Answer, Redirect, MalformedRedirect,
         DownloadFails, ReceiveArchive, ReceiveSidecar, Verify, Extract
<1>6. QED
  BY <1>1, <1>2, <1>3, <1>4, <1>5 DEF IInv

(* What the copy and the chmod make of the staged file.                    *)
LEMMA CopyIsWhole ==
    ASSUME IInv, NEW w \in Wrappers, EndCopy(w)
    PROVE  \/ /\ pc' = [pc EXCEPT ![w] = "chmod"] /\ failing' = failing
              /\ staged' = [staged EXCEPT ![w] = File("released", FALSE)]
           \/ /\ pc' = [pc EXCEPT ![w] = "rename"] /\ failing' = failing
              /\ staged' = [staged EXCEPT ![w] = Binary]
           \/ /\ pc' = [pc EXCEPT ![w] = "unstage"] /\ staged' = staged
              /\ failing' = [failing EXCEPT ![w] = TRUE]
<1>1. archive[w] = "released"
  BY DEF IInv, Holds, EndCopy
<1>2. CASE unix = TRUE
  <2>1. (~unix) = FALSE
    BY <1>2
  <2>2. QED
    BY <1>1, <1>2, <2>1 DEF EndCopy, Goto, Throw
<1>3. CASE unix = FALSE
  <2>1. (~unix) = TRUE
    BY <1>3
  <2>2. QED
    BY <1>1, <1>3, <2>1 DEF EndCopy, Goto, Throw, Binary
<1>4. QED
  BY <1>2, <1>3 DEF IInv, TypeOK

LEMMA ChmodMakesTheBinary ==
    ASSUME IInv, NEW w \in Wrappers, Chmod(w)
    PROVE  \/ /\ pc' = [pc EXCEPT ![w] = "rename"] /\ failing' = failing
              /\ staged' = [staged EXCEPT ![w] = Binary]
           \/ /\ pc' = [pc EXCEPT ![w] = "unstage"] /\ staged' = staged
              /\ failing' = [failing EXCEPT ![w] = TRUE]
<1>1. staged[w] = File("released", FALSE)
  BY DEF IInv, Holds, Chmod
<1>2. staged[w].body = "released"
  BY <1>1 DEF File
<1>3. File(staged[w].body, TRUE) = Binary
  BY <1>2 DEF Binary
<1>4. QED
  BY <1>3 DEF Chmod, Goto, Throw

(* The steps from the copy to the rename, and the forgiveness for losing.  *)
LEMMA StagingStep ==
    ASSUME IInv, NEW w \in Wrappers,
           StartCopy(w) \/ EndCopy(w) \/ Chmod(w) \/ Rename(w) \/ Forgive(w)
    PROVE  IInv'
<1>1. TypeOK'
  <2>1. CASE StartCopy(w)
    BY <2>1 DEF IInv, TypeOK, Downloading, Final, MaxRedirects, StartCopy, Goto, File, Files
  <2>2. CASE EndCopy(w)
    <3>1. /\ staged \in [Wrappers -> {None} \cup Files]
          /\ Binary \in {None} \cup Files /\ File("released", FALSE) \in {None} \cup Files
      BY BinaryIsFile DEF IInv, TypeOK
    <3>2. staged' \in [Wrappers -> {None} \cup Files]
      BY <2>2, <3>1, CopyIsWhole
    <3>3. UNCHANGED <<unix, asked, redirects, archive, sidecar, temporary, installed, ran>>
      BY <2>2 DEF EndCopy
    <3>4. QED
      BY <2>2, <3>2, <3>3, CopyIsWhole DEF IInv, TypeOK, Downloading, Final
  <2>3. CASE Chmod(w)
    <3>1. /\ staged \in [Wrappers -> {None} \cup Files]
          /\ Binary \in {None} \cup Files /\ File("released", FALSE) \in {None} \cup Files
      BY BinaryIsFile DEF IInv, TypeOK
    <3>2. staged' \in [Wrappers -> {None} \cup Files]
      BY <2>3, <3>1, ChmodMakesTheBinary
    <3>3. UNCHANGED <<unix, asked, redirects, archive, sidecar, temporary, installed, ran>>
      BY <2>3 DEF Chmod
    <3>4. QED
      BY <2>3, <3>2, <3>3, ChmodMakesTheBinary DEF IInv, TypeOK, Downloading, Final
  <2>4. CASE Rename(w)
    BY <2>4 DEF IInv, TypeOK, Downloading, Final, MaxRedirects, Rename, Goto
  <2>5. CASE Forgive(w)
    BY <2>5 DEF IInv, TypeOK, Downloading, Final, MaxRedirects, Forgive, Throw, Goto
  <2> QED
    BY <2>1, <2>2, <2>3, <2>4, <2>5
<1>2. installed' \in {installed, Binary}
  BY DEF IInv, Holds, StartCopy, EndCopy, Chmod, Rename, Forgive
<1>3. Holds(w)' /\ Leaves(w)'
  <2>1. CASE StartCopy(w)
    BY <2>1 DEF IInv, TypeOK, Holds, Leaves, Downloading, Final, Binary, StartCopy, Goto, File, Files
  <2>2. CASE EndCopy(w)
    BY <2>2, CopyIsWhole DEF IInv, TypeOK, Holds, Leaves, Downloading, Final, EndCopy
  <2>3. CASE Chmod(w)
    BY <2>3, ChmodMakesTheBinary DEF IInv, TypeOK, Holds, Leaves, Downloading, Final, Chmod
  <2>4. CASE Rename(w)
    BY <2>4 DEF IInv, TypeOK, Holds, Leaves, Downloading, Final, Binary, Rename, Goto
  <2>5. CASE Forgive(w)
    BY <2>5 DEF IInv, TypeOK, Holds, Leaves, Downloading, Final, Binary, Forgive, Throw, Goto
  <2> QED
    BY <2>1, <2>2, <2>3, <2>4, <2>5
<1>4. ASSUME NEW v \in Wrappers, v # w PROVE Holds(v)' /\ Leaves(v)'
  <2>1. /\ pc'[v] = pc[v] /\ archive'[v] = archive[v] /\ sidecar'[v] = sidecar[v] /\ staged'[v] = staged[v]
        /\ temporary'[v] = temporary[v] /\ failing'[v] = failing[v] /\ ran'[v] = ran[v]
    BY <1>4 DEF IInv, TypeOK, StartCopy, EndCopy, Chmod, Rename, Forgive, Goto, Throw
  <2>2. QED
    BY <1>2, <1>4, <2>1, OthersAreUndisturbed
<1>5. \A v \in Wrappers : asked'[v] => redirects'[v] <= MaxRedirects
  BY DEF IInv, TypeOK, MaxRedirects, StartCopy, EndCopy, Chmod, Rename, Forgive
<1>6. QED
  BY <1>1, <1>2, <1>3, <1>4, <1>5 DEF IInv

(* The `finally` blocks, the start of the binary, and a kill at any point. *)
LEMMA EndingStep ==
    ASSUME IInv, NEW w \in Wrappers, Unstage(w) \/ Clean(w) \/ Start(w) \/ Killed(w)
    PROVE  IInv'
<1>1. TypeOK'
  <2>1. CASE Unstage(w)
    BY <2>1 DEF IInv, TypeOK, Downloading, Final, MaxRedirects, Unstage, Goto
  <2>2. CASE Clean(w)
    BY <2>2 DEF IInv, TypeOK, Downloading, Final, MaxRedirects, Clean, Goto
  <2>3. CASE Start(w)
    BY <2>3 DEF IInv, TypeOK, Downloading, Final, MaxRedirects, Start, Goto
  <2>4. CASE Killed(w)
    BY <2>4 DEF IInv, TypeOK, Downloading, Final, MaxRedirects, Killed, Goto
  <2> QED
    BY <2>1, <2>2, <2>3, <2>4
<1>2. installed' = installed
  BY DEF Unstage, Clean, Start, Killed
<1>3. Holds(w)' /\ Leaves(w)'
  BY DEF IInv, TypeOK, Holds, Leaves, Unstage, Clean, Start, Killed, Goto, Downloading, Final
<1>4. ASSUME NEW v \in Wrappers, v # w PROVE Holds(v)' /\ Leaves(v)'
  <2>1. /\ pc'[v] = pc[v] /\ archive'[v] = archive[v] /\ sidecar'[v] = sidecar[v] /\ staged'[v] = staged[v]
        /\ temporary'[v] = temporary[v] /\ failing'[v] = failing[v] /\ ran'[v] = ran[v]
    BY <1>4 DEF IInv, TypeOK, Unstage, Clean, Start, Killed, Goto
  <2>2. QED
    BY <1>2, <1>4, <2>1, OthersAreUndisturbed
<1>5. \A v \in Wrappers : asked'[v] => redirects'[v] <= MaxRedirects
  BY DEF IInv, TypeOK, MaxRedirects, Unstage, Clean, Start, Killed
<1>6. QED
  BY <1>1, <1>2, <1>3, <1>4, <1>5 DEF IInv

LEMMA InvariantStep == IInv /\ [Next]_vars => IInv'
<1> SUFFICES ASSUME IInv, [Next]_vars PROVE IInv'
  OBVIOUS
<1>1. CASE Next
  <2>1. PICK w \in Wrappers : Answer(w) \/ Own(w) \/ Killed(w)
    BY <1>1 DEF Next
  <2>2. QED
    BY <2>1, DownloadStep, StagingStep, EndingStep DEF Own
<1>2. CASE UNCHANGED vars
  BY <1>2 DEF vars, IInv, TypeOK, Holds, Leaves
<1>3. QED
  BY <1>1, <1>2

----------------------------------------------------------------------------
THEOREM InvariantHolds == Spec => []IInv
<1>1. Init => IInv
  BY InitEstablishesInvariant
<1>2. IInv /\ [Next]_vars => IInv'
  BY InvariantStep
<1>3. QED
  BY <1>1, <1>2, PTL DEF Spec

(* However many first runs race and however many of them are killed, only  *)
(* the verified, complete and executable binary is ever in place or run.   *)
THEOREM InstallationIsAtomic == Spec => []OnlyTheReleaseRuns
<1>1. IInv => OnlyTheReleaseRuns
  BY DEF IInv, Holds, OnlyTheReleaseRuns
<1>2. QED
  BY <1>1, InvariantHolds, PTL

(* A run that ends through its `finally` blocks has removed what it put on *)
(* the disk, and one that a malformed Location ends leaves no staged file. *)
THEOREM NothingIsLeft == Spec => []EndedRunsLeaveNothing
<1>1. IInv => EndedRunsLeaveNothing
  BY DEF IInv, Leaves, EndedRunsLeaveNothing, Final
<1>2. QED
  BY <1>1, InvariantHolds, PTL
=============================================================================
