----------------------------- MODULE NpmInstall -----------------------------
(***************************************************************************)
(* The npm wrapper (npm/outlint/install.js, bin.js): every run looks for   *)
(* the binary in a cache that all runs share, downloads and verifies it    *)
(* when it is not there, stages it beside its destination, renames it      *)
(* into place and runs whatever the destination then holds.                *)
(*                                                                         *)
(* The server, the network and the file system are the environment: they   *)
(* answer, redirect, damage, refuse and fail as they like.  Only removing  *)
(* one's own files is taken to succeed.                                    *)
(***************************************************************************)
EXTENDS Naturals, FiniteSets

CONSTANTS
    Wrappers,       \* the runs of the wrapper
    None,           \* no file
    MaxCrashes      \* bound: how many wrappers may be killed

MaxRedirects == 5

VARIABLES
    pc,         \* where each wrapper is; see Final for the ends
    unix,       \* a rename replaces its destination, unlike on Windows
    asked,      \* whether a request is out
    redirects,  \* how often the download in progress was redirected
    archive,    \* what each wrapper downloaded: "released" or "damaged"
    sidecar,    \* whose checksum came with it: "released", or "invalid"
    temporary,  \* whether its temporary directory exists
    staged,     \* the file it stages next to the destination
    failing,    \* whether install() is about to throw
    installed,  \* the file at the destination
    ran         \* the file that each wrapper started

vars == <<unix, pc, asked, redirects, archive, sidecar, temporary, staged, failing, installed, ran>>

(* Only Windows does without the executable bit.                           *)
File(body, executable) == [body |-> body, executable |-> executable]
Files == [body : {"part", "released", "damaged", None}, executable : BOOLEAN]
Binary == File("released", TRUE)

Downloading == {"archive", "sidecar"}
Final == {"ran", "failed", "crashed", "killed"}

TypeOK ==
    /\ unix \in BOOLEAN
    /\ pc \in [Wrappers -> Downloading \cup Final \cup
                  {"look", "verify", "extract", "copy", "copying", "chmod", "rename",
                   "beaten", "unstage", "clean", "start"}]
    /\ asked \in [Wrappers -> BOOLEAN] /\ redirects \in [Wrappers -> 0..(MaxRedirects + 1)]
    /\ archive \in [Wrappers -> {None, "released", "damaged"}]
    /\ sidecar \in [Wrappers -> {None, "released", "invalid"}]
    /\ temporary \in [Wrappers -> BOOLEAN] /\ failing \in [Wrappers -> BOOLEAN]
    /\ staged \in [Wrappers -> {None} \cup Files]
    /\ installed \in {None} \cup Files
    /\ ran \in [Wrappers -> {None} \cup Files]

Init ==
    /\ unix \in BOOLEAN
    /\ pc = [w \in Wrappers |-> "look"] /\ asked = [w \in Wrappers |-> FALSE]
    /\ redirects = [w \in Wrappers |-> 0]
    /\ archive = [w \in Wrappers |-> None] /\ sidecar = [w \in Wrappers |-> None]
    /\ temporary = [w \in Wrappers |-> FALSE] /\ failing = [w \in Wrappers |-> FALSE]
    /\ staged = [w \in Wrappers |-> None]
    /\ installed = None
    /\ ran = [w \in Wrappers |-> None]

Goto(w, place) == pc' = [pc EXCEPT ![w] = place]
(* An exception: the `finally` around the step runs next.                  *)
Throw(w, cleanup) == Goto(w, cleanup) /\ failing' = [failing EXCEPT ![w] = TRUE]

----------------------------------------------------------------------------
Look(w) ==
    /\ pc[w] = "look"
    /\ \/ installed # None /\ Goto(w, "start") /\ UNCHANGED temporary
       \/ installed = None /\ Goto(w, "archive") /\ temporary' = [temporary EXCEPT ![w] = TRUE]
       \/ installed = None /\ Goto(w, "failed") /\ UNCHANGED temporary   \* mkdtempSync
    /\ UNCHANGED <<unix, asked, redirects, archive, sidecar, staged, failing, installed, ran>>

(* download() looks at the number of redirects before it asks.             *)
Request(w) ==
    /\ pc[w] \in Downloading /\ ~asked[w]
    /\ IF redirects[w] > MaxRedirects
       THEN Throw(w, "clean") /\ UNCHANGED asked
       ELSE asked' = [asked EXCEPT ![w] = TRUE] /\ UNCHANGED <<pc, failing>>
    /\ UNCHANGED <<unix, redirects, archive, sidecar, temporary, staged, installed, ran>>

(* Bug: the redirected download starts with the default count again.       *)
RedirectAfresh(w) ==
    /\ pc[w] \in Downloading /\ asked[w]
    /\ asked' = [asked EXCEPT ![w] = FALSE]
    /\ redirects' = [redirects EXCEPT ![w] = 0]
    /\ UNCHANGED <<unix, pc, archive, sidecar, temporary, staged, failing, installed, ran>>
Redirect(w) ==
    /\ pc[w] \in Downloading /\ asked[w]
    /\ asked' = [asked EXCEPT ![w] = FALSE]
    /\ redirects' = [redirects EXCEPT ![w] = @ + 1]
    /\ UNCHANGED <<unix, pc, archive, sidecar, temporary, staged, failing, installed, ran>>

(* A Location that is no URL throws in the callback of the response, where *)
(* no promise and no `finally` sees it: Node ends the process on the spot. *)
MalformedRedirect(w) ==
    /\ pc[w] \in Downloading /\ asked[w]
    /\ asked' = [asked EXCEPT ![w] = FALSE]
    /\ Goto(w, "crashed")
    /\ UNCHANGED <<unix, redirects, archive, sidecar, temporary, staged, failing, installed, ran>>

(* A redirect to plain HTTP, a status that is not 200, a broken connection *)
(* or an output that cannot be written: the promise is rejected.           *)
DownloadFails(w) ==
    /\ pc[w] \in Downloading /\ asked[w]
    /\ asked' = [asked EXCEPT ![w] = FALSE]
    /\ Throw(w, "clean")
    /\ UNCHANGED <<unix, redirects, archive, sidecar, temporary, staged, installed, ran>>

ReceiveArchive(w, body) ==
    /\ pc[w] = "archive" /\ asked[w]
    /\ asked' = [asked EXCEPT ![w] = FALSE]
    /\ archive' = [archive EXCEPT ![w] = body]
    /\ redirects' = [redirects EXCEPT ![w] = 0]
    /\ Goto(w, "sidecar")
    /\ UNCHANGED <<unix, sidecar, temporary, staged, failing, installed, ran>>
ReceiveSidecar(w, text) ==
    /\ pc[w] = "sidecar" /\ asked[w]
    /\ asked' = [asked EXCEPT ![w] = FALSE]
    /\ sidecar' = [sidecar EXCEPT ![w] = text]
    /\ Goto(w, "verify")
    /\ UNCHANGED <<unix, redirects, archive, temporary, staged, failing, installed, ran>>

(* Bug: a checksum file that cannot be read is taken for no checksum.      *)
VerifyIfGiven(w) ==
    /\ pc[w] = "verify"
    /\ IF sidecar[w] = "invalid" \/ archive[w] = sidecar[w]
       THEN Goto(w, "extract") /\ UNCHANGED failing
       ELSE Throw(w, "clean")
    /\ UNCHANGED <<unix, asked, redirects, archive, sidecar, temporary, staged, installed, ran>>
Verify(w) ==
    /\ pc[w] = "verify"
    /\ IF sidecar[w] # "invalid" /\ archive[w] = sidecar[w]
       THEN Goto(w, "extract") /\ UNCHANGED failing
       ELSE Throw(w, "clean")
    /\ UNCHANGED <<unix, asked, redirects, archive, sidecar, temporary, staged, installed, ran>>

Extract(w) ==
    /\ pc[w] = "extract"
    /\ \/ Goto(w, "copy") /\ UNCHANGED failing
       \/ Throw(w, "clean")
    /\ UNCHANGED <<unix, asked, redirects, archive, sidecar, temporary, staged, installed, ran>>

(* The copy is not atomic: a part of it is there before all of it.         *)
StartCopy(w) ==
    /\ pc[w] = "copy"
    /\ staged' = [staged EXCEPT ![w] = File("part", FALSE)]
    /\ Goto(w, "copying")
    /\ UNCHANGED <<unix, asked, redirects, archive, sidecar, temporary, failing, installed, ran>>
EndCopy(w) ==
    /\ pc[w] = "copying"
    /\ \/ /\ staged' = [staged EXCEPT ![w] = File(archive[w], ~unix)]
          /\ Goto(w, IF unix THEN "chmod" ELSE "rename")
          /\ UNCHANGED failing
       \/ Throw(w, "unstage") /\ UNCHANGED staged
    /\ UNCHANGED <<unix, asked, redirects, archive, sidecar, temporary, installed, ran>>
Chmod(w) ==
    /\ pc[w] = "chmod"
    /\ \/ /\ staged' = [staged EXCEPT ![w] = File(@.body, TRUE)]
          /\ Goto(w, "rename") /\ UNCHANGED failing
       \/ Throw(w, "unstage") /\ UNCHANGED staged
    /\ UNCHANGED <<unix, asked, redirects, archive, sidecar, temporary, installed, ran>>

Rename(w) ==
    /\ pc[w] = "rename"
    /\ \/ /\ installed = None \/ unix
          /\ installed' = staged[w]
          /\ staged' = [staged EXCEPT ![w] = None]
          /\ Goto(w, "unstage")
       \/ Goto(w, "beaten") /\ UNCHANGED <<staged, installed>>
    /\ UNCHANGED <<unix, asked, redirects, archive, sidecar, temporary, failing, ran>>
(* A rename that failed is forgiven when somebody's binary is there.       *)
(* Bug: the loser returns at once.                                         *)
ForgiveAtOnce(w) ==
    /\ pc[w] = "beaten"
    /\ IF installed # None THEN Goto(w, "clean") /\ UNCHANGED failing ELSE Throw(w, "unstage")
    /\ UNCHANGED <<unix, asked, redirects, archive, sidecar, temporary, staged, installed, ran>>
Forgive(w) ==
    /\ pc[w] = "beaten"
    /\ IF installed # None THEN Goto(w, "unstage") /\ UNCHANGED failing ELSE Throw(w, "unstage")
    /\ UNCHANGED <<unix, asked, redirects, archive, sidecar, temporary, staged, installed, ran>>

Unstage(w) ==
    /\ pc[w] = "unstage"
    /\ staged' = [staged EXCEPT ![w] = None]
    /\ Goto(w, "clean")
    /\ UNCHANGED <<unix, asked, redirects, archive, sidecar, temporary, failing, installed, ran>>
Clean(w) ==
    /\ pc[w] = "clean"
    /\ temporary' = [temporary EXCEPT ![w] = FALSE]
    /\ Goto(w, IF failing[w] THEN "failed" ELSE "start")
    /\ UNCHANGED <<unix, asked, redirects, archive, sidecar, staged, failing, installed, ran>>

(* bin.js spawns whatever is at the destination by now.                    *)
Start(w) ==
    /\ pc[w] = "start"
    /\ ran' = [ran EXCEPT ![w] = installed]
    /\ Goto(w, "ran")
    /\ UNCHANGED <<unix, asked, redirects, archive, sidecar, temporary, staged, failing, installed>>

Killed(w) ==
    /\ pc[w] \notin Final
    /\ Cardinality({other \in Wrappers : pc[other] = "killed"}) < MaxCrashes
    /\ Goto(w, "killed")
    /\ UNCHANGED <<unix, asked, redirects, archive, sidecar, temporary, staged, failing, installed, ran>>

----------------------------------------------------------------------------
(* What the server does for a download, and what the wrapper does itself.  *)
Answer(w) ==
    \/ Redirect(w) \/ MalformedRedirect(w) \/ DownloadFails(w)
    \/ \E body \in {"released", "damaged"} : ReceiveArchive(w, body)
    \/ \E text \in {"released", "invalid"} : ReceiveSidecar(w, text)
Own(w) ==
    \/ Look(w) \/ Request(w) \/ Verify(w) \/ Extract(w) \/ StartCopy(w) \/ EndCopy(w) \/ Chmod(w)
    \/ Rename(w) \/ Forgive(w) \/ Unstage(w) \/ Clean(w) \/ Start(w)
Next == \E w \in Wrappers : Answer(w) \/ Own(w) \/ Killed(w)

(* The wrapper keeps going; a server that never answers keeps it waiting   *)
(* for ever, so the second conjunct is the hypothesis of every promise to  *)
(* end: the code sets no timeout on the request.                           *)
Fairness == \A w \in Wrappers : WF_vars(Own(w)) /\ WF_vars(Answer(w))
Spec == Init /\ [][Next]_vars /\ Fairness

----------------------------------------------------------------------------
(* However many first runs race, fail and are killed on the way, what the  *)
(* cache holds and what any of them runs is the whole verified binary that *)
(* the release published, executable; nothing partial is ever in place.    *)
OnlyTheReleaseRuns ==
    /\ installed \in {None, Binary}
    /\ \A w \in Wrappers : pc[w] = "ran" => ran[w] = Binary

(* A run that ends through its `finally` blocks leaves neither a temporary *)
(* directory nor a staged file, as winner, as loser or with an error.  One *)
(* that a malformed Location ends does not get there and leaves its        *)
(* temporary directory, but nothing in the cache that all runs share: only *)
(* a kill leaves a staged file behind.                                     *)
EndedRunsLeaveNothing ==
    \A w \in Wrappers :
        /\ pc[w] \in {"ran", "failed"} => ~temporary[w]
        /\ pc[w] \in Final \ {"killed"} => staged[w] = None

(* Every run ends as long as the server goes on answering, even if it      *)
(* answers every request with another redirect.                            *)
EveryRunEnds == \A w \in Wrappers : <>(pc[w] \in Final)
=============================================================================
