------------------------------ MODULE Coverage ------------------------------
(***************************************************************************)
(* MergeAndUpload of pkg/service/coverage/coverage.go: the coverage of the *)
(* test files a commit did not execute is copied from the commit before    *)
(* it, merged with that of those it did, uploaded by three goroutines, and *)
(* reported to neuron.                                                     *)
(*                                                                         *)
(* The coverage directory of a test file is abstracted to the commit that  *)
(* executed the file.  Directories live on a volume shared by all jobs, so *)
(* a job that is tried again finds what the earlier one has left.          *)
(***************************************************************************)
EXTENDS Naturals, Sequences

CONSTANTS
    NumCommits,  \* commits of the payload, oldest first
    NumFiles,    \* test files, in the order a directory is walked
    WorkDirs,    \* directories nucleus may run in: subset of {"home", "repo"}
    MaxRuns      \* bound: how often the job is started

ASSUME CoverageAssumption ==
    /\ NumCommits \in Nat \ {0} /\ NumFiles \in Nat \ {0} /\ MaxRuns \in Nat \ {0}
    /\ WorkDirs \subseteq {"home", "repo"} /\ WorkDirs # {}

Commits == 1..NumCommits
Files == 1..NumFiles

\* Commit 0 is the parent commit of the build.  None: no directory; Torn: a
\* directory whose copy was not finished.
None == NumCommits + 1
Torn == NumCommits + 2
Dirs == 0..NumCommits
Contents == [Files -> Dirs \cup {None, Torn}]

VARIABLES
    parentExists,  \* payload.ParentCommitCoverageExists
    blob,          \* the archive of the parent commit
    manifest,      \* the manifest each commit's runner has written
    workDir,       \* the working directory of the process
    volume,        \* content of each commit's directory
    onVolume,      \* whether the directory of the parent commit exists
    merged,        \* coverage-merged.json of each commit
    pc,
    commit,        \* index of the current commit
    parentDir,     \* parentCommitDir, None when it is ""
    goroutine,     \* the three goroutines of the error group
    err,           \* the err two of them share with MergeAndUpload
    groupErr,      \* the first error one of them returned
    archived,      \* archive of the current commit uploaded
    jsonUploaded,  \* merged file of the current commit uploaded
    totalParsed,   \* total coverage of the current commit read
    payload,       \* coveragePayload
    sent,          \* the payload neuron has recorded
    cause,         \* why MergeAndUpload returned
    run            \* number of the present run

input == <<parentExists, blob, manifest, workDir>>
disk == <<volume, onVolume, merged>>
loop == <<commit, parentDir, payload>>
group == <<goroutine, err, groupErr, archived, jsonUploaded, totalParsed>>
vars == <<input, disk, pc, loop, group, sent, cause, run>>

Goroutines == {"archive", "json", "total"}

Manifests ==
    {m \in [executed: SUBSET Files, removed: SUBSET Files, all: BOOLEAN] :
        m.executed \cap m.removed = {}}

TypeOK ==
    /\ parentExists \in BOOLEAN /\ blob \in [Files -> {0, None}]
    /\ manifest \in [Commits -> Manifests] /\ workDir \in WorkDirs
    /\ volume \in [Dirs -> Contents] /\ onVolume \in BOOLEAN
    /\ merged \in [Commits -> Contents]
    /\ pc \in {"parent", "download", "copyParent", "commit", "copy", "merge", "upload",
               "returned"}
    /\ commit \in 1..(NumCommits + 1) /\ parentDir \in Dirs \cup {None}
    /\ goroutine \in [Goroutines -> {"idle", "call", "return", "done"}]
    /\ err \in BOOLEAN /\ groupErr \in BOOLEAN
    /\ archived \in BOOLEAN /\ jsonUploaded \in BOOLEAN /\ totalParsed \in BOOLEAN
    /\ DOMAIN payload = 1..(commit - 1) /\ run \in 1..MaxRuns
    /\ cause \in {"none", "done", "call", "noParent", "parentOnVolume", "noFiles",
                  "archiveMissing"}

Idle == [g \in Goroutines |-> "idle"]

Init ==
    /\ parentExists \in BOOLEAN /\ blob \in [Files -> {0, None}]
    /\ manifest \in [Commits -> Manifests] /\ workDir \in WorkDirs
    /\ onVolume \in BOOLEAN
    /\ volume = [c \in Dirs |-> [f \in Files |->
            IF c = 0 THEN IF onVolume THEN blob[f] ELSE None
            ELSE IF f \in manifest[c].executed THEN c ELSE None]]
    /\ merged = [c \in Commits |-> [f \in Files |-> None]]
    /\ pc = "parent" /\ commit = 1 /\ parentDir = None /\ payload = <<>>
    /\ goroutine = Idle /\ err = FALSE /\ groupErr = FALSE
    /\ archived = FALSE /\ jsonUploaded = FALSE /\ totalParsed = FALSE
    /\ sent = <<>> /\ cause = "none" /\ run = 1

\* return err
Return(why) == pc' = "returned" /\ cause' = why

Fail(why) == Return(why) /\ UNCHANGED <<input, disk, loop, group, sent, run>>

-----------------------------------------------------------------------------
(* The coverage of the parent commit.                                      *)

\* getParentCommitCoverageDir asks neuron where it is.
GetParentCommitCoverageDir ==
    /\ pc = "parent"
    /\ pc' = IF parentExists THEN "download" ELSE "commit"
    /\ UNCHANGED <<input, disk, loop, group, sent, cause, run>>

\* A request, the archive's file or tar failed; so may any call below that has
\* no effect of its own to leave behind.
CallFails ==
    /\ pc \in {"download", "commit", "copy", "merge"}
    /\ pc = "commit" => commit <= NumCommits
    /\ Fail("call")

\* The archive is fetched and unpacked in the directory for temporary files.
DownloadParent ==
    /\ pc = "download"
    /\ pc' = "copyParent"
    /\ UNCHANGED <<input, disk, loop, group, sent, cause, run>>

\* What copying the files of wanted leaves in a directory: everything, or, when
\* the copy of file failed, what came before it and perhaps a part of it.
CopyTo(dir, from, wanted) == [f \in Files |-> IF f \in wanted THEN from[f] ELSE dir[f]]
CopyUpTo(dir, from, wanted, file, begun) ==
    [f \in Files |-> IF f \notin wanted \/ f > file THEN dir[f]
                     ELSE IF f < file THEN from[f]
                     ELSE IF begun THEN Torn ELSE dir[f]]

Present(content) == {f \in Files : content[f] # None}

\* CopyDir refuses a destination that exists.
CopyParent ==
    /\ pc = "copyParent" /\ ~onVolume
    /\ onVolume' = TRUE
    /\ \/ /\ volume' = [volume EXCEPT ![0] = blob]
          /\ pc' = "commit" /\ parentDir' = 0 /\ UNCHANGED cause
       \/ /\ \E file \in Present(blob), begun \in BOOLEAN :
                volume' = [volume EXCEPT ![0] = CopyUpTo(@, blob, Present(blob), file, begun)]
          /\ Return("call") /\ UNCHANGED parentDir
    /\ UNCHANGED <<input, merged, commit, payload, group, sent, run>>

ParentOnVolume == pc = "copyParent" /\ onVolume /\ Fail("parentOnVolume")

-----------------------------------------------------------------------------
(* One commit: manifest, copy, merge.                                      *)

ReadManifest ==
    /\ pc = "commit" /\ commit <= NumCommits
    /\ pc' = IF manifest[commit].all THEN "merge" ELSE "copy"
    /\ UNCHANGED <<input, disk, loop, group, sent, cause, run>>

\* Mutant of Missing: directories that exist are copied too.
MissingOrPresent == Present(volume[parentDir]) \ manifest[commit].removed

\* The directories copyFromParentCommitDir copies.
Missing ==
    (Present(volume[parentDir]) \ manifest[commit].removed) \ Present(volume[commit])

NoParentDir == pc = "copy" /\ parentDir = None /\ Fail("noParent")

CopyFromParent ==
    /\ pc = "copy" /\ parentDir # None
    /\ \/ /\ volume' = [volume EXCEPT ![commit] = CopyTo(@, volume[parentDir], Missing)]
          /\ pc' = "merge" /\ UNCHANGED cause
       \/ /\ \E file \in Missing, begun \in BOOLEAN : volume' =
                [volume EXCEPT ![commit] = CopyUpTo(@, volume[parentDir], Missing, file, begun)]
          /\ Return("call")
    /\ UNCHANGED <<input, onVolume, merged, loop, group, sent, run>>

NoCoverageFiles == pc = "merge" /\ Present(volume[commit]) = {} /\ Fail("noFiles")

\* mergeCodeCoverageFiles writes the merged file; the goroutines start.
MergeCodeCoverageFiles ==
    /\ pc = "merge" /\ Present(volume[commit]) # {}
    /\ merged' = [merged EXCEPT ![commit] = volume[commit]]
    /\ pc' = "upload" /\ goroutine' = [g \in Goroutines |-> "call"]
    /\ archived' = FALSE /\ jsonUploaded' = FALSE /\ totalParsed' = FALSE /\ err' = FALSE
    /\ UNCHANGED <<input, volume, onVolume, loop, groupErr, sent, cause, run>>

-----------------------------------------------------------------------------
(* The goroutines of one commit.                                           *)

\* What a goroutine returns is the error of the group if it is the first.
Done(g, failed) ==
    /\ goroutine' = [goroutine EXCEPT ![g] = "done"]
    /\ groupErr' = (groupErr \/ failed)

\* Its errors are its own.  tar writes the archive in the directory it works
\* in, that of the repository; the upload opens it where nucleus works.
Archive ==
    /\ goroutine["archive"] = "call"
    /\ \E failed \in IF workDir = "repo" THEN BOOLEAN ELSE {TRUE} :
        Done("archive", failed) /\ archived' = ~failed
    /\ UNCHANGED <<input, disk, pc, loop, err, jsonUploaded, totalParsed, sent, cause, run>>

\* Mutant of Call: the error is not kept.
CallForgets(g) ==
    /\ goroutine[g] = "call"
    /\ \E failed \in BOOLEAN :
        /\ err' = FALSE
        /\ IF g = "json" THEN jsonUploaded' = ~failed /\ UNCHANGED totalParsed
                         ELSE totalParsed' = ~failed /\ UNCHANGED jsonUploaded
    /\ goroutine' = [goroutine EXCEPT ![g] = "return"]
    /\ UNCHANGED <<input, disk, pc, loop, groupErr, archived, sent, cause, run>>

\* blobURL, err = uploadFile(...) and totalCoverage, err = getTotalCoverage(...)
Call(g) ==
    /\ goroutine[g] = "call"
    /\ \E failed \in BOOLEAN :
        /\ err' = failed
        /\ IF g = "json" THEN jsonUploaded' = ~failed /\ UNCHANGED totalParsed
                         ELSE totalParsed' = ~failed /\ UNCHANGED jsonUploaded
    /\ goroutine' = [goroutine EXCEPT ![g] = "return"]
    /\ UNCHANGED <<input, disk, pc, loop, groupErr, archived, sent, cause, run>>

\* return err: whoever wrote it last.
ReturnErr(g) ==
    /\ goroutine[g] = "return"
    /\ Done(g, err)
    /\ UNCHANGED <<input, disk, pc, loop, err, archived, jsonUploaded, totalParsed, sent,
                   cause, run>>

AllDone == \A g \in Goroutines : goroutine[g] = "done"

AppendCoverage ==
    payload' = Append(payload,
        [commit |-> commit, archive |-> archived, json |-> jsonUploaded, total |-> totalParsed])

\* Mutant of Wait: the entry is appended before the error is looked at.
WaitAppends ==
    /\ pc = "upload" /\ AllDone
    /\ AppendCoverage /\ goroutine' = Idle
    /\ IF groupErr THEN /\ UNCHANGED <<commit, parentDir>>
                        /\ Return(IF workDir = "repo" THEN "call" ELSE "archiveMissing")
       ELSE parentDir' = commit /\ commit' = commit + 1 /\ pc' = "commit" /\ UNCHANGED cause
    /\ UNCHANGED <<input, disk, err, groupErr, archived, jsonUploaded, totalParsed, sent, run>>

\* g.Wait(); the current commit's directory becomes the parent of the next.
Wait ==
    /\ pc = "upload" /\ AllDone
    /\ goroutine' = Idle
    /\ IF groupErr THEN /\ UNCHANGED loop
                        /\ Return(IF workDir = "repo" THEN "call" ELSE "archiveMissing")
       ELSE AppendCoverage /\ parentDir' = commit /\ commit' = commit + 1 /\ pc' = "commit"
            /\ UNCHANGED cause
    /\ UNCHANGED <<input, disk, err, groupErr, archived, jsonUploaded, totalParsed, sent, run>>

\* An answer that is lost leaves neuron with the data and the job with an error.
SendCoverageData ==
    /\ pc = "commit" /\ commit > NumCommits
    /\ \/ sent' = payload /\ Return("done")
       \/ sent' \in {sent, payload} /\ Return("call")
    /\ UNCHANGED <<input, disk, loop, group, run>>

\* A coverage job that failed is started again, on the same volume.
StartAgain ==
    /\ pc = "returned" /\ cause # "done" /\ run < MaxRuns
    /\ pc' = "parent" /\ commit' = 1 /\ parentDir' = None /\ payload' = <<>>
    /\ goroutine' = Idle /\ err' = FALSE /\ groupErr' = FALSE
    /\ archived' = FALSE /\ jsonUploaded' = FALSE /\ totalParsed' = FALSE
    /\ cause' = "none" /\ run' = run + 1
    /\ UNCHANGED <<input, disk, sent>>

-----------------------------------------------------------------------------
Next ==
    \/ GetParentCommitCoverageDir \/ CallFails \/ DownloadParent \/ CopyParent
    \/ ParentOnVolume \/ ReadManifest \/ NoParentDir \/ CopyFromParent \/ NoCoverageFiles
    \/ MergeCodeCoverageFiles \/ Archive
    \/ \E g \in {"json", "total"} : Call(g) \/ ReturnErr(g)
    \/ Wait \/ SendCoverageData \/ StartAgain

Spec == Init /\ [][Next]_vars

-----------------------------------------------------------------------------
Provides(c, f) == IF c = 0 THEN parentExists /\ blob[f] = 0 ELSE f \in manifest[c].executed

\* The last commit up to c that executed file f, unless a later one has removed
\* the file or executed all there are.
LastExecution(c, f) ==
    LET Valid == {k \in 0..c : /\ Provides(k, f)
                               /\ \A j \in (k + 1)..c : /\ f \notin manifest[j].executed
                                                        /\ f \notin manifest[j].removed
                                                        /\ ~manifest[j].all}
    IN IF Valid = {} THEN None ELSE CHOOSE k \in Valid : TRUE

(* What neuron is told of a commit was merged from the last execution of   *)
(* every test file the commit still has, and from nothing else; only a job *)
(* that was started again may have taken a directory whose copy had failed *)
(* for a complete one (the TODO at coverage.go:289).                       *)
MergedIsLatest ==
    \A n \in DOMAIN sent : \A f \in Files :
        LET c == sent[n].commit IN
        \/ merged[c][f] = LastExecution(c, f)
        \/ merged[c][f] = Torn /\ run > 1

(* Two goroutines return one err, so a failure of either may be lost; that *)
(* both failed, or that the archive is missing, is never lost.             *)
OneFailureMayHide ==
    \A n \in DOMAIN sent : sent[n].archive /\ (sent[n].json \/ sent[n].total)

(* "MergeAndUpload compress the file and upload in azure blob"             *)
(* (coverage.go:103): it does not miss the archive it has just written.    *)
(* The code breaks it: tar works in the repository's coverage directory,   *)
(* and the upload opens the bare name in the directory of the process.     *)
ArchiveIsFound == cause # "archiveMissing"
=============================================================================
