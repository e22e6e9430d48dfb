--------------------------- MODULE CoverageProofs ---------------------------
(***************************************************************************)
(* Proofs about Coverage, for any number of commits, test files and        *)
(* attempts: of the failures of the three goroutines at most one is lost,  *)
(* and what neuron is told of was merged from the latest executions.       *)
(***************************************************************************)
EXTENDS Coverage, TLAPS

Entries == [commit: Nat, archive: BOOLEAN, json: BOOLEAN, total: BOOLEAN]

Good(e) == e.archive /\ (e.json \/ e.total)

\* The ranges of what the proof speaks of.
GroupTypes ==
    /\ goroutine \in [Goroutines -> {"idle", "call", "return", "done"}]
    /\ err \in BOOLEAN /\ groupErr \in BOOLEAN
    /\ archived \in BOOLEAN /\ jsonUploaded \in BOOLEAN /\ totalParsed \in BOOLEAN
    /\ commit \in Nat /\ payload \in Seq(Entries) /\ sent \in Seq(Entries)

Called(g) == goroutine[g] \in {"return", "done"}
JsonFailed == Called("json") /\ ~jsonUploaded
TotalFailed == Called("total") /\ ~totalParsed
JsonDidNotSucceed == Called("json") => ~jsonUploaded
TotalDidNotSucceed == Called("total") => ~totalParsed

\* As long as neither of the two goroutines has succeeded, err is the error of
\* whichever has failed, and the group has it once that one has returned.
SharedErr ==
    /\ goroutine["archive"] = "done" /\ ~groupErr => archived
    /\ JsonFailed /\ TotalDidNotSucceed =>
        err /\ (goroutine["json"] = "done" => groupErr)
    /\ TotalFailed /\ JsonDidNotSucceed =>
        err /\ (goroutine["total"] = "done" => groupErr)

GoodEntries ==
    /\ \A n \in DOMAIN payload : Good(payload[n])
    /\ \A n \in DOMAIN sent : Good(sent[n])

GroupInv == GroupTypes /\ SharedErr /\ GoodEntries

LEMMA GroupInitial == Init => GroupInv
<1>. SUFFICES ASSUME Init PROVE GroupTypes /\ SharedErr /\ GoodEntries
    BY DEF GroupInv
<1>1. /\ Idle \in [Goroutines -> {"idle", "call", "return", "done"}]
      /\ <<>> \in Seq(Entries)
    BY DEF Idle
<1>2. GroupTypes
    BY <1>1 DEF Init, GroupTypes
<1>3. SharedErr
    BY DEF Init, SharedErr, Idle, Goroutines, JsonFailed, TotalFailed, Called
<1>4. GoodEntries
    BY DEF Init, GoodEntries
<1>. QED BY <1>2, <1>3, <1>4

\* Outside the goroutines nothing that the invariant speaks of changes, but for
\* the commit's number.
LEMMA GroupUnchanged ==
    ASSUME GroupInv, UNCHANGED <<group, commit, payload, sent>>
    PROVE  GroupInv'
    BY DEF GroupInv, GroupTypes, SharedErr, GoodEntries, group, JsonFailed, TotalFailed,
        JsonDidNotSucceed, TotalDidNotSucceed, Called

\* A goroutine that starts, calls or returns.
LEMMA GroupGoroutines ==
    ASSUME GroupInv,
           \/ MergeCodeCoverageFiles \/ Archive
           \/ \E g \in {"json", "total"} : Call(g) \/ ReturnErr(g)
    PROVE  GroupInv'
<1>. USE DEF GroupInv, GroupTypes, SharedErr, JsonFailed, TotalFailed, JsonDidNotSucceed,
        TotalDidNotSucceed, Called, Goroutines
<1>0. UNCHANGED <<commit, payload, sent>>
    BY DEF MergeCodeCoverageFiles, Archive, Call, ReturnErr, loop
<1>1. GoodEntries'
    BY <1>0 DEF GoodEntries
<1>2. CASE MergeCodeCoverageFiles
    BY <1>0, <1>1, <1>2 DEF MergeCodeCoverageFiles
<1>3. CASE Archive
    BY <1>0, <1>1, <1>3 DEF Archive, Done
<1>4. ASSUME Call("json") PROVE GroupInv'
    <2>1. PICK failed \in BOOLEAN : err' = failed /\ jsonUploaded' = ~failed /\ UNCHANGED totalParsed
        BY <1>4 DEF Call
    <2>2. /\ goroutine' = [goroutine EXCEPT !["json"] = "return"]
          /\ goroutine["json"] = "call" /\ UNCHANGED <<groupErr, archived>>
        BY <1>4 DEF Call
    <2>3. GroupTypes'
        BY <1>0, <2>1, <2>2
    <2>4. SharedErr'
        BY <2>1, <2>2
    <2>. QED BY <1>1, <2>3, <2>4
<1>5. ASSUME Call("total") PROVE GroupInv'
    <2>1. PICK failed \in BOOLEAN : err' = failed /\ totalParsed' = ~failed /\ UNCHANGED jsonUploaded
        BY <1>5 DEF Call
    <2>2. /\ goroutine' = [goroutine EXCEPT !["total"] = "return"]
          /\ goroutine["total"] = "call" /\ UNCHANGED <<groupErr, archived>>
        BY <1>5 DEF Call
    <2>3. GroupTypes'
        BY <1>0, <2>1, <2>2
    <2>4. SharedErr'
        BY <2>1, <2>2
    <2>. QED BY <1>1, <2>3, <2>4
<1>6. ASSUME NEW g \in {"json", "total"}, ReturnErr(g) PROVE GroupInv'
    BY <1>0, <1>1, <1>6 DEF ReturnErr, Done
<1>. QED BY <1>2, <1>3, <1>4, <1>5, <1>6

LEMMA GroupWait == GroupInv /\ Wait => GroupInv'
<1>. SUFFICES ASSUME GroupInv, Wait PROVE GroupTypes' /\ SharedErr' /\ GoodEntries'
    BY DEF GroupInv
<1>. DEFINE entry == [commit |-> commit, archive |-> archived, json |-> jsonUploaded,
                      total |-> totalParsed]
<1>1. goroutine' = Idle /\ UNCHANGED <<err, groupErr, archived, jsonUploaded, totalParsed, sent>>
    BY DEF Wait
<1>2. SharedErr'
    BY <1>1 DEF SharedErr, Idle, Goroutines, JsonFailed, TotalFailed, Called
<1>3. CASE groupErr
    <2>1. UNCHANGED <<commit, payload>>
        BY <1>3 DEF Wait, loop
    <2>2. GroupTypes'
        BY <1>1, <2>1 DEF GroupInv, GroupTypes, Idle
    <2>. QED BY <1>1, <1>2, <2>1, <2>2 DEF GroupInv, GoodEntries
<1>4. CASE ~groupErr
    <2>1. payload' = Append(payload, entry) /\ commit' = commit + 1
        BY <1>4 DEF Wait, AppendCoverage
    <2>2. entry \in Entries
        BY DEF GroupInv, GroupTypes, Entries
    <2>3. Good(entry)
        <3>1. \A g \in Goroutines : goroutine[g] = "done"
            BY DEF Wait, AllDone
        <3>2. archived /\ (jsonUploaded \/ totalParsed)
            BY <1>4, <3>1 DEF GroupInv, SharedErr, JsonFailed, TotalFailed, JsonDidNotSucceed,
                TotalDidNotSucceed, Called, Goroutines
        <3>. QED BY <3>2 DEF Good
    <2>. HIDE DEF entry
    <2>4. payload' \in Seq(Entries)
        BY <2>1, <2>2 DEF GroupInv, GroupTypes
    <2>5. \A n \in DOMAIN payload' : Good(payload'[n])
        BY <2>1, <2>2, <2>3 DEF GroupInv, GroupTypes, GoodEntries
    <2>6. GroupTypes'
        BY <1>1, <2>1, <2>4 DEF GroupInv, GroupTypes, Idle
    <2>. QED BY <1>1, <1>2, <2>5, <2>6 DEF GroupInv, GoodEntries
<1>. QED BY <1>3, <1>4

LEMMA GroupSend == GroupInv /\ SendCoverageData => GroupInv'
<1>. SUFFICES ASSUME GroupInv, SendCoverageData PROVE GroupInv'
    OBVIOUS
<1>1. UNCHANGED <<group, commit, payload>> /\ sent' \in {sent, payload}
    BY DEF SendCoverageData, loop
<1>. QED BY <1>1 DEF GroupInv, GroupTypes, SharedErr, GoodEntries, group, JsonFailed,
        TotalFailed, JsonDidNotSucceed, TotalDidNotSucceed, Called

LEMMA GroupAgain == GroupInv /\ StartAgain => GroupInv'
<1>. SUFFICES ASSUME GroupInv, StartAgain PROVE GroupTypes' /\ SharedErr' /\ GoodEntries'
    BY DEF GroupInv
<1>1. GroupTypes'
    <2>1. /\ Idle \in [Goroutines -> {"idle", "call", "return", "done"}]
          /\ <<>> \in Seq(Entries)
        BY DEF Idle
    <2>. QED BY <2>1 DEF StartAgain, GroupInv, GroupTypes
<1>2. SharedErr'
    BY DEF StartAgain, SharedErr, Idle, Goroutines, JsonFailed, TotalFailed, Called
<1>3. GoodEntries'
    BY DEF StartAgain, GroupInv, GoodEntries
<1>. QED BY <1>1, <1>2, <1>3

LEMMA GroupStep == GroupInv /\ [Next]_vars => GroupInv'
<1>. SUFFICES ASSUME GroupInv, [Next]_vars PROVE GroupInv'
    OBVIOUS
<1>1. CASE GetParentCommitCoverageDir \/ CallFails \/ DownloadParent \/ CopyParent
    <2>1. UNCHANGED <<group, commit, payload, sent>>
        BY <1>1 DEF GetParentCommitCoverageDir, CallFails, DownloadParent, CopyParent, Fail, loop
    <2>. QED BY <2>1, GroupUnchanged
<1>2. CASE ParentOnVolume \/ ReadManifest \/ NoParentDir \/ CopyFromParent \/ NoCoverageFiles
    <2>1. UNCHANGED <<group, commit, payload, sent>>
        BY <1>2 DEF ParentOnVolume, ReadManifest, NoParentDir, CopyFromParent, NoCoverageFiles,
            Fail, loop
    <2>. QED BY <2>1, GroupUnchanged
<1>3. CASE UNCHANGED vars
    <2>1. UNCHANGED <<group, commit, payload, sent>>
        BY <1>3 DEF vars, loop
    <2>. QED BY <2>1, GroupUnchanged
<1>. QED BY <1>1, <1>2, <1>3, GroupGoroutines, GroupWait, GroupSend, GroupAgain DEF Next

(* Whatever the order of the goroutines, neuron is told of a commit only   *)
(* if its archive was uploaded and at most one of the two that share err   *)
(* has failed.                                                             *)
THEOREM OneFailureHides == Spec => []OneFailureMayHide
<1>1. GroupInv => OneFailureMayHide
    BY DEF GroupInv, GoodEntries, Good, OneFailureMayHide
<1>. QED BY <1>1, GroupInitial, GroupStep, PTL DEF Spec

LEMMA GroupStays == Spec => []GroupInv
    BY GroupInitial, GroupStep, PTL DEF Spec

-----------------------------------------------------------------------------
(* The last execution of a test file, from one commit to the next.         *)

USE CoverageAssumption

ValidFor(c, f) ==
    {k \in 0..c : /\ Provides(k, f)
                  /\ \A j \in (k + 1)..c : /\ f \notin manifest[j].executed
                                           /\ f \notin manifest[j].removed
                                           /\ ~manifest[j].all}

AnyOf(S) == CHOOSE k \in S : TRUE

LEMMA LastIsChosen ==
    ASSUME NEW c, NEW f
    PROVE  LastExecution(c, f) = IF ValidFor(c, f) = {} THEN None
                                 ELSE AnyOf(ValidFor(c, f))
    BY DEF LastExecution, ValidFor, AnyOf

LEMMA AnyOfOne == ASSUME NEW x PROVE AnyOf({x}) = x
    BY DEF AnyOf

LEMMA LastOfParent ==
    ASSUME NEW f PROVE LastExecution(0, f) = IF Provides(0, f) THEN 0 ELSE None
<1>1. ValidFor(0, f) = IF Provides(0, f) THEN {0} ELSE {}
    BY DEF ValidFor
<1>. QED BY <1>1, LastIsChosen, AnyOfOne

LEMMA LastOfCommit ==
    ASSUME NEW c \in Commits, NEW f
    PROVE  LastExecution(c, f) =
               IF f \in manifest[c].executed THEN c
               ELSE IF f \in manifest[c].removed \/ manifest[c].all THEN None
               ELSE LastExecution(c - 1, f)
<1>0. c \in Nat /\ c >= 1 /\ c - 1 \in Nat
    BY DEF Commits
<1>1. CASE f \in manifest[c].executed
    <2>1. c \in ValidFor(c, f)
        BY <1>0, <1>1 DEF ValidFor, Provides
    <2>2. ASSUME NEW k \in ValidFor(c, f), k # c PROVE FALSE
        <3>1. k \in 0..c /\ c \in (k + 1)..c
            BY <1>0, <2>2 DEF ValidFor
        <3>. QED BY <1>1, <2>2, <3>1 DEF ValidFor
    <2>3. ValidFor(c, f) = {c}
        BY <2>1, <2>2
    <2>. QED BY <1>1, <2>3, LastIsChosen, AnyOfOne
<1>2. CASE f \notin manifest[c].executed /\ (f \in manifest[c].removed \/ manifest[c].all)
    <2>1. ASSUME NEW k \in ValidFor(c, f) PROVE FALSE
        <3>1. CASE k = c
            BY <1>0, <1>2, <2>1, <3>1 DEF ValidFor, Provides
        <3>2. CASE k # c
            <4>1. k \in 0..c /\ c \in (k + 1)..c
                BY <1>0, <2>1, <3>2 DEF ValidFor
            <4>. QED BY <1>2, <2>1, <4>1 DEF ValidFor
        <3>. QED BY <3>1, <3>2
    <2>2. ValidFor(c, f) = {}
        BY <2>1
    <2>. QED BY <1>2, <2>2, LastIsChosen
<1>3. CASE f \notin manifest[c].executed /\ f \notin manifest[c].removed /\ ~manifest[c].all
    <2>1. ~Provides(c, f)
        BY <1>0, <1>3 DEF Provides
    <2>2. ASSUME NEW k \in 0..c, k # c
          PROVE  /\ k \in 0..(c - 1)
                 /\ \A j : j \in (k + 1)..c <=> j \in (k + 1)..(c - 1) \/ j = c
        BY <1>0, <2>2
    <2>3. ASSUME NEW k \in ValidFor(c, f) PROVE k \in ValidFor(c - 1, f)
        BY <2>1, <2>2, <2>3 DEF ValidFor
    <2>4. ASSUME NEW k \in ValidFor(c - 1, f) PROVE k \in ValidFor(c, f)
        <3>1. k \in 0..c /\ k # c
            BY <1>0, <2>4 DEF ValidFor
        <3>. QED BY <1>3, <2>2, <2>4, <3>1 DEF ValidFor
    <2>5. ValidFor(c, f) = ValidFor(c - 1, f)
        BY <2>3, <2>4
    <2>6. LastExecution(c, f) = LastExecution(c - 1, f)
        BY <2>5, LastIsChosen
    <2>. QED BY <1>3, <2>6
<1>. QED BY <1>1, <1>2, <1>3

-----------------------------------------------------------------------------
(* The types.                                                              *)

\* Copying, whole or interrupted, leaves a directory's content.
LEMMA CopyTypes ==
    ASSUME NEW dir \in Contents, NEW from \in Contents, NEW wanted, NEW file, NEW begun
    PROVE  /\ CopyTo(dir, from, wanted) \in Contents
           /\ CopyUpTo(dir, from, wanted, file, begun) \in Contents
    BY DEF CopyTo, CopyUpTo, Contents

\* The steps of a commit are taken for a commit there is.
CommitInv == pc \in {"copy", "merge", "upload"} => commit <= NumCommits

LEMMA TypeInit == Init => TypeOK /\ CommitInv
<1>. SUFFICES ASSUME Init PROVE TypeOK /\ CommitInv
    OBVIOUS
<1>1. /\ \A c \in Commits : c \in Dirs /\ c # 0
      /\ 0 \in Dirs /\ None \notin Dirs /\ 1 \in 1..(NumCommits + 1) /\ 1 \in 1..MaxRuns
    BY DEF Commits, Dirs, None
<1>2. volume \in [Dirs -> Contents]
    <2>1. ASSUME NEW c \in Dirs, NEW f \in Files
          PROVE  (IF c = 0 THEN IF onVolume THEN blob[f] ELSE None
                  ELSE IF f \in manifest[c].executed THEN c ELSE None) \in Dirs \cup {None, Torn}
        BY <1>1 DEF Init
    <2>. QED BY <2>1 DEF Init, Contents
<1>3. merged \in [Commits -> Contents]
    BY DEF Init, Contents
<1>4. goroutine \in [Goroutines -> {"idle", "call", "return", "done"}]
    BY DEF Init, Idle
<1>5. DOMAIN payload = 1..(commit - 1)
    BY DEF Init
<1>. QED BY <1>1, <1>2, <1>3, <1>4, <1>5 DEF Init, TypeOK, CommitInv

LEMMA SameInterval == ASSUME NEW m \in Nat, NEW n \in Nat, 1..m = 1..n PROVE m = n
<1>1. m \in 1..m <=> m >= 1
    OBVIOUS
<1>2. n \in 1..n <=> n >= 1
    OBVIOUS
<1>. QED BY <1>1, <1>2

LEMMA CommitKept == ASSUME CommitInv, Next PROVE CommitInv'
    BY DEF CommitInv, Next, GetParentCommitCoverageDir, CallFails, DownloadParent, CopyParent,
        ParentOnVolume, ReadManifest, NoParentDir, CopyFromParent, NoCoverageFiles,
        MergeCodeCoverageFiles, Archive, Call, ReturnErr, Wait, SendCoverageData, StartAgain,
        Return, Fail, loop

LEMMA TypeKept == ASSUME GroupInv, TypeOK, CommitInv, Next PROVE TypeOK'
<1>. USE DEF Return, Fail, input, disk, loop, group
<1>0. /\ err \in BOOLEAN /\ groupErr \in BOOLEAN
      /\ 0 \in Dirs /\ Commits \subseteq Dirs
      /\ commit <= NumCommits => commit \in Commits /\ commit + 1 \in 1..(NumCommits + 1)
    BY DEF TypeOK, Dirs, Commits
<1>1. CASE GetParentCommitCoverageDir \/ CallFails \/ DownloadParent \/ ReadManifest
    BY <1>1 DEF TypeOK, GetParentCommitCoverageDir, CallFails, DownloadParent, ReadManifest
<1>2. CASE ParentOnVolume \/ NoParentDir \/ NoCoverageFiles
    BY <1>2 DEF TypeOK, ParentOnVolume, NoParentDir, NoCoverageFiles
<1>3. CASE CopyParent
    <2>1. blob \in Contents /\ volume[0] \in Contents
        BY <1>0 DEF TypeOK, Contents, Dirs
    <2>2. volume' \in [Dirs -> Contents]
        BY <1>0, <1>3, <2>1, CopyTypes DEF TypeOK, CopyParent
    <2>. QED BY <1>0, <1>3, <2>2 DEF TypeOK, CopyParent
<1>4. CASE CopyFromParent
    <2>1. volume' \in [Dirs -> Contents]
        <3>1. parentDir \in Dirs
            BY <1>4 DEF TypeOK, CopyFromParent
        <3>2. CASE commit \in Dirs
            BY <1>4, <3>1, <3>2, CopyTypes DEF TypeOK, CopyFromParent
        <3>3. CASE commit \notin Dirs
            BY <1>4, <3>3 DEF TypeOK, CopyFromParent
        <3>. QED BY <3>2, <3>3
    <2>. QED BY <1>4, <2>1 DEF TypeOK, CopyFromParent
<1>5. CASE MergeCodeCoverageFiles
    <2>1. merged' \in [Commits -> Contents]
        <3>1. CASE commit \in Commits
            BY <1>0, <1>5, <3>1 DEF TypeOK, MergeCodeCoverageFiles
        <3>2. CASE commit \notin Commits
            BY <1>5, <3>2 DEF TypeOK, MergeCodeCoverageFiles
        <3>. QED BY <3>1, <3>2
    <2>. QED BY <1>5, <2>1 DEF TypeOK, MergeCodeCoverageFiles
<1>6. CASE Archive
    <2>1. PICK failed \in BOOLEAN : Done("archive", failed) /\ archived' = ~failed
        BY <1>6 DEF Archive
    <2>2. archived' \in BOOLEAN /\ groupErr' \in BOOLEAN
        BY <2>1, Zenon DEF Done
    <2>. QED BY <1>0, <1>6, <2>1, <2>2 DEF TypeOK, Archive, Done, Goroutines
<1>7. ASSUME NEW g \in {"json", "total"}, Call(g) PROVE TypeOK'
    <2>1. PICK failed \in BOOLEAN :
            /\ err' = failed
            /\ IF g = "json" THEN jsonUploaded' = ~failed /\ UNCHANGED totalParsed
                             ELSE totalParsed' = ~failed /\ UNCHANGED jsonUploaded
        BY <1>7 DEF Call
    <2>2. err' \in BOOLEAN /\ jsonUploaded' \in BOOLEAN /\ totalParsed' \in BOOLEAN
        BY <2>1 DEF TypeOK
    <2>. QED BY <1>0, <1>7, <2>2, ZenonT(60) DEF TypeOK, Call
<1>8. ASSUME NEW g \in {"json", "total"}, ReturnErr(g) PROVE TypeOK'
    <2>1. groupErr' \in BOOLEAN
        BY <1>8, Zenon DEF ReturnErr, Done
    <2>2. goroutine' \in [Goroutines -> {"idle", "call", "return", "done"}]
        BY <1>8 DEF TypeOK, ReturnErr, Done
    <2>3. UNCHANGED <<input, disk, pc, loop, err, archived, jsonUploaded, totalParsed, sent, cause, run>>
        BY <1>8 DEF ReturnErr
    <2>. QED BY <1>0, <2>1, <2>2, <2>3 DEF TypeOK
<1>9. CASE Wait
    <2>0. goroutine' \in [Goroutines -> {"idle", "call", "return", "done"}]
        BY <1>9 DEF Wait, Idle
    <2>1. CASE groupErr
        BY <1>9, <2>0, <2>1 DEF TypeOK, Wait
    <2>2. CASE ~groupErr
        <3>. DEFINE entry == [commit |-> commit, archive |-> archived, json |-> jsonUploaded,
                              total |-> totalParsed]
        <3>1. payload' = Append(payload, entry) /\ commit' = commit + 1
            BY <1>9, <2>2 DEF Wait, AppendCoverage
        <3>2. payload \in Seq(Entries) /\ 1..Len(payload) = 1..(commit - 1)
            BY DEF GroupInv, GroupTypes, TypeOK
        <3>3. commit \in Nat /\ commit >= 1 /\ Len(payload) \in Nat
            BY <3>2 DEF TypeOK
        <3>4. Len(payload) = commit - 1
            BY <3>2, <3>3, SameInterval
        <3>. HIDE DEF entry
        <3>5. DOMAIN payload' = 1..commit
            <4>1. DOMAIN payload' = 1..(Len(payload) + 1)
                BY <3>1, <3>2
            <4>2. Len(payload) + 1 = commit
                BY <3>3, <3>4
            <4>. QED BY <4>1, <4>2
        <3>6. commit <= NumCommits
            BY <1>9 DEF CommitInv, Wait
        <3>. QED BY <1>0, <1>9, <2>0, <2>2, <3>1, <3>5, <3>6 DEF TypeOK, Wait
    <2>. QED BY <2>1, <2>2
<1>10. CASE SendCoverageData
    BY <1>10 DEF TypeOK, SendCoverageData
<1>11. CASE StartAgain
    <2>1. goroutine' \in [Goroutines -> {"idle", "call", "return", "done"}]
        BY <1>11 DEF StartAgain, Idle
    <2>2. DOMAIN payload' = 1..(commit' - 1) /\ commit' \in 1..(NumCommits + 1)
          /\ run' \in 1..MaxRuns
        BY <1>11 DEF StartAgain, TypeOK
    <2>. QED BY <1>11, <2>1, <2>2 DEF TypeOK, StartAgain
<1>. QED BY <1>1, <1>2, <1>3, <1>4, <1>5, <1>6, <1>7, <1>8, <1>9, <1>10, <1>11 DEF Next

-----------------------------------------------------------------------------
(* What was merged.                                                        *)

\* A test file of commit c comes from its last execution, or is a failed copy.
Complete(content, c) == \A f \in Files : content[f] \in {LastExecution(c, f), Torn}

\* What the directory of a commit holds, however often copying was begun.
DirsInv ==
    \A c \in Commits : \A f \in Files :
        /\ volume[c][f] \in {None, Torn, LastExecution(c, f)}
        /\ f \in manifest[c].executed => volume[c][f] = c

\* The place of the loop, and which directories are complete there.
LoopInv ==
    /\ pc \in {"parent", "download", "copyParent"} => commit = 1 /\ parentDir = None
    /\ pc \in {"download", "copyParent"} => parentExists
    /\ parentDir = None => commit = 1
    /\ parentDir # None => parentDir = commit - 1 /\ Complete(volume[parentDir], parentDir)
    /\ pc = "copy" => ~manifest[commit].all
    /\ pc \in {"merge", "upload"} => Complete(volume[commit], commit)

\* Every commit the loop is past, and every one neuron is told of, was merged
\* from a complete directory.
MergedInv ==
    /\ \A c \in Commits : c < commit \/ (c = commit /\ pc = "upload") => Complete(merged[c], c)
    /\ \A n \in DOMAIN sent : sent[n].commit \in Commits /\
                                Complete(merged[sent[n].commit], sent[n].commit)

\* A failed copy ends the run.
TornInv ==
    /\ run = 1 /\ pc # "returned" => \A c \in Dirs : \A f \in Files : volume[c][f] # Torn
    /\ run = 1 => \A c \in Commits : \A f \in Files : merged[c][f] # Torn

\* The payload has an entry for every commit the loop is past.
PayloadInv == \A n \in DOMAIN payload : payload[n].commit = n

CoverageInv == GroupInv /\ TypeOK /\ CommitInv /\ DirsInv /\ LoopInv /\ MergedInv /\ TornInv /\ PayloadInv

\* The manifests and the parent's coverage do not change.
LEMMA InputsStay ==
    ASSUME Next
    PROVE  /\ UNCHANGED input
           /\ \A c, f : LastExecution(c, f)' = LastExecution(c, f)
<1>1. UNCHANGED input
    BY DEF Next, GetParentCommitCoverageDir, CallFails, DownloadParent, CopyParent, ParentOnVolume,
        ReadManifest, NoParentDir, CopyFromParent, NoCoverageFiles, MergeCodeCoverageFiles, Archive,
        Call, ReturnErr, Wait, SendCoverageData, StartAgain, Fail
<1>. QED BY <1>1 DEF input, LastExecution, Provides

LEMMA Numbers ==
    /\ \A c \in Commits : c \in Dirs /\ c - 1 \in Dirs /\ c # 0 /\ c # None /\ c # Torn
    /\ 0 \in Dirs /\ None # Torn /\ None \notin Dirs /\ Torn \notin Dirs
    BY DEF Commits, Dirs, None, Torn

\* What is copied from the parent's directory, and what is not, is the last
\* execution that the commit knows of.
LEMMA CopyIsLatest ==
    ASSUME TypeOK, CommitInv, DirsInv, LoopInv, pc = "copy", parentDir # None
    PROVE  /\ commit \in Commits /\ parentDir = commit - 1
           /\ \A f \in Missing : /\ volume[parentDir][f] \in {LastExecution(commit, f), Torn}
                                 /\ f \notin manifest[commit].executed
           /\ \A f \in Files \ Missing : volume[commit][f] \in {LastExecution(commit, f), Torn}
<1>1. /\ commit \in Commits /\ parentDir = commit - 1 /\ ~manifest[commit].all
      /\ \A f \in Files : volume[parentDir][f] \in {LastExecution(commit - 1, f), Torn}
    BY DEF TypeOK, CommitInv, LoopInv, Complete, Commits
<1>2. /\ manifest[commit].executed \cap manifest[commit].removed = {}
    BY <1>1 DEF TypeOK, Manifests
<1>3. \A f \in Files : /\ volume[commit][f] \in {None, Torn, LastExecution(commit, f)}
                       /\ f \in manifest[commit].executed => volume[commit][f] = commit
    BY <1>1 DEF DirsInv
<1>4. ASSUME NEW f \in Missing
      PROVE  /\ volume[parentDir][f] \in {LastExecution(commit, f), Torn}
             /\ f \notin manifest[commit].executed
    <2>1. f \in Files /\ f \notin manifest[commit].removed /\ volume[commit][f] = None
        BY <1>4 DEF Missing, Present
    <2>2. f \notin manifest[commit].executed
        BY <1>1, <1>3, <2>1, Numbers
    <2>. QED BY <1>1, <2>1, <2>2, LastOfCommit
<1>5. ASSUME NEW f \in Files \ Missing
      PROVE  volume[commit][f] \in {LastExecution(commit, f), Torn}
    <2>1. CASE f \in manifest[commit].executed
        BY <1>1, <1>3, <2>1, LastOfCommit
    <2>2. CASE f \notin manifest[commit].executed /\ f \in manifest[commit].removed
        BY <1>1, <1>3, <2>2, LastOfCommit
    <2>3. CASE f \notin manifest[commit].executed /\ f \notin manifest[commit].removed
        <3>1. LastExecution(commit, f) = LastExecution(commit - 1, f)
            BY <1>1, <2>3, LastOfCommit
        <3>2. volume[parentDir][f] = None \/ volume[commit][f] # None
            BY <1>5, <2>3 DEF Missing, Present
        <3>. QED BY <1>1, <1>3, <3>1, <3>2, Numbers
    <2>. QED BY <2>1, <2>2, <2>3
<1>. QED BY <1>1, <1>4, <1>5

\* Only the two copies change a directory.
LEMMA VolumeStays ==
    ASSUME Next, ~CopyParent, ~CopyFromParent PROVE volume' = volume
    BY DEF Next, GetParentCommitCoverageDir, CallFails, DownloadParent, ParentOnVolume, ReadManifest,
        NoParentDir, NoCoverageFiles, MergeCodeCoverageFiles, Archive, Call, ReturnErr, Wait,
        SendCoverageData, StartAgain, Fail, disk

LEMMA DirsKept == ASSUME TypeOK, CommitInv, DirsInv, LoopInv, Next PROVE DirsInv'
<1>0. /\ UNCHANGED <<manifest, parentExists, blob>>
      /\ \A c, f : LastExecution(c, f)' = LastExecution(c, f)
    BY InputsStay DEF input
<1>1. CASE CopyParent
    <2>1. \A c \in Commits : volume'[c] = volume[c]
        BY <1>1, Numbers DEF TypeOK, CopyParent
    <2>. QED BY <1>0, <2>1 DEF DirsInv
<1>2. CASE CopyFromParent
    <2>1. /\ pc = "copy" /\ parentDir # None
          /\ commit \in Commits
        BY <1>2, CopyIsLatest DEF CopyFromParent
    <2>2. \A c \in Commits : c # commit => volume'[c] = volume[c]
        BY <1>2, <2>1, Numbers DEF TypeOK, CopyFromParent
    <2>3. \A f \in Files : \/ volume'[commit][f] = volume[commit][f]
                           \/ f \in Missing /\ volume'[commit][f] \in {volume[parentDir][f], Torn}
        <3>1. CASE volume' = [volume EXCEPT ![commit] = CopyTo(@, volume[parentDir], Missing)]
            BY <2>1, <3>1, Numbers DEF TypeOK, CopyTo
        <3>2. ASSUME NEW file \in Missing, NEW begun \in BOOLEAN, volume' =
                  [volume EXCEPT ![commit] = CopyUpTo(@, volume[parentDir], Missing, file, begun)]
              PROVE  \A f \in Files :
                        \/ volume'[commit][f] = volume[commit][f]
                        \/ f \in Missing /\ volume'[commit][f] \in {volume[parentDir][f], Torn}
            BY <2>1, <3>2, Numbers DEF TypeOK, CopyUpTo
        <3>. QED BY <1>2, <3>1, <3>2 DEF CopyFromParent
    <2>4. \A f \in Files : /\ volume'[commit][f] \in {None, Torn, LastExecution(commit, f)}
                           /\ f \in manifest[commit].executed => volume'[commit][f] = commit
        BY <2>1, <2>3, CopyIsLatest DEF DirsInv
    <2>. QED BY <1>0, <2>2, <2>4 DEF DirsInv
<1>3. CASE ~CopyParent /\ ~CopyFromParent
    BY <1>0, <1>3, VolumeStays DEF DirsInv
<1>. QED BY <1>1, <1>2, <1>3

LEMMA LoopKept == ASSUME TypeOK, CommitInv, DirsInv, LoopInv, Next PROVE LoopInv'
<1>. USE DEF Return, Fail, input, disk, loop, LoopInv
<1>0. /\ UNCHANGED <<manifest, parentExists, blob>>
      /\ \A c, f : LastExecution(c, f)' = LastExecution(c, f)
      /\ \A content, c : Complete(content, c)' = Complete(content', c')
    BY InputsStay DEF input, Complete
<1>00. /\ parentDir \in Dirs \cup {None} /\ commit \in 1..(NumCommits + 1)
       /\ commit <= NumCommits => commit \in Commits
    BY DEF TypeOK, Commits
<1>1. ASSUME UNCHANGED <<volume, commit, parentDir>>,
             pc' \in {"download", "copyParent"} => pc \in {"parent", "download"} /\ parentExists,
             pc' = "parent" => pc = "parent",
             pc' = "copy" => ~manifest[commit].all,
             pc' \in {"merge", "upload"} => Complete(volume[commit], commit)
      PROVE  LoopInv'
    BY <1>0, <1>1 DEF Complete
<1>2. CASE GetParentCommitCoverageDir \/ CallFails \/ DownloadParent \/ ParentOnVolume
           \/ NoParentDir \/ NoCoverageFiles \/ SendCoverageData
    <2>1. UNCHANGED <<volume, commit, parentDir>>
          /\ pc' \in {"download", "copyParent", "commit", "returned"}
        BY <1>2 DEF GetParentCommitCoverageDir, CallFails, DownloadParent, ParentOnVolume,
            NoParentDir, NoCoverageFiles, SendCoverageData
    <2>2. pc' \in {"download", "copyParent"} => pc \in {"parent", "download"} /\ parentExists
        BY <1>2 DEF GetParentCommitCoverageDir, CallFails, DownloadParent, ParentOnVolume,
            NoParentDir, NoCoverageFiles, SendCoverageData
    <2>. QED BY <1>1, <2>1, <2>2
<1>3. CASE ReadManifest
    <2>1. ASSUME manifest[commit].all PROVE Complete(volume[commit], commit)
        <3>1. commit \in Commits
            BY <1>3, <1>00 DEF ReadManifest
        <3>. QED BY <2>1, <3>1, LastOfCommit DEF DirsInv, Complete
    <2>. QED BY <1>1, <1>3, <2>1 DEF ReadManifest
<1>4. CASE CopyParent
    <2>1. CASE pc' = "returned"
        BY <1>4, <2>1 DEF CopyParent
    <2>2. CASE pc' # "returned"
        <3>1. /\ volume' = [volume EXCEPT ![0] = blob] /\ pc' = "commit" /\ parentDir' = 0
              /\ commit' = commit /\ commit = 1 /\ parentExists
            BY <1>4, <2>2 DEF CopyParent
        <3>2. volume'[0] = blob
            BY <3>1, Numbers DEF TypeOK
        <3>3. \A f \in Files : blob[f] = LastExecution(0, f)
            BY <3>1, LastOfParent DEF TypeOK, Provides
        <3>4. Complete(volume[parentDir], parentDir)'
            BY <1>0, <3>1, <3>2, <3>3 DEF Complete
        <3>. QED BY <3>1, <3>4
    <2>. QED BY <2>1, <2>2
<1>5. CASE CopyFromParent
    <2>1. /\ pc = "copy" /\ parentDir # None /\ UNCHANGED <<commit, parentDir>>
          /\ pc' \in {"merge", "returned"}
          /\ commit \in Commits /\ parentDir = commit - 1
        BY <1>5, CopyIsLatest DEF CopyFromParent
    <2>2. volume'[parentDir] = volume[parentDir]
        BY <1>5, <2>1, Numbers DEF TypeOK, CopyFromParent
    <2>3. Complete(volume[parentDir], parentDir)'
        BY <1>0, <2>1, <2>2 DEF Complete
    <2>4. ASSUME pc' = "merge" PROVE Complete(volume[commit], commit)'
        <3>1. volume' = [volume EXCEPT ![commit] = CopyTo(@, volume[parentDir], Missing)]
            BY <1>5, <2>4 DEF CopyFromParent
        <3>2. \A f \in Files : volume'[commit][f] =
                  IF f \in Missing THEN volume[parentDir][f] ELSE volume[commit][f]
            BY <2>1, <3>1, Numbers DEF TypeOK, CopyTo
        <3>3. \A f \in Files : volume'[commit][f] \in {LastExecution(commit, f), Torn}
            BY <2>1, <3>2, CopyIsLatest
        <3>. QED BY <1>0, <2>1, <3>3 DEF Complete
    <2>. QED BY <2>1, <2>3, <2>4
<1>6. CASE MergeCodeCoverageFiles
    <2>1. /\ UNCHANGED <<volume, commit, parentDir>> /\ pc = "merge" /\ pc' = "upload"
        BY <1>6 DEF MergeCodeCoverageFiles
    <2>2. Complete(volume[commit], commit)'
        BY <1>0, <2>1 DEF Complete
    <2>3. parentDir # None => Complete(volume[parentDir], parentDir)'
        BY <1>0, <2>1 DEF Complete
    <2>4. /\ pc' \notin {"parent", "download", "copyParent", "copy"}
          /\ parentDir' = None => commit' = 1
          /\ parentDir' # None => parentDir # None /\ parentDir' = commit' - 1
        BY <2>1
    <2>. QED BY <2>2, <2>3, <2>4
<1>7. CASE Archive \/ \E g \in {"json", "total"} : Call(g) \/ ReturnErr(g)
    <2>1. UNCHANGED <<volume, commit, parentDir, pc>>
        BY <1>7 DEF Archive, Call, ReturnErr
    <2>. QED BY <1>0, <2>1 DEF Complete
<1>8. CASE Wait
    <2>1. CASE groupErr
        BY <1>0, <1>1, <1>8, <2>1 DEF Wait
    <2>2. CASE ~groupErr
        <3>1. /\ pc = "upload" /\ pc' = "commit" /\ parentDir' = commit /\ commit' = commit + 1
              /\ volume' = volume /\ commit \in Commits
            BY <1>00, <1>8, <2>2 DEF Wait, CommitInv
        <3>2. Complete(volume[parentDir], parentDir)'
            BY <1>0, <3>1 DEF Complete
        <3>. QED BY <3>1, <3>2, Numbers DEF Commits
    <2>. QED BY <2>1, <2>2
<1>9. CASE StartAgain
    BY <1>9 DEF StartAgain
<1>. QED BY <1>2, <1>3, <1>4, <1>5, <1>6, <1>7, <1>8, <1>9 DEF Next

LEMMA MergedKept ==
    ASSUME GroupInv, TypeOK, CommitInv, LoopInv, PayloadInv, MergedInv, Next
    PROVE  MergedInv' /\ PayloadInv'
<1>. USE DEF Return, Fail, input, disk, loop, MergedInv
<1>0. /\ \A c, f : LastExecution(c, f)' = LastExecution(c, f)
      /\ \A content, c : Complete(content, c)' = Complete(content', c')
    BY InputsStay DEF Complete
<1>00. /\ commit \in 1..(NumCommits + 1)
       /\ commit <= NumCommits => commit \in Commits
       /\ \A c \in Commits : c \in Nat
    BY DEF TypeOK, Commits
<1>1. ASSUME UNCHANGED <<merged, sent, payload, commit>>, pc' = "upload" => pc = "upload"
      PROVE  MergedInv' /\ PayloadInv'
    BY <1>0, <1>1 DEF Complete, PayloadInv
<1>2. CASE GetParentCommitCoverageDir \/ CallFails \/ DownloadParent \/ CopyParent
           \/ ParentOnVolume \/ ReadManifest \/ NoParentDir \/ CopyFromParent \/ NoCoverageFiles
    <2>1. /\ UNCHANGED <<merged, sent, payload, commit>>
          /\ pc' \in {"download", "commit", "copyParent", "copy", "merge", "returned"}
        BY <1>2 DEF GetParentCommitCoverageDir, CallFails, DownloadParent, CopyParent,
            ParentOnVolume, ReadManifest, NoParentDir, CopyFromParent, NoCoverageFiles
    <2>. QED BY <1>1, <2>1
<1>3. CASE Archive \/ \E g \in {"json", "total"} : Call(g) \/ ReturnErr(g)
    <2>1. UNCHANGED <<merged, sent, payload, commit, pc>>
        BY <1>3 DEF Archive, Call, ReturnErr
    <2>. QED BY <1>1, <2>1
<1>4. CASE MergeCodeCoverageFiles
    <2>1. /\ pc = "merge" /\ commit \in Commits /\ Complete(volume[commit], commit)
          /\ merged' = [merged EXCEPT ![commit] = volume[commit]]
          /\ UNCHANGED <<sent, payload, commit>>
        BY <1>4, <1>00 DEF MergeCodeCoverageFiles, LoopInv, CommitInv
    <2>2. \A c \in Commits : Complete(merged[c], c) \/ c = commit => Complete(merged'[c], c)
        BY <2>1 DEF TypeOK
    <2>3. \A c \in Commits : Complete(merged'[c], c) => Complete(merged[c], c)'
        BY <1>0 DEF Complete
    <2>. QED BY <2>1, <2>2, <2>3, <1>0 DEF PayloadInv, Complete
<1>5. CASE Wait
    <2>1. CASE groupErr
        BY <1>1, <1>5, <2>1 DEF Wait
    <2>2. CASE ~groupErr
        <3>. DEFINE entry == [commit |-> commit, archive |-> archived, json |-> jsonUploaded,
                              total |-> totalParsed]
        <3>1. /\ pc = "upload" /\ pc' = "commit" /\ UNCHANGED <<merged, sent>>
              /\ commit' = commit + 1 /\ commit \in Commits
              /\ payload' = Append(payload, entry)
            BY <1>00, <1>5, <2>2 DEF Wait, AppendCoverage, CommitInv
        <3>2. \A c \in Commits : c < commit' => c < commit \/ c = commit
            BY <1>00, <3>1
        <3>3. MergedInv'
            BY <1>0, <3>1, <3>2 DEF Complete
        <3>4. payload \in Seq(Entries) /\ 1..Len(payload) = 1..(commit - 1)
            BY DEF GroupInv, GroupTypes, TypeOK
        <3>5. commit \in Nat /\ commit >= 1 /\ Len(payload) \in Nat /\ entry.commit = commit
            BY <1>00, <3>4
        <3>6. Len(payload) = commit - 1
            BY <3>4, <3>5, SameInterval
        <3>. HIDE DEF entry
        <3>7. \A n \in DOMAIN payload' : payload'[n] = IF n = commit THEN entry ELSE payload[n]
            BY <3>1, <3>4, <3>5, <3>6
        <3>8. \A n \in DOMAIN payload' : n # commit => n \in DOMAIN payload
            BY <3>1, <3>4, <3>5, <3>6
        <3>. QED BY <3>3, <3>5, <3>7, <3>8 DEF PayloadInv
    <2>. QED BY <2>1, <2>2
<1>6. CASE SendCoverageData
    <2>1. /\ sent' \in {sent, payload} /\ UNCHANGED <<merged, payload, commit>>
          /\ pc' = "returned"
        BY <1>6 DEF SendCoverageData
    <2>2. \A n \in DOMAIN payload : /\ payload[n].commit \in Commits
                                    /\ payload[n].commit < commit
        BY <1>00 DEF TypeOK, PayloadInv, Commits
    <2>. QED BY <1>0, <2>1, <2>2 DEF Complete, PayloadInv
<1>7. CASE StartAgain
    <2>1. /\ UNCHANGED <<merged, sent>> /\ payload' = <<>> /\ commit' = 1 /\ pc' = "parent"
        BY <1>7 DEF StartAgain
    <2>2. \A c \in Commits : ~(c < 1)
        BY DEF Commits
    <2>. QED BY <1>0, <2>1, <2>2 DEF Complete, PayloadInv
<1>. QED BY <1>2, <1>3, <1>4, <1>5, <1>6, <1>7 DEF Next

LEMMA TornKept ==
    ASSUME TypeOK, CommitInv, DirsInv, LoopInv, TornInv, Next PROVE TornInv'
<1>. USE DEF Return, Fail, input, disk, loop, TornInv
<1>1. CASE CopyParent
    <2>1. CASE pc' = "returned"
        BY <1>1, <2>1 DEF CopyParent
    <2>2. CASE pc' # "returned"
        <3>1. /\ volume' = [volume EXCEPT ![0] = blob] /\ merged' = merged /\ run' = run
              /\ pc = "copyParent"
            BY <1>1, <2>2 DEF CopyParent
        <3>2. \A f \in Files : blob[f] # Torn
            BY Numbers DEF TypeOK
        <3>. QED BY <3>1, <3>2 DEF TypeOK
    <2>. QED BY <2>1, <2>2
<1>2. CASE CopyFromParent
    <2>1. CASE pc' = "returned"
        BY <1>2, <2>1 DEF CopyFromParent
    <2>2. CASE pc' # "returned"
        <3>1. /\ volume' = [volume EXCEPT ![commit] = CopyTo(@, volume[parentDir], Missing)]
              /\ merged' = merged /\ run' = run /\ pc = "copy"
              /\ commit \in Commits /\ parentDir \in Dirs
            BY <1>2, <2>2, CopyIsLatest, Numbers DEF CopyFromParent
        <3>. QED BY <3>1, Numbers DEF TypeOK, CopyTo
    <2>. QED BY <2>1, <2>2
<1>3. CASE MergeCodeCoverageFiles
    <2>1. /\ pc = "merge" /\ commit \in Commits /\ commit \in Dirs
          /\ merged' = [merged EXCEPT ![commit] = volume[commit]]
          /\ UNCHANGED <<volume, run>>
        BY <1>3, Numbers DEF MergeCodeCoverageFiles, CommitInv, TypeOK, Commits
    <2>. QED BY <2>1 DEF TypeOK
<1>4. CASE StartAgain
    BY <1>4 DEF StartAgain, TypeOK
<1>5. CASE ~CopyParent /\ ~CopyFromParent /\ ~MergeCodeCoverageFiles /\ ~StartAgain
    <2>1. /\ UNCHANGED <<volume, merged, run>> /\ (pc' # "returned" => pc # "returned")
        BY <1>5 DEF Next, GetParentCommitCoverageDir, CallFails, DownloadParent, ParentOnVolume,
            ReadManifest, NoParentDir, NoCoverageFiles, Archive, Call, ReturnErr, Wait,
            SendCoverageData
    <2>. QED BY <2>1
<1>. QED BY <1>1, <1>2, <1>3, <1>4, <1>5

LEMMA CoverageInitial == Init => CoverageInv
<1>. SUFFICES ASSUME Init PROVE CoverageInv
    OBVIOUS
<1>0. GroupInv /\ TypeOK /\ CommitInv
    BY GroupInitial, TypeInit
<1>1. /\ \A c \in Commits : \A f \in Files :
            volume[c][f] = IF f \in manifest[c].executed THEN c ELSE None
      /\ \A f \in Files : volume[0][f] \in {0, None}
    BY Numbers DEF Init
<1>2. DirsInv
    <2>1. ASSUME NEW c \in Commits, NEW f \in Files
          PROVE  /\ volume[c][f] \in {None, Torn, LastExecution(c, f)}
                 /\ f \in manifest[c].executed => volume[c][f] = c
        BY <1>1, LastOfCommit
    <2>. QED BY <2>1 DEF DirsInv
<1>3. LoopInv
    BY DEF Init, LoopInv
<1>4. MergedInv /\ PayloadInv
    BY DEF Init, MergedInv, PayloadInv, Commits
<1>5. TornInv
    <2>1. \A c \in Dirs : c = 0 \/ c \in Commits
        BY DEF Dirs, Commits
    <2>2. \A c \in Dirs : \A f \in Files : volume[c][f] # Torn
        BY <1>1, <2>1, Numbers
    <2>3. \A c \in Commits : \A f \in Files : merged[c][f] = None
        BY DEF Init
    <2>. QED BY <2>2, <2>3, Numbers DEF TornInv
<1>. QED BY <1>0, <1>2, <1>3, <1>4, <1>5 DEF CoverageInv

LEMMA CoverageUnchanged == ASSUME CoverageInv, UNCHANGED vars PROVE CoverageInv'
<1>1. /\ UNCHANGED <<parentExists, blob, manifest, workDir, volume, onVolume, merged, pc>>
      /\ UNCHANGED <<commit, parentDir, payload, sent, cause, run>>
      /\ UNCHANGED <<goroutine, err, groupErr, archived, jsonUploaded, totalParsed>>
    BY DEF vars, input, disk, loop, group
<1>2. \A c, f : LastExecution(c, f)' = LastExecution(c, f)
    BY <1>1 DEF LastExecution, Provides
<1>3. GroupInv'
    BY GroupStep DEF CoverageInv
<1>4. TypeOK' /\ CommitInv'
    BY <1>1 DEF CoverageInv, TypeOK, CommitInv
<1>5. DirsInv' /\ TornInv' /\ PayloadInv'
    BY <1>1, <1>2 DEF CoverageInv, DirsInv, TornInv, PayloadInv
<1>6. LoopInv' /\ MergedInv'
    BY <1>1, <1>2 DEF CoverageInv, LoopInv, MergedInv, Complete
<1>. QED BY <1>3, <1>4, <1>5, <1>6 DEF CoverageInv

LEMMA CoverageStays == Spec => []CoverageInv
<1>1. ASSUME CoverageInv, Next PROVE CoverageInv'
    <2>1. GroupInv'
        BY <1>1, GroupStep DEF CoverageInv
    <2>2. TypeOK' /\ CommitInv'
        BY <1>1, TypeKept, CommitKept DEF CoverageInv
    <2>3. DirsInv' /\ LoopInv' /\ TornInv'
        BY <1>1, DirsKept, LoopKept, TornKept DEF CoverageInv
    <2>4. MergedInv' /\ PayloadInv'
        BY <1>1, MergedKept DEF CoverageInv
    <2>. QED BY <2>1, <2>2, <2>3, <2>4 DEF CoverageInv
<1>. QED BY <1>1, CoverageInitial, CoverageUnchanged, PTL DEF Spec

(* Every variable of MergeAndUpload keeps to its range; above all, the     *)
(* payload has an entry for each commit the loop has left behind.          *)
THEOREM TypeCorrect == Spec => []TypeOK
<1>1. CoverageInv => TypeOK
    BY DEF CoverageInv
<1>. QED BY <1>1, CoverageStays, PTL

(* However many commits were pushed, and whichever files they executed or  *)
(* removed: what neuron is told of a commit was merged from the last       *)
(* execution of each of its test files, with failed copies only in a job   *)
(* that was started again.                                                 *)
THEOREM MergedFromLatest == Spec => []MergedIsLatest
<1>1. ASSUME CoverageInv PROVE MergedIsLatest
    <2>1. ASSUME NEW n \in DOMAIN sent, NEW f \in Files
          PROVE  LET c == sent[n].commit IN
                 \/ merged[c][f] = LastExecution(c, f)
                 \/ merged[c][f] = Torn /\ run > 1
        <3>1. /\ sent[n].commit \in Commits
              /\ merged[sent[n].commit][f] \in {LastExecution(sent[n].commit, f), Torn}
            BY <1>1 DEF CoverageInv, MergedInv, Complete
        <3>2. merged[sent[n].commit][f] = Torn => run # 1
            BY <1>1, <3>1 DEF CoverageInv, TornInv
        <3>3. run \in Nat /\ run >= 1
            BY <1>1 DEF CoverageInv, TypeOK
        <3>. QED BY <3>1, <3>2, <3>3
    <2>. QED BY <2>1 DEF MergedIsLatest
<1>. QED BY <1>1, CoverageStays, PTL
=============================================================================
