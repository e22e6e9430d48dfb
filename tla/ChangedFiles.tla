---------------------------- MODULE ChangedFiles ----------------------------
(***************************************************************************)
(* From the diff a git provider answers to the files the test runner is    *)
(* told of: parseGitDiff of pkg/diffmanager, GetSubmoduleBasedDiff of      *)
(* pkg/driver, and shouldImpactAll and Discover of                         *)
(* pkg/testdiscoveryservice.                                               *)
(*                                                                         *)
(* A path is <<directory, name>>.                                          *)
(***************************************************************************)
EXTENDS Naturals

CONSTANT Paths

\* The root of the repository, which is the only module of version 1.
Root == ""

FileAdded == 1
FileRemoved == 2
FileModified == 3

\* A diff, as GetChangedFiles returns it: the kinds of the paths it lists.
Diffs == UNION {[S -> {FileAdded, FileRemoved, FileModified}] : S \in SUBSET Paths}

NoDiff == [p \in {} |-> FileModified]

\* How an answer marks a path: by the lines "--- a/path" and "+++ b/path" of a
\* unified diff, or by the flags of an entry of GitLab's list.
Adding == {"+++", "new", "other"}
Removing == {"---", "deleted", "other"}

\* Any answer.  A changed file need not be marked: a binary or an empty file and
\* a pure rename have no such lines, a name that git quotes does not match, and
\* providers leave out files of large diffs.  A path may be marked that has not
\* changed: a removed line "-- a/path" reads like a header.
Answers(provider) ==
    [Paths -> SUBSET (IF provider = "gitlab" THEN {"deleted", "new", "other"}
                                             ELSE {"---", "+++"})]

\* The paths whose marks are read.  parseDiff's scanner stops at the first line
\* that does not fit its buffer, which is no error; a list is read to its end.
PathsRead(provider) == IF provider = "gitlab" THEN {Paths} ELSE SUBSET Paths

\* updateWithOr; FileModified is FileAdded | FileRemoved.
Kind(marks) == (IF marks \cap Adding # {} THEN FileAdded ELSE 0)
             + (IF marks \cap Removing # {} THEN FileRemoved ELSE 0)

ParseGitDiff(answer, read) ==
    [p \in {q \in read : answer[q] # {}} |-> Kind(answer[p])]

\* strings.TrimPrefix(file, subModulePath)
TrimPrefix(path, dir) == IF path[1] = dir THEN <<Root, path[2]>> ELSE path

\* The diff of a sub module.  Paths that become equal share an entry, which the
\* one that the range over the map meets last has written.
SubmoduleBasedDiffs(diff, dir) ==
    LET Trimmed == {TrimPrefix(p, dir) : p \in DOMAIN diff}
        Sources(q) == {p \in DOMAIN diff : TrimPrefix(p, dir) = q}
    IN {d \in [Trimmed -> {FileAdded, FileRemoved, FileModified}] :
            \A q \in Trimmed : \E p \in Sources(q) : d[q] = diff[p]}

\* A smart run is what matters here: without it all tests are impacted.
ShouldImpactAll(diff) ==
    \/ <<Root, "tas.yml">> \in DOMAIN diff
    \/ \E p \in DOMAIN diff : p[2] = "package.json"

\* Mutant of Reported: only files that are new to the repository.
AddedOnly(diff) == {p \in DOMAIN diff : diff[p] = FileAdded}

\* The files Discover passes with --diff.
Reported(diff) == {p \in DOMAIN diff : diff[p] # FileRemoved}

\* Without --diff the runner takes every test for impacted; with --diff alone,
\* none.
AllImpacted(diff, diffExists) ==
    \/ ShouldImpactAll(diff)
    \/ Reported(diff) = {} /\ ~(diff = NoDiff /\ diffExists)
=============================================================================
