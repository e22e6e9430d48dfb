-------------------------------- MODULE Build --------------------------------
(***************************************************************************)
(* The tasks of one build and what they share: the build's docker volume,  *)
(* the dependency cache in the blob store, and what neuron has been told.  *)
(* A discovery container clones the repository, prepares it, keeps the     *)
(* workspace on the volume and reports the tests of every sub module; an   *)
(* execution container extracts that workspace and runs the tests of one.  *)
(*                                                                         *)
(* Both versions of the driver (pkg/driver) are modelled step by step,     *)
(* with pkg/cachemanager, the volume functions of pkg/runner/docker and    *)
(* the cron that removes old volumes.  The goroutines of one discovery are *)
(* in SubmoduleDiscovery, the process around a driver in Pipeline.  Which  *)
(* optional steps a configuration asks for is left to the choice whether   *)
(* they fail.                                                              *)
(***************************************************************************)
EXTENDS ChangedFiles, Sequences, FiniteSets

CONSTANTS
    Names,       \* names of sub modules
    MaxModules,  \* bound: sub modules of one event
    Executions   \* execution tasks

ASSUME BuildAssumption ==
    /\ "discovery" \notin Executions /\ Root \notin Names
    /\ MaxModules \in Nat \ {0}

Tasks == {"discovery"} \cup Executions

VARIABLES
    config,      \* the event of the build and the content of the tas file
    pc,          \* the step each task's container is at
    home,        \* what the container's home directory holds
    status,      \* taskPayload.Status
    outcome,     \* what the driver, or the clone or extraction before it, returned
    module,      \* the sub module an execution task is for
    found,       \* the index findSubmodule returned
    sas,         \* what the only request for the cache's URL was answered
    skipUpload,  \* skipUpload of the discovery's cache
    cacheStep,   \* the goroutine that downloads the cache
    diffStep,    \* the goroutine that asks for the diff
    fetchFailed, \* one of the two has failed
    shown,       \* history: what the marks read of the answer show as added or modified
    diff,        \* the diff handed to the discovery
    diffExists,
    discovered,  \* indexes of the sub modules whose discovery has ended
    discoverErr, \* the errors of those discoveries
    total,       \* number of sub modules neuron was told
    reported,    \* indexes of the sub modules whose tests neuron has
    results,     \* execution tasks whose results neuron has
    mounted,     \* whether the volume exists
    archive,     \* the workspace archive on it: "none", "torn" or "whole"
    archived,    \* what the archive holds
    expired,     \* history: the cron has removed the volume
    blob         \* whether the blob store has the cache

taskVars == <<pc, home, status, outcome>>
executionVars == <<module, found>>
cacheVars == <<sas, skipUpload, blob>>
fetchVars == <<cacheStep, diffStep, fetchFailed>>
diffVars == <<shown, diff, diffExists>>
discoveryVars == <<discovered, discoverErr>>
neuronVars == <<total, reported, results>>
volumeVars == <<mounted, archive, archived, expired>>
vars == <<config, taskVars, executionVars, cacheVars, fetchVars, diffVars, discoveryVars,
          neuronVars, volumeVars>>

Lists == UNION {[1..n -> Names] : n \in 0..MaxModules}

\* premerge and postmerge are the names of the sub modules; <<>>: no such section.
Configs ==
    [version: {1, 2}, event: {"push", "pull-request"}, javascript: BOOLEAN,
     premerge: Lists, postmerge: Lists]

Statuses == {"running", "passed", "failed", "error"}
Errors == {"failed", "canceled", "other"}
Content == {"repo", "preRun", "runners", "cache", "partOfCache"}

-----------------------------------------------------------------------------
(* The steps of a driver, in the order of the code.                        *)

\* Mutant of DiscoveryStepsV1: the workspace is kept before the runners are
\* installed.
StepsCachingEarly ==
    <<"clone", "load", "setCache", "node", "block", "fetch", "list", "preRun",
      "cacheWorkspace", "runners", "discover", "upload">>

\* Clone of Start, then RunDiscovery of each driver.
DiscoveryStepsV1 ==
    <<"clone", "load", "setCache", "node", "block", "fetch", "list", "preRun",
      "runners", "cacheWorkspace", "discover", "upload">>

DiscoveryStepsV2 ==
    <<"clone", "load", "setCache", "fetch", "list", "node", "preRun", "runners",
      "cacheWorkspace", "discover", "upload">>

\* ExtractWorkspace of Start, then RunExecution.
ExecutionStepsV1 ==
    <<"extract", "load", "setCache", "block", "run", "sendResults", "postRun">>

ExecutionStepsV2 ==
    <<"extract", "load", "setCache", "find", "block", "preRunAgain", "run", "sendResults",
      "postRun">>

\* GetDriver
StepsOf(t) ==
    IF t = "discovery"
    THEN IF config.version = 1 THEN DiscoveryStepsV1 ELSE DiscoveryStepsV2
    ELSE IF config.version = 1 THEN ExecutionStepsV1 ELSE ExecutionStepsV2

AllSteps == {"clone", "load", "setCache", "node", "block", "fetch", "list", "preRun", "runners",
             "cacheWorkspace", "discover", "upload", "extract", "find", "preRunAgain", "run",
             "sendResults", "postRun"}

\* Steps that succeed or fail, with no effect but on the home directory.
PlainSteps ==
    {"setCache", "node", "block", "preRun", "runners", "preRunAgain", "run", "postRun"}

\* The step after step s, or the end.
After(t, s) ==
    LET n == CHOOSE k \in DOMAIN StepsOf(t) : StepsOf(t)[k] = s
    IN IF n = Len(StepsOf(t)) THEN "ended" ELSE StepsOf(t)[n + 1]

\* The errors a step may return.  Only the top pre-run and the tests of version
\* 2 pass on the error of a command as it is.
ErrorsOf(s) ==
    CASE s \in {"clone", "load", "postRun"} -> {"failed"}
      [] s = "preRun" -> IF config.version = 1 THEN {"failed"} ELSE Errors
      [] s = "preRunAgain" -> {"failed", "other"}
      [] s = "run" -> IF config.version = 1 THEN {"failed"} ELSE {"other", "canceled"}
      [] OTHER -> {"other"}

\* The sub modules a discovery looks at; version 1 has the repository only.
Modules ==
    IF config.version = 1 THEN <<Root>>
    ELSE IF config.event = "push" THEN config.postmerge ELSE config.premerge

Unique(list) == \A j, k \in DOMAIN list : list[j] = list[k] => j = k

\* What LoadAndValidate asks of the sub modules of the event; version 1 has none.
Valid == Modules # <<>> /\ Unique(Modules)

-----------------------------------------------------------------------------
TypeOK ==
    /\ config \in Configs
    /\ pc \in [Tasks -> AllSteps \cup {"waiting", "ended"}]
    /\ home \in [Tasks -> SUBSET Content] /\ status \in [Tasks -> Statuses]
    /\ outcome \in [Tasks -> Errors \cup {"none", "nil", "killed", "missing", "notFound"}]
    /\ module \in [Executions -> Names \cup {Root}] /\ found \in [Executions -> 0..MaxModules]
    /\ sas \in {"unasked", "url", "error"} /\ skipUpload \in BOOLEAN /\ blob \in BOOLEAN
    /\ cacheStep \in {"ask", "find", "copy", "done"} /\ diffStep \in {"ask", "done"}
    /\ fetchFailed \in BOOLEAN
    /\ shown \in SUBSET Paths /\ diff \in Diffs /\ diffExists \in BOOLEAN
    /\ discovered \subseteq DOMAIN Modules /\ discoverErr \subseteq Errors
    /\ total \in 0..MaxModules /\ reported \subseteq discovered /\ results \subseteq Executions
    /\ mounted \in BOOLEAN /\ archive \in {"none", "torn", "whole"} /\ expired \in BOOLEAN
    /\ archived \subseteq Content /\ (archive # "none" => mounted)

UsesCache == config.version = 2 \/ config.javascript

Init ==
    /\ config \in Configs
    /\ config.version = 1 => config.premerge = <<>> /\ config.postmerge = <<>>
    /\ config.version = 2 => ~config.javascript
    /\ pc = [t \in Tasks |-> "waiting"] /\ home = [t \in Tasks |-> {}]
    /\ status = [t \in Tasks |-> "running"] /\ outcome = [t \in Tasks |-> "none"]
    /\ module = [e \in Executions |-> Root] /\ found = [e \in Executions |-> 0]
    /\ sas = "unasked" /\ skipUpload = FALSE /\ blob \in BOOLEAN
    /\ cacheStep = (IF UsesCache THEN "ask" ELSE "done") /\ diffStep = "ask"
    /\ fetchFailed = FALSE
    /\ shown = {} /\ diff = NoDiff /\ diffExists = TRUE
    /\ discovered = {} /\ discoverErr = {}
    /\ total = 0 /\ reported = {} /\ results = {}
    /\ mounted = FALSE /\ archive = "none" /\ archived = {} /\ expired = FALSE

-----------------------------------------------------------------------------
(* Moving a task on.                                                       *)

Go(t, to) == pc' = [pc EXCEPT ![t] = to]

End(t, with) == Go(t, "ended") /\ outcome' = [outcome EXCEPT ![t] = with]

\* The step is done; the last one ends the driver with nil.
Pass(t) ==
    IF After(t, pc[t]) = "ended" THEN End(t, "nil")
    ELSE Go(t, After(t, pc[t])) /\ UNCHANGED outcome

SetStatus(t, s) == status' = [status EXCEPT ![t] = s]

Running(t) == pc[t] \notin {"waiting", "ended"}

\* The container is created, CreateVolume before it; neuron asks for the tests
\* of a sub module once they have been reported.
StartContainer(t) ==
    /\ pc[t] = "waiting"
    /\ IF t = "discovery" THEN UNCHANGED module
       ELSE \E k \in reported : module' = [module EXCEPT ![t] = Modules[k]]
    /\ mounted' = TRUE
    /\ Go(t, StepsOf(t)[1])
    /\ UNCHANGED <<config, home, status, outcome, found, cacheVars, fetchVars, diffVars,
                   discoveryVars, neuronVars, archive, archived, expired>>

\* Mutant of RemoveOldVolumes: a mounted volume is removed as well.
RemoveUsedVolumes ==
    /\ mounted
    /\ mounted' = FALSE /\ archive' = "none" /\ archived' = {} /\ expired' = TRUE
    /\ UNCHANGED <<config, taskVars, executionVars, cacheVars, fetchVars, diffVars,
                   discoveryVars, neuronVars>>

\* Docker refuses to remove a volume that a container mounts.
RemoveOldVolumes ==
    /\ mounted /\ \A t \in Tasks : ~Running(t)
    /\ mounted' = FALSE /\ archive' = "none" /\ archived' = {} /\ expired' = TRUE
    /\ UNCHANGED <<config, taskVars, executionVars, cacheVars, fetchVars, diffVars,
                   discoveryVars, neuronVars>>

\* A copy that does not end leaves a part of the archive.
MayTear(t) ==
    /\ archive' \in IF pc[t] = "cacheWorkspace" THEN {archive, "torn"} ELSE {archive}
    /\ UNCHANGED <<mounted, archived, expired>>

\* An abort, an interrupt or a lack of memory ends the container anywhere.
Kill(t) ==
    /\ Running(t)
    /\ End(t, "killed") /\ MayTear(t)
    /\ UNCHANGED <<config, home, status, executionVars, cacheVars, fetchVars, diffVars,
                   discoveryVars, neuronVars>>

\* In version 2 a sub module whose pre-run fails sets the status as well.
StepFails(t) ==
    /\ pc[t] \in PlainSteps \cup {"clone", "load", "cacheWorkspace", "extract"}
    /\ \E e \in ErrorsOf(pc[t]) : End(t, e)
    /\ MayTear(t)
    /\ \/ UNCHANGED status
       \/ pc[t] = "preRun" /\ config.version = 2 /\ SetStatus(t, "error")
    /\ UNCHANGED <<config, home, executionVars, cacheVars, fetchVars, diffVars, discoveryVars,
                   neuronVars>>

StepSucceeds(t) ==
    /\ pc[t] \in PlainSteps
    /\ Pass(t)
    /\ home' = [home EXCEPT ![t] = @ \cup ({pc[t]} \cap {"preRun", "runners"})]
    /\ UNCHANGED <<config, status, executionVars, cacheVars, fetchVars, diffVars,
                   discoveryVars, neuronVars, volumeVars>>

\* The archive of the commit is unpacked as the repository, which git then gets
\* to know.
Clone ==
    /\ pc["discovery"] = "clone"
    /\ Pass("discovery")
    /\ home' = [home EXCEPT !["discovery"] = {"repo"}]
    /\ UNCHANGED <<config, status, executionVars, cacheVars, fetchVars, diffVars,
                   discoveryVars, neuronVars, volumeVars>>

\* Version 2 takes the discovery for passed as soon as the tas file is loaded.
LoadAndValidate(t) ==
    /\ pc[t] = "load" /\ Valid
    /\ Pass(t)
    /\ IF t = "discovery" /\ config.version = 2 THEN SetStatus(t, "passed")
                                               ELSE UNCHANGED status
    /\ UNCHANGED <<config, home, executionVars, cacheVars, fetchVars, diffVars, discoveryVars,
                   neuronVars, volumeVars>>

-----------------------------------------------------------------------------
(* Discovery: the error group of the cache and the diff.                   *)

CacheGoroutine(from) == pc["discovery"] = "fetch" /\ cacheStep = from

\* getCacheSASURL: once.Do keeps the URL, or the error, of the first request.
GetCacheSASURL ==
    /\ CacheGoroutine("ask")
    /\ \/ sas' = "url" /\ cacheStep' = "find" /\ UNCHANGED fetchFailed
       \/ sas' = "error" /\ cacheStep' = "done" /\ fetchFailed' = TRUE
    /\ UNCHANGED <<config, taskVars, executionVars, skipUpload, blob, diffStep, diffVars,
                   discoveryVars, neuronVars, volumeVars>>

\* FindUsingSASUrl; a hit sets skipUpload before anything is written.
FindCache ==
    /\ CacheGoroutine("find")
    /\ \/ blob /\ cacheStep' = "copy" /\ skipUpload' = TRUE /\ UNCHANGED fetchFailed
       \/ ~blob /\ cacheStep' = "done" /\ UNCHANGED <<skipUpload, fetchFailed>>
       \/ cacheStep' = "done" /\ fetchFailed' = TRUE /\ UNCHANGED skipUpload
    /\ UNCHANGED <<config, taskVars, executionVars, sas, blob, diffStep, diffVars,
                   discoveryVars, neuronVars, volumeVars>>

\* Mutant of CopyCache: an error while the cache is unpacked is a miss.
CopyCacheIgnores ==
    /\ CacheGoroutine("copy")
    /\ \E got \in {"cache", "partOfCache"} : home' = [home EXCEPT !["discovery"] = @ \cup {got}]
    /\ cacheStep' = "done" /\ UNCHANGED fetchFailed
    /\ UNCHANGED <<config, pc, status, outcome, executionVars, cacheVars, diffStep, diffVars,
                   discoveryVars, neuronVars, volumeVars>>

\* The rest of Download: a file, and tar over the repository.
CopyCache ==
    /\ CacheGoroutine("copy")
    /\ \E got \in {"cache", "partOfCache"} :
        /\ home' = [home EXCEPT !["discovery"] = @ \cup {got}]
        /\ fetchFailed' = (fetchFailed \/ got # "cache")
    /\ cacheStep' = "done"
    /\ UNCHANGED <<config, pc, status, outcome, executionVars, cacheVars, diffStep, diffVars,
                   discoveryVars, neuronVars, volumeVars>>

\* What the provider may answer.  The commits of a push may have no base, and
\* every answer but 200 counts as no diff; for a pull request it is an error.
CommitDiff == {"diff", "notFound", "error"}
PRDiff == {"diff", "error"}

GetChangedFiles ==
    /\ pc["discovery"] = "fetch" /\ diffStep = "ask"
    /\ diffStep' = "done"
    /\ \E answer \in IF config.event = "pull-request" THEN PRDiff ELSE CommitDiff :
        IF answer = "error" THEN fetchFailed' = TRUE /\ UNCHANGED diffVars
        ELSE /\ UNCHANGED fetchFailed
             /\ diffExists' = (answer = "diff")
             /\ IF answer = "notFound" THEN shown' = {} /\ diff' = NoDiff
                ELSE \E provider \in {"github", "gitlab"} :
                     \E content \in Answers(provider), read \in PathsRead(provider) :
                        /\ shown' = {p \in read : content[p] \cap Adding # {}}
                        /\ diff' = ParseGitDiff(content, read)
    /\ UNCHANGED <<config, taskVars, executionVars, cacheVars, cacheStep, discoveryVars,
                   neuronVars, volumeVars>>

\* g.Wait()
JoinFetch ==
    /\ CacheGoroutine("done") /\ diffStep = "done"
    /\ IF fetchFailed THEN End("discovery", "other") ELSE Pass("discovery")
    /\ UNCHANGED <<config, home, status, executionVars, cacheVars, fetchVars, diffVars,
                   discoveryVars, neuronVars, volumeVars>>

-----------------------------------------------------------------------------
(* Discovery: the workspace, the tests, the cache.                         *)

\* Send of the list sub module service: an answer that is lost is an error.
SendSubmoduleList ==
    /\ pc["discovery"] = "list"
    /\ \/ total' = Len(Modules) /\ Pass("discovery")
       \/ total' \in {total, Len(Modules)} /\ End("discovery", "other")
    /\ UNCHANGED <<config, home, status, executionVars, cacheVars, fetchVars, diffVars,
                   discoveryVars, reported, results, volumeVars>>

\* The archive is made in the container and copied to the volume.
CacheWorkspace ==
    /\ pc["discovery"] = "cacheWorkspace"
    /\ archive' = "whole" /\ archived' = home["discovery"]
    /\ Pass("discovery")
    /\ UNCHANGED <<config, home, status, executionVars, cacheVars, fetchVars, diffVars,
                   discoveryVars, neuronVars, mounted, expired>>

\* Discover and SendResult for one sub module; the answer may be lost.  The
\* goroutines take the diff when they start, all at once.
DiscoverModule(k) ==
    /\ pc["discovery"] = "discover" /\ k \in DOMAIN Modules \ discovered
    /\ discovered' = discovered \cup {k}
    /\ \/ reported' = reported \cup {k} /\ UNCHANGED discoverErr
       \/ /\ reported' \in {reported, reported \cup {k}}
          /\ discoverErr' = discoverErr \cup {"other"}
       \/ UNCHANGED reported /\ discoverErr' = discoverErr \cup {"failed"}
    /\ shown' = {} /\ diff' = NoDiff /\ UNCHANGED diffExists
    /\ UNCHANGED <<config, taskVars, executionVars, cacheVars, fetchVars, total, results,
                   volumeVars>>

\* Mutant of JoinDiscoveries: the errors of the channel are not read.
JoinDiscoveriesOnly ==
    /\ pc["discovery"] = "discover" /\ discovered = DOMAIN Modules
    /\ Pass("discovery")
    /\ UNCHANGED <<config, home, status, executionVars, cacheVars, fetchVars, diffVars,
                   discoveryVars, neuronVars, volumeVars>>

\* The error of any.
JoinDiscoveries ==
    /\ pc["discovery"] = "discover" /\ discovered = DOMAIN Modules
    /\ IF discoverErr = {} THEN Pass("discovery")
                            ELSE \E e \in discoverErr : End("discovery", e)
    /\ UNCHANGED <<config, home, status, executionVars, cacheVars, fetchVars, diffVars,
                   discoveryVars, neuronVars, volumeVars>>

\* Upload is skipped after a hit, and may find nothing to upload.  Its error is
\* the driver's in version 1 and only logged in version 2.
UploadCache ==
    /\ pc["discovery"] = "upload"
    /\ \/ /\ blob' \in IF UsesCache /\ ~skipUpload /\ sas = "url" THEN {blob, TRUE} ELSE {blob}
          /\ Pass("discovery")
          /\ IF config.version = 1 THEN SetStatus("discovery", "passed") ELSE UNCHANGED status
       \/ /\ UsesCache /\ ~skipUpload /\ config.version = 1
          /\ End("discovery", "other") /\ UNCHANGED <<blob, status>>
    /\ UNCHANGED <<config, home, executionVars, sas, skipUpload, fetchVars, diffVars,
                   discoveryVars, neuronVars, volumeVars>>

-----------------------------------------------------------------------------
(* Execution.                                                              *)

\* A workspace that is not there is an error like any other; "missing" tells it
\* apart here.
ExtractWorkspace(t) ==
    /\ pc[t] = "extract"
    /\ IF archive = "whole" THEN Pass(t) /\ home' = [home EXCEPT ![t] = archived]
                             ELSE End(t, "missing") /\ UNCHANGED home
    /\ UNCHANGED <<config, status, executionVars, cacheVars, fetchVars, diffVars,
                   discoveryVars, neuronVars, volumeVars>>

\* Mutant of SearchedModules: the sub modules of the other event.
OtherModules == IF config.event = "push" THEN config.premerge ELSE config.postmerge

\* The list findSubmodule looks at.
SearchedModules ==
    IF config.event = "pull-request" THEN config.premerge ELSE config.postmerge

FindSubmodule(t) ==
    /\ pc[t] = "find"
    /\ LET Matches == {k \in DOMAIN SearchedModules : SearchedModules[k] = module[t]}
       IN IF Matches = {} THEN End(t, "notFound") /\ UNCHANGED found
          ELSE /\ \E k \in Matches : /\ \A j \in Matches : k <= j
                                     /\ found' = [found EXCEPT ![t] = k]
               /\ Pass(t)
    /\ UNCHANGED <<config, home, status, module, cacheVars, fetchVars, diffVars,
                   discoveryVars, neuronVars, volumeVars>>

\* taskPayload.Status = resp.TaskStatus; an answer that is lost is an error.
SendResults(t) ==
    /\ pc[t] = "sendResults"
    /\ \/ /\ results' = results \cup {t} /\ Pass(t)
          /\ \E s \in Statuses \ {"running"} : SetStatus(t, s)
       \/ /\ results' \in {results, results \cup {t}}
          /\ End(t, "other") /\ UNCHANGED status
    /\ UNCHANGED <<config, home, executionVars, cacheVars, fetchVars, diffVars, discoveryVars,
                   total, reported, volumeVars>>

-----------------------------------------------------------------------------
Discovery ==
    \/ Clone \/ GetCacheSASURL \/ FindCache \/ CopyCache \/ GetChangedFiles \/ JoinFetch
    \/ SendSubmoduleList \/ CacheWorkspace \/ JoinDiscoveries \/ UploadCache
    \/ \E k \in 1..MaxModules : DiscoverModule(k)

Execution(t) == ExtractWorkspace(t) \/ FindSubmodule(t) \/ SendResults(t)

Next ==
    \/ \E t \in Tasks : \/ StartContainer(t) \/ Kill(t)
                        \/ StepFails(t) \/ StepSucceeds(t) \/ LoadAndValidate(t)
    \/ RemoveOldVolumes \/ Discovery \/ \E t \in Executions : Execution(t)

Spec == Init /\ [][Next]_vars

-----------------------------------------------------------------------------
(* The tests of a sub module run in what its discovery has prepared: the   *)
(* repository after every pre-run, with the runners.                       *)
ExecutionHasBuild ==
    \A e \in Executions : pc[e] \in {"run", "sendResults", "postRun"} =>
        {"repo", "preRun", "runners"} \subseteq home[e]

(* An execution task neuron was told of finds its workspace, unless the    *)
(* cron has removed the volume since, and finds its sub module, the very   *)
(* one whose tests were reported.                                          *)
ReportedIsExecutable ==
    \A e \in Executions :
        /\ outcome[e] = "missing" => expired
        /\ outcome[e] # "notFound"
        /\ found[e] # 0 => found[e] \in reported /\ Modules[found[e]] = module[e]

(* The cache is not uploaded only if all of it had been there and was      *)
(* unpacked, and an upload never meets the error once.Do has kept.         *)
CacheHitIsWhole ==
    pc["discovery"] = "upload" /\ UsesCache =>
        /\ sas = "url"
        /\ skipUpload => "cache" \in home["discovery"]
        /\ "partOfCache" \notin home["discovery"]

(* A driver that returns without error has told neuron what it should      *)
(* have: the number and the tests of all sub modules, or the results; and  *)
(* the status it leaves is not the one the task began with.                *)
SuccessMeansReported ==
    \A t \in Tasks : outcome[t] = "nil" =>
        /\ status[t] # "running"
        /\ IF t = "discovery"
           THEN status[t] = "passed" /\ reported = DOMAIN Modules /\ total = Len(Modules)
           ELSE t \in results

(* A file that the provider's answer shows as added or modified makes the *)
(* runner take it, or every test, for impacted; it may be lost only in a   *)
(* sub module whose diff, the directory cut off, has a removed file of     *)
(* that name.  Nothing is said of a changed file the parser gets no mark   *)
(* of, see Answers and PathsRead: the code may well lose it.               *)
ChangedReachesRunner ==
    pc["discovery"] = "discover" /\ discovered = {} =>
        \A dir \in (IF config.version = 1 THEN {Root} ELSE {p[1] : p \in Paths}) :
            \A d \in SubmoduleBasedDiffs(diff, dir) :
                \/ AllImpacted(d, diffExists)
                \/ \A p \in shown :
                        \/ TrimPrefix(p, dir) \in Reported(d)
                        \/ \E q \in DOMAIN diff : /\ TrimPrefix(q, dir) = TrimPrefix(p, dir)
                                                  /\ diff[q] = FileRemoved
==============================================================================
