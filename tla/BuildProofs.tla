------------------------------ MODULE BuildProofs ------------------------------
(***************************************************************************)
(* Proofs about Build, for any names of sub modules, any number of         *)
(* execution tasks and any files: what an execution finds of the discovery *)
(* before it, what neuron has been told when a driver succeeds, when the   *)
(* cache may be left as it is, and which files reach the test runner.      *)
(***************************************************************************)
EXTENDS Build, SequenceTheorems, TLAPS

-----------------------------------------------------------------------------
(* The order of the steps.                                                 *)

LEMMA OrderOfDiscoveryV1 ==
    ASSUME config.version = 1
    PROVE  LET Next1(s) == After("discovery", s) IN
           /\ Next1("clone") = "load" /\ Next1("load") = "setCache" /\ Next1("setCache") = "node"
           /\ Next1("node") = "block" /\ Next1("block") = "fetch" /\ Next1("fetch") = "list"
           /\ Next1("list") = "preRun" /\ Next1("preRun") = "runners"
           /\ Next1("runners") = "cacheWorkspace" /\ Next1("cacheWorkspace") = "discover"
           /\ Next1("discover") = "upload" /\ Next1("upload") = "ended"
    BY DEF After, StepsOf, DiscoveryStepsV1

LEMMA OrderOfDiscoveryV2 ==
    ASSUME config.version # 1
    PROVE  LET Next2(s) == After("discovery", s) IN
           /\ Next2("clone") = "load" /\ Next2("load") = "setCache" /\ Next2("setCache") = "fetch"
           /\ Next2("fetch") = "list" /\ Next2("list") = "node" /\ Next2("node") = "preRun"
           /\ Next2("preRun") = "runners" /\ Next2("runners") = "cacheWorkspace"
           /\ Next2("cacheWorkspace") = "discover" /\ Next2("discover") = "upload"
           /\ Next2("upload") = "ended"
    BY DEF After, StepsOf, DiscoveryStepsV2

LEMMA OrderOfExecutionV1 ==
    ASSUME NEW e \in Executions, config.version = 1
    PROVE  LET Next1(s) == After(e, s) IN
           /\ Next1("extract") = "load" /\ Next1("load") = "setCache" /\ Next1("setCache") = "block"
           /\ Next1("block") = "run" /\ Next1("run") = "sendResults"
           /\ Next1("sendResults") = "postRun" /\ Next1("postRun") = "ended"
<1>1. StepsOf(e) = ExecutionStepsV1
    BY BuildAssumption DEF StepsOf
<1>. QED BY <1>1 DEF After, ExecutionStepsV1

LEMMA OrderOfExecutionV2 ==
    ASSUME NEW e \in Executions, config.version # 1
    PROVE  LET Next2(s) == After(e, s) IN
           /\ Next2("extract") = "load" /\ Next2("load") = "setCache" /\ Next2("setCache") = "find"
           /\ Next2("find") = "block" /\ Next2("block") = "preRunAgain"
           /\ Next2("preRunAgain") = "run" /\ Next2("run") = "sendResults"
           /\ Next2("sendResults") = "postRun" /\ Next2("postRun") = "ended"
<1>1. StepsOf(e) = ExecutionStepsV2
    BY BuildAssumption DEF StepsOf
<1>. QED BY <1>1 DEF After, ExecutionStepsV2

\* The last step ends the driver with nil, every other one leads to the next.
LEMMA PassMoves ==
    ASSUME NEW t, Pass(t)
    PROVE  /\ pc' = [pc EXCEPT ![t] = After(t, pc[t])]
           /\ outcome' = IF After(t, pc[t]) = "ended" THEN [outcome EXCEPT ![t] = "nil"]
                                                      ELSE outcome
    BY DEF Pass, End, Go

DiscoverySet(version) ==
    {"clone", "load", "setCache", "node", "fetch", "list", "preRun", "runners", "cacheWorkspace",
     "discover", "upload"} \cup (IF version = 1 THEN {"block"} ELSE {})

ExecutionSet(version) ==
    {"extract", "load", "setCache", "block", "run", "sendResults", "postRun"}
        \cup (IF version = 1 THEN {} ELSE {"find", "preRunAgain"})

\* Every task is at a step of its driver.
StepsInv ==
    /\ pc["discovery"] \in DiscoverySet(config.version) \cup {"waiting", "ended"}
    /\ \A e \in Executions : pc[e] \in ExecutionSet(config.version) \cup {"waiting", "ended"}

\* A volume is there as long as a container mounts it.
MountedInv == (\E t \in Tasks : Running(t)) => mounted

TypeInv == TypeOK /\ StepsInv /\ MountedInv

LEMMA AfterStays ==
    ASSUME TypeInv, NEW t \in Tasks, Running(t)
    PROVE  /\ After(t, pc[t]) \in AllSteps \cup {"ended"}
           /\ t = "discovery" => After(t, pc[t]) \in DiscoverySet(config.version) \cup {"ended"}
           /\ t # "discovery" => After(t, pc[t]) \in ExecutionSet(config.version) \cup {"ended"}
<1>. USE DEF Running, TypeInv, StepsInv
<1>1. CASE t = "discovery" /\ config.version = 1
    <2>1. pc[t] \in {"clone", "load", "setCache", "node", "block", "fetch", "list", "preRun",
                     "runners", "cacheWorkspace", "discover", "upload"}
        BY <1>1 DEF DiscoverySet
    <2>. QED BY <1>1, <2>1, OrderOfDiscoveryV1 DEF AllSteps, DiscoverySet
<1>2. CASE t = "discovery" /\ config.version # 1
    <2>1. pc[t] \in {"clone", "load", "setCache", "node", "fetch", "list", "preRun",
                     "runners", "cacheWorkspace", "discover", "upload"}
        BY <1>2 DEF DiscoverySet
    <2>. QED BY <1>2, <2>1, OrderOfDiscoveryV2 DEF AllSteps, DiscoverySet
<1>3. CASE t # "discovery" /\ config.version = 1
    <2>1. t \in Executions
        BY <1>3 DEF Tasks
    <2>2. pc[t] \in {"extract", "load", "setCache", "block", "run", "sendResults", "postRun"}
        BY <1>3, <2>1 DEF ExecutionSet
    <2>. QED BY <1>3, <2>1, <2>2, OrderOfExecutionV1 DEF AllSteps, ExecutionSet
<1>4. CASE t # "discovery" /\ config.version # 1
    <2>1. t \in Executions
        BY <1>4 DEF Tasks
    <2>2. pc[t] \in {"extract", "load", "setCache", "find", "block", "preRunAgain", "run",
                     "sendResults", "postRun"}
        BY <1>4, <2>1 DEF ExecutionSet
    <2>. QED BY <1>4, <2>1, <2>2, OrderOfExecutionV2 DEF AllSteps, ExecutionSet
<1>. QED BY <1>1, <1>2, <1>3, <1>4

\* Where a step may lead: nowhere, to the task's own next step, to the end.
Moves(t) ==
    \/ pc' = pc
    \/ StartContainer(t) /\ pc' = [pc EXCEPT ![t] = StepsOf(t)[1]]
    \/ Running(t) /\ pc' = [pc EXCEPT ![t] = After(t, pc[t])]
    \/ Running(t) /\ pc' = [pc EXCEPT ![t] = "ended"]

LEMMA NextMoves == ASSUME Next PROVE \E t \in Tasks : Moves(t)
<1>1. ASSUME NEW t \in Tasks, StartContainer(t) PROVE Moves(t)
    BY <1>1 DEF StartContainer, Go, Moves
<1>2. ASSUME NEW t \in Tasks, Kill(t) \/ StepFails(t) PROVE Moves(t)
    BY <1>2 DEF Kill, StepFails, End, Go, Moves, Running, PlainSteps
<1>3. ASSUME NEW t \in Tasks, StepSucceeds(t) \/ LoadAndValidate(t) PROVE Moves(t)
    BY <1>3, PassMoves DEF StepSucceeds, LoadAndValidate, Moves, Running, PlainSteps
<1>4. ASSUME Discovery PROVE Moves("discovery")
    BY <1>4, PassMoves DEF Discovery, Clone, GetCacheSASURL, FindCache, CopyCache,
        GetChangedFiles, JoinFetch, SendSubmoduleList, CacheWorkspace, JoinDiscoveries,
        UploadCache, DiscoverModule, taskVars, CacheGoroutine, End, Go, Moves, Running
<1>5. ASSUME NEW e \in Executions, Execution(e) PROVE Moves(e)
    BY <1>5, PassMoves DEF Execution, ExtractWorkspace, FindSubmodule, SendResults, End, Go,
        Moves, Running
<1>6. ASSUME RemoveOldVolumes PROVE Moves("discovery")
    BY <1>6 DEF RemoveOldVolumes, taskVars, Moves
<1>. QED BY <1>1, <1>2, <1>3, <1>4, <1>5, <1>6 DEF Next, Tasks

LEMMA StepsKept ==
    ASSUME TypeInv, Next
    PROVE  /\ StepsInv'
           /\ pc' \in [Tasks -> AllSteps \cup {"waiting", "ended"}]
           /\ config' = config
<1>1. config' = config
    BY DEF Next, StartContainer, Kill, StepFails, StepSucceeds, LoadAndValidate, RemoveOldVolumes,
        Discovery, Clone, GetCacheSASURL, FindCache, CopyCache, GetChangedFiles, JoinFetch,
        SendSubmoduleList, CacheWorkspace, DiscoverModule, JoinDiscoveries, UploadCache,
        Execution, ExtractWorkspace, FindSubmodule, SendResults
<1>2. PICK t \in Tasks : Moves(t)
    BY NextMoves
<1>3. /\ t = "discovery" => StepsOf(t)[1] = "clone"
      /\ t # "discovery" => StepsOf(t)[1] = "extract"
    BY DEF StepsOf, DiscoveryStepsV1, DiscoveryStepsV2, ExecutionStepsV1, ExecutionStepsV2
<1>4. pc \in [Tasks -> AllSteps \cup {"waiting", "ended"}]
    BY DEF TypeInv, TypeOK
<1>5. pc' = pc \/ \E s : /\ pc' = [pc EXCEPT ![t] = s]
                         /\ s \in AllSteps \cup {"ended"}
                         /\ t = "discovery" => s \in DiscoverySet(config.version) \cup {"ended"}
                         /\ t # "discovery" => s \in ExecutionSet(config.version) \cup {"ended"}
    BY <1>2, <1>3, AfterStays DEF Moves, AllSteps, DiscoverySet, ExecutionSet
<1>6. pc' \in [Tasks -> AllSteps \cup {"waiting", "ended"}]
    BY <1>4, <1>5
<1>7. StepsInv'
    <2>1. "discovery" \in Tasks /\ \A e \in Executions : e \in Tasks /\ e # "discovery"
        BY BuildAssumption DEF Tasks
    <2>. QED BY <1>1, <1>4, <1>5, <2>1 DEF TypeInv, StepsInv
<1>. QED BY <1>1, <1>6, <1>7

-----------------------------------------------------------------------------
(* The types.                                                              *)

LEMMA MaxModulesType == MaxModules \in Nat /\ MaxModules >= 1
    BY BuildAssumption

LEMMA ListsAreSequences ==
    ASSUME NEW list \in Lists
    PROVE  /\ Len(list) \in 0..MaxModules /\ DOMAIN list = 1..Len(list)
           /\ \A k \in DOMAIN list : list[k] \in Names
<1>1. PICK n \in 0..MaxModules : list \in [1..n -> Names]
    BY DEF Lists
<1>2. n \in Nat
    BY MaxModulesType
<1>3. list \in Seq(Names)
    BY <1>1, <1>2, SeqDef
<1>4. Len(list) \in Nat /\ DOMAIN list = 1..Len(list)
    BY <1>3, LenProperties
<1>5. Len(list) = n
    BY <1>1, <1>2, <1>4
<1>. QED BY <1>1, <1>4, <1>5

LEMMA ConfigTypes ==
    ASSUME config \in Configs
    PROVE  /\ config.version \in {1, 2} /\ config.event \in {"push", "pull-request"}
           /\ config.premerge \in Lists /\ config.postmerge \in Lists
    BY DEF Configs

LEMMA ModulesAreList ==
    ASSUME config \in Configs
    PROVE  /\ Len(Modules) \in 0..MaxModules /\ DOMAIN Modules = 1..Len(Modules)
           /\ \A k \in DOMAIN Modules : Modules[k] \in Names \cup {Root}
<1>1. CASE config.version = 1
    <2>1. Modules = <<Root>>
        BY <1>1 DEF Modules
    <2>2. Len(Modules) = 1 /\ DOMAIN Modules = {1} /\ Modules[1] = Root
        BY <2>1
    <2>. QED BY <2>1, <2>2, MaxModulesType
<1>2. CASE config.version # 1
    <2>1. Modules \in Lists
        BY <1>2, ConfigTypes DEF Modules
    <2>. QED BY <2>1, ListsAreSequences
<1>. QED BY <1>1, <1>2

\* What a provider's answer is parsed to is a diff, in which every path that is
\* shown as added or modified has another kind than a removed one.
LEMMA ParsedDiff ==
    ASSUME NEW provider, NEW content \in Answers(provider), NEW read \in SUBSET Paths
    PROVE  LET d == ParseGitDiff(content, read) IN
           /\ d \in Diffs
           /\ \A p \in read : content[p] \cap Adding # {} =>
                    p \in DOMAIN d /\ d[p] # FileRemoved
<1>. DEFINE kinds == {FileAdded, FileRemoved, FileModified}
            d == ParseGitDiff(content, read)
<1>1. FileAdded = 1 /\ FileRemoved = 2 /\ FileModified = 3
    BY DEF FileAdded, FileRemoved, FileModified
<1>2. DOMAIN d = {q \in read : content[q] # {}}
    BY DEF ParseGitDiff
<1>3. \A p \in DOMAIN d : d[p] = Kind(content[p])
    BY DEF ParseGitDiff
<1>4. d = [p \in DOMAIN d |-> d[p]]
    BY DEF ParseGitDiff
<1>5. \A p \in DOMAIN d : content[p] \cap Adding # {} \/ content[p] \cap Removing # {}
    BY <1>2 DEF Answers, Adding, Removing
<1>. HIDE DEF d
<1>6. \A p \in DOMAIN d : d[p] \in kinds
    BY <1>1, <1>3, <1>5 DEF Kind
<1>7. d \in [DOMAIN d -> kinds]
    BY <1>4, <1>6
<1>8. d \in Diffs
    BY <1>2, <1>7 DEF Diffs
<1>9. ASSUME NEW p \in read, content[p] \cap Adding # {}
      PROVE  p \in DOMAIN d /\ d[p] # FileRemoved
    BY <1>1, <1>2, <1>3, <1>9 DEF Kind
<1>. QED BY <1>8, <1>9 DEF d

-----------------------------------------------------------------------------
LEMMA NoDiffIsDiff == NoDiff \in Diffs
<1>1. NoDiff \in [{} -> {FileAdded, FileRemoved, FileModified}]
    BY DEF NoDiff
<1>. QED BY <1>1 DEF Diffs

\* What is known of the changed files: none, or what an answer is parsed to.
LEMMA AnsweredDiff ==
    ASSUME GetChangedFiles
    PROVE  \/ UNCHANGED diffVars
           \/ /\ shown' \subseteq Paths /\ diff' \in Diffs
              /\ \A p \in shown' : p \in DOMAIN diff' /\ diff'[p] # FileRemoved
<1>1. CASE UNCHANGED diffVars
    BY <1>1
<1>2. CASE shown' = {} /\ diff' = NoDiff
    BY <1>2, NoDiffIsDiff
<1>3. CASE \E provider \in {"github", "gitlab"} :
              \E content \in Answers(provider), read \in PathsRead(provider) :
                /\ shown' = {p \in read : content[p] \cap Adding # {}}
                /\ diff' = ParseGitDiff(content, read)
    <2>1. PICK provider \in {"github", "gitlab"} :
              \E content \in Answers(provider), read \in PathsRead(provider) :
                /\ shown' = {p \in read : content[p] \cap Adding # {}}
                /\ diff' = ParseGitDiff(content, read)
        BY <1>3
    <2>2. PICK content \in Answers(provider), read \in PathsRead(provider) :
                /\ shown' = {p \in read : content[p] \cap Adding # {}}
                /\ diff' = ParseGitDiff(content, read)
        BY <2>1
    <2>3. read \in SUBSET Paths
        BY DEF PathsRead
    <2>. QED BY <2>2, <2>3, ParsedDiff
<1>4. PICK answer \in IF config.event = "pull-request" THEN PRDiff ELSE CommitDiff :
        IF answer = "error" THEN fetchFailed' = TRUE /\ UNCHANGED diffVars
        ELSE /\ UNCHANGED fetchFailed
             /\ diffExists' = (answer = "diff")
             /\ IF answer = "notFound" THEN shown' = {} /\ diff' = NoDiff
                ELSE \E provider \in {"github", "gitlab"} :
                     \E content \in Answers(provider), read \in PathsRead(provider) :
                        /\ shown' = {p \in read : content[p] \cap Adding # {}}
                        /\ diff' = ParseGitDiff(content, read)
    BY Zenon DEF GetChangedFiles
<1>. QED BY <1>1, <1>2, <1>3, <1>4

Outcomes == [Tasks -> Errors \cup {"none", "nil", "killed", "missing", "notFound"}]

LEMMA OutcomeTypes ==
    ASSUME outcome \in Outcomes, NEW t
    PROVE  /\ \A with \in Errors \cup {"killed", "missing", "notFound"} :
                    End(t, with) => outcome' \in Outcomes
           /\ Pass(t) => outcome' \in Outcomes
    BY DEF Outcomes, End, Pass

LEMMA TypeKept == ASSUME TypeInv, Next PROVE TypeInv'
<1>0. /\ TypeOK /\ config' = config /\ pc' \in [Tasks -> AllSteps \cup {"waiting", "ended"}]
      /\ \A t \in Tasks : Running(t) => mounted
      /\ Modules' = Modules
      /\ DOMAIN Modules = 1..Len(Modules) /\ Len(Modules) \in 0..MaxModules
      /\ \A k \in DOMAIN Modules : Modules[k] \in Names \cup {Root}
      /\ "discovery" \in Tasks /\ \A e \in Executions : e \in Tasks /\ e # "discovery"
    BY StepsKept, ModulesAreList, BuildAssumption DEF TypeInv, MountedInv, TypeOK, Modules, Tasks
<1>00. /\ \A t : \A with \in Errors \cup {"killed", "missing", "notFound"} :
              End(t, with) => outcome' \in Outcomes
       /\ \A t : Pass(t) => outcome' \in Outcomes
       /\ TypeOK <=> TypeOK /\ outcome \in Outcomes
       /\ outcome' \in [Tasks -> Errors \cup {"none", "nil", "killed", "missing", "notFound"}] <=> outcome' \in Outcomes
    BY OutcomeTypes, <1>0 DEF TypeOK, Outcomes
<1>. SUFFICES TypeOK' /\ MountedInv'
    BY StepsKept DEF TypeInv
<1>. USE DEF taskVars, executionVars, cacheVars, fetchVars, diffVars, discoveryVars, neuronVars,
        volumeVars
<1>1. ASSUME NEW t \in Tasks, StartContainer(t) PROVE TypeOK'
    <2>1. module' \in [Executions -> Names \cup {Root}]
        BY <1>0, <1>1 DEF TypeOK, StartContainer
    <2>2. archive' # "none" => mounted'
        BY <1>1 DEF StartContainer
    <2>. QED BY <1>0, <1>1, <2>1, <2>2, SMTT(30) DEF TypeOK, StartContainer
<1>2. ASSUME NEW t \in Tasks, Kill(t) PROVE TypeOK'
    <2>1. archive' \in {"none", "torn", "whole"} /\ (archive' # "none" => mounted)
        BY <1>0, <1>2 DEF TypeOK, Kill, MayTear
    <2>2. outcome' \in Outcomes
        BY <1>00, <1>2 DEF Kill
    <2>. QED BY <1>0, <1>00, <1>2, <2>1, <2>2 DEF TypeOK, Kill, MayTear
<1>3. ASSUME NEW t \in Tasks, StepFails(t) PROVE TypeOK'
    <2>1. Running(t)
        BY <1>3 DEF StepFails, PlainSteps, Running
    <2>2. archive' \in {"none", "torn", "whole"} /\ (archive' # "none" => mounted)
        BY <1>0, <1>3, <2>1 DEF TypeOK, StepFails, MayTear
    <2>3. ErrorsOf(pc[t]) \subseteq Errors
        BY DEF ErrorsOf, Errors
    <2>4. outcome' \in Outcomes
        BY <1>00, <1>3, <2>3 DEF StepFails
    <2>5. status' \in [Tasks -> Statuses]
        BY <1>0, <1>3 DEF TypeOK, StepFails, SetStatus, Statuses
    <2>. QED BY <1>0, <1>00, <1>3, <2>2, <2>4, <2>5 DEF TypeOK, StepFails, MayTear
<1>4. ASSUME NEW t \in Tasks, StepSucceeds(t) PROVE TypeOK'
    BY <1>0, <1>00, <1>4 DEF TypeOK, StepSucceeds, Content
<1>5. ASSUME NEW t \in Tasks, LoadAndValidate(t) PROVE TypeOK'
    BY <1>0, <1>00, <1>5 DEF TypeOK, LoadAndValidate, SetStatus, Statuses
<1>6. ASSUME RemoveOldVolumes PROVE TypeOK'
    BY <1>0, <1>00, <1>6 DEF TypeOK, RemoveOldVolumes
<1>7. ASSUME Clone PROVE TypeOK'
    BY <1>0, <1>00, <1>7 DEF TypeOK, Clone, Content
<1>8. ASSUME GetCacheSASURL PROVE TypeOK'
    BY <1>0, <1>00, <1>8 DEF TypeOK, GetCacheSASURL
<1>9. ASSUME FindCache PROVE TypeOK'
    BY <1>0, <1>00, <1>9, ZenonT(60) DEF TypeOK, FindCache
<1>10. ASSUME CopyCache PROVE TypeOK'
    BY <1>0, <1>00, <1>10 DEF TypeOK, CopyCache, Content
<1>11. ASSUME GetChangedFiles PROVE TypeOK'
    <2>1. shown' \subseteq Paths /\ diff' \in Diffs
        BY <1>0, <1>11, AnsweredDiff DEF TypeOK
    <2>2. diffExists' \in BOOLEAN
        BY <1>0, <1>11, Zenon DEF TypeOK, GetChangedFiles
    <2>. QED BY <1>0, <1>11, <2>1, <2>2, ZenonT(60) DEF TypeOK, GetChangedFiles
<1>12. ASSUME JoinFetch PROVE TypeOK'
    BY <1>0, <1>00, <1>12 DEF TypeOK, JoinFetch, Errors
<1>13. ASSUME SendSubmoduleList PROVE TypeOK'
    BY <1>0, <1>00, <1>13 DEF TypeOK, SendSubmoduleList, Errors
<1>14. ASSUME CacheWorkspace PROVE TypeOK'
    BY <1>0, <1>00, <1>14 DEF TypeOK, CacheWorkspace, Running
<1>15. ASSUME NEW k \in 1..MaxModules, DiscoverModule(k) PROVE TypeOK'
    <2>1. shown' \subseteq Paths /\ diff' \in Diffs /\ diffExists' \in BOOLEAN
        BY <1>0, <1>15, NoDiffIsDiff DEF TypeOK, DiscoverModule
    <2>2. /\ discovered' \subseteq DOMAIN Modules /\ discoverErr' \subseteq Errors
          /\ reported' \subseteq discovered'
        BY <1>0, <1>15 DEF TypeOK, DiscoverModule, Errors
    <2>. QED BY <1>0, <1>15, <2>1, <2>2 DEF TypeOK, DiscoverModule
<1>16. ASSUME JoinDiscoveries PROVE TypeOK'
    BY <1>0, <1>00, <1>16 DEF TypeOK, JoinDiscoveries
<1>17. ASSUME UploadCache PROVE TypeOK'
    <2>1. blob' \in BOOLEAN
        BY <1>0, <1>17 DEF TypeOK, UploadCache
    <2>2. outcome' \in Outcomes
        BY <1>00, <1>17 DEF UploadCache, Errors
    <2>3. status' \in [Tasks -> Statuses]
        BY <1>0, <1>17 DEF TypeOK, UploadCache, SetStatus, Statuses
    <2>. QED BY <1>0, <1>00, <1>17, <2>1, <2>2, <2>3 DEF TypeOK, UploadCache
<1>18. ASSUME NEW t \in Executions, ExtractWorkspace(t) PROVE TypeOK'
    <2>1. outcome' \in Outcomes
        BY <1>00, <1>18 DEF ExtractWorkspace
    <2>2. home' \in [Tasks -> SUBSET Content]
        <3>1. archived \subseteq Content /\ home \in [Tasks -> SUBSET Content]
            BY <1>0 DEF TypeOK
        <3>2. home' = home \/ home' = [home EXCEPT ![t] = archived]
            BY <1>18 DEF ExtractWorkspace
        <3>. QED BY <3>1, <3>2
    <2>. QED BY <1>0, <1>00, <1>18, <2>1, <2>2 DEF TypeOK, ExtractWorkspace
<1>19. ASSUME NEW t \in Executions, FindSubmodule(t) PROVE TypeOK'
    <2>1. found' \in [Executions -> 0..MaxModules]
        <3>1. DOMAIN SearchedModules \subseteq 0..MaxModules
            BY <1>0, ConfigTypes, ListsAreSequences, MaxModulesType DEF TypeOK, SearchedModules
        <3>. QED BY <1>0, <1>19, <3>1 DEF TypeOK, FindSubmodule
    <2>2. outcome' \in Outcomes
        BY <1>00, <1>19 DEF FindSubmodule
    <2>. QED BY <1>0, <1>00, <1>19, <2>1, <2>2 DEF TypeOK, FindSubmodule
<1>20. ASSUME NEW t \in Executions, SendResults(t) PROVE TypeOK'
    BY <1>0, <1>00, <1>20, SMTT(30) DEF TypeOK, SendResults, Errors, SetStatus, Statuses
<1>21. TypeOK'
    BY <1>1, <1>2, <1>3, <1>4, <1>5, <1>6, <1>7, <1>8, <1>9, <1>10, <1>11, <1>12, <1>13, <1>14, <1>15, <1>16, <1>17, <1>18, <1>19, <1>20 DEF Next, Discovery, Execution
<1>22. MountedInv'
    <2>1. ASSUME NEW t \in Tasks, StartContainer(t) PROVE MountedInv'
        BY <2>1 DEF StartContainer, MountedInv
    <2>2. CASE RemoveOldVolumes
        BY <2>2 DEF RemoveOldVolumes, MountedInv, Running
    <2>3. CASE ~RemoveOldVolumes /\ \A t \in Tasks : ~StartContainer(t)
        <3>1. mounted' = mounted
            BY <2>3 DEF Next, Kill, StepFails, StepSucceeds, LoadAndValidate, MayTear,
                Discovery, Clone, GetCacheSASURL, FindCache, CopyCache, GetChangedFiles,
                JoinFetch, SendSubmoduleList, CacheWorkspace, DiscoverModule, JoinDiscoveries,
                UploadCache, Execution, ExtractWorkspace, FindSubmodule, SendResults
        <3>2. PICK t \in Tasks : Moves(t)
            BY NextMoves
        <3>4. \/ pc' = pc
              \/ Running(t) /\ (pc' = [pc EXCEPT ![t] = After(t, pc[t])]
                                \/ pc' = [pc EXCEPT ![t] = "ended"])
            BY <2>3, <3>2 DEF Moves
        <3>3. pc \in [Tasks -> AllSteps \cup {"waiting", "ended"}]
            BY <1>0 DEF TypeOK
        <3>. QED BY <1>0, <3>1, <3>3, <3>4 DEF MountedInv, Running
    <2>. QED BY <2>1, <2>2, <2>3
<1>. QED BY <1>21, <1>22

LEMMA TypeInit == ASSUME Init PROVE TypeInv
<1>. USE DEF Init
<1>1. /\ config \in Configs /\ "discovery" \in Tasks /\ \A e \in Executions : e \in Tasks
      /\ 0 \in 0..MaxModules
    BY MaxModulesType DEF Tasks
<1>2. pc \in [Tasks -> AllSteps \cup {"waiting", "ended"}]
    BY ZenonT(20)
<1>3. home \in [Tasks -> SUBSET Content] /\ status \in [Tasks -> Statuses]
    BY ZenonT(20) DEF Statuses
<1>4. outcome \in Outcomes
    BY ZenonT(20) DEF Outcomes
<1>5. module \in [Executions -> Names \cup {Root}] /\ found \in [Executions -> 0..MaxModules]
    BY <1>1, ZenonT(20)
<1>6. skipUpload \in BOOLEAN /\ blob \in BOOLEAN /\ fetchFailed \in BOOLEAN
      /\ diffExists \in BOOLEAN /\ mounted \in BOOLEAN /\ expired \in BOOLEAN
    BY Zenon
<1>7. shown = {}
    OBVIOUS
<1>8. /\ sas \in {"unasked", "url", "error"} /\ diffStep \in {"ask", "done"}
      /\ cacheStep \in {"ask", "find", "copy", "done"}
      /\ discovered = {} /\ discoverErr = {} /\ reported = {} /\ results = {} /\ total = 0
      /\ archive = "none" /\ archived = {} /\ diff = NoDiff
    OBVIOUS
<1>9. StepsInv /\ MountedInv
    BY <1>1 DEF StepsInv, MountedInv, Running
<1>. HIDE DEF Init
<1>. QED BY <1>1, <1>2, <1>3, <1>4, <1>5, <1>6, <1>7, <1>8, <1>9, NoDiffIsDiff
    DEF TypeInv, TypeOK, Outcomes

LEMMA TypesStay == Spec => []TypeInv
<1>1. TypeInv /\ UNCHANGED vars => TypeInv'
    BY DEF TypeInv, TypeOK, StepsInv, MountedInv, Running, Modules, vars, taskVars, executionVars,
        cacheVars, fetchVars, diffVars, discoveryVars, neuronVars, volumeVars
<1>. QED BY <1>1, TypeInit, TypeKept, PTL DEF Spec

(* Every state of a build is made of the values TypeOK lists; the archive  *)
(* is on a volume that exists.                                             *)
THEOREM TypeCorrect == Spec => []TypeOK
<1>1. TypeInv => TypeOK
    BY DEF TypeInv
<1>. QED BY <1>1, TypesStay, PTL

-----------------------------------------------------------------------------
Prepared == {"repo", "preRun", "runners"}

\* What the discovery has prepared so far is in its home directory, in the archive
\* it kept, and in the home of every execution that has extracted the archive.
PreparedInv ==
    /\ pc["discovery"] \notin {"waiting", "clone", "ended"} => "repo" \in home["discovery"]
    /\ pc["discovery"] \in {"runners", "cacheWorkspace", "discover", "upload"} =>
           "preRun" \in home["discovery"]
    /\ pc["discovery"] \in {"cacheWorkspace", "discover", "upload"} =>
           "runners" \in home["discovery"]
    /\ archive = "whole" => Prepared \subseteq archived
    /\ \A e \in Executions :
           pc[e] \notin {"waiting", "extract", "ended"} => Prepared \subseteq home[e]

\* The steps after the error group.
PastFetch ==
    {"list", "preRun", "runners", "cacheWorkspace", "discover", "upload"}
        \cup (IF config.version = 1 THEN {} ELSE {"node"})

\* The goroutine of the cache: what it has learned at each of its steps, and that
\* the group has ended without an error once the driver goes on.
CacheInv ==
    /\ cacheStep \in {"find", "copy"} => sas = "url"
    /\ cacheStep = "done" /\ UsesCache /\ ~fetchFailed => sas = "url"
    /\ skipUpload => cacheStep \in {"copy", "done"}
    /\ cacheStep = "done" /\ skipUpload /\ ~fetchFailed => "cache" \in home["discovery"]
    /\ "partOfCache" \in home["discovery"] => fetchFailed
    /\ pc["discovery"] \in {"waiting", "clone"} => ~skipUpload
    /\ pc["discovery"] \in PastFetch => cacheStep = "done" /\ ~fetchFailed

\* Nothing is reported before the workspace is kept, and only the cron removes it.
VolumeInv ==
    /\ reported # {} => pc["discovery"] \in {"discover", "upload", "ended"}
    /\ pc["discovery"] \in {"discover", "upload"} \/ reported # {} =>
           archive = "whole" \/ expired

\* An execution is started for a sub module whose tests were reported.
ModuleInv ==
    /\ pc["discovery"] \notin {"waiting", "clone", "load", "ended"} \/ reported # {} => Valid
    /\ \A e \in Executions :
           /\ pc[e] # "waiting" => \E k \in reported : module[e] = Modules[k]
           /\ found[e] # 0 => pc[e] # "waiting"

\* The steps after the number of sub modules was sent.
PastList ==
    {"preRun", "runners", "cacheWorkspace", "discover", "upload"}
        \cup (IF config.version = 1 THEN {} ELSE {"node"})

\* What neuron has been told of a discovery at each step, and what its status is.
DiscoveryReportInv ==
    /\ discoverErr = {} => reported = discovered
    /\ pc["discovery"] = "upload" => discovered = DOMAIN Modules /\ discoverErr = {}
    /\ pc["discovery"] \in PastList => total = Len(Modules)
    /\ config.version # 1 /\ pc["discovery"] \notin {"waiting", "clone", "load", "ended"} =>
           status["discovery"] = "passed"
    /\ outcome["discovery"] = "nil" =>
           /\ pc["discovery"] = "ended" /\ status["discovery"] = "passed"
           /\ reported = DOMAIN Modules /\ total = Len(Modules)

\* The same of an execution.
ExecutionReportInv ==
    \A e \in Executions :
        /\ pc[e] = "postRun" => e \in results /\ status[e] # "running"
        /\ outcome[e] = "nil" => pc[e] = "ended" /\ e \in results /\ status[e] # "running"

\* The diff keeps what the answer shows as added or modified.
DiffInv == \A p \in shown : p \in DOMAIN diff /\ diff[p] # FileRemoved


LEMMA DiscoveryAfter ==
    ASSUME TypeInv, Running("discovery")
    PROVE  LET s == pc["discovery"]
               a == After("discovery", s)
           IN /\ a \notin {"waiting", "clone"}
              /\ a = "load" <=> s = "clone"
              /\ a = "preRun" => s \in PastList \cup {"list"}
              /\ a = "runners" <=> s = "preRun"
              /\ a = "cacheWorkspace" <=> s = "runners"
              /\ a = "discover" <=> s = "cacheWorkspace"
              /\ a = "upload" <=> s = "discover"
              /\ a = "ended" <=> s = "upload"
              /\ a \in PastFetch => s \in PastFetch \cup {"fetch"}
              /\ a \in PastList => s \in PastList \cup {"list"}
              /\ s = "load" => a = "setCache"
<1>. USE DEF TypeInv, StepsInv, Running, PastFetch, PastList
<1>1. CASE config.version = 1
    <2>1. pc["discovery"] \in {"clone", "load", "setCache", "node", "block", "fetch", "list",
              "preRun", "runners", "cacheWorkspace", "discover", "upload"}
        BY <1>1 DEF DiscoverySet
    <2>. QED BY <1>1, <2>1, OrderOfDiscoveryV1
<1>2. CASE config.version # 1
    <2>1. pc["discovery"] \in {"clone", "load", "setCache", "node", "fetch", "list",
              "preRun", "runners", "cacheWorkspace", "discover", "upload"}
        BY <1>2 DEF DiscoverySet
    <2>. QED BY <1>2, <2>1, OrderOfDiscoveryV2
<1>. QED BY <1>1, <1>2

LEMMA ExecutionAfter ==
    ASSUME TypeInv, NEW e \in Executions, Running(e)
    PROVE  /\ After(e, pc[e]) \notin {"waiting", "extract"}
           /\ After(e, pc[e]) = "postRun" <=> pc[e] = "sendResults"
           /\ After(e, pc[e]) = "ended" <=> pc[e] = "postRun"
<1>. USE DEF TypeInv, StepsInv, Running
<1>1. CASE config.version = 1
    <2>1. pc[e] \in {"extract", "load", "setCache", "block", "run", "sendResults", "postRun"}
        BY <1>1 DEF ExecutionSet
    <2>. QED BY <1>1, <2>1, OrderOfExecutionV1
<1>2. CASE config.version # 1
    <2>1. pc[e] \in {"extract", "load", "setCache", "find", "block", "preRunAgain", "run",
                     "sendResults", "postRun"}
        BY <1>2 DEF ExecutionSet
    <2>. QED BY <1>2, <2>1, OrderOfExecutionV2
<1>. QED BY <1>1, <1>2

\* What every step of the proofs below starts from.
LEMMA Basics ==
    ASSUME TypeInv
    PROVE  /\ pc \in [Tasks -> AllSteps \cup {"waiting", "ended"}]
           /\ home \in [Tasks -> SUBSET Content] /\ status \in [Tasks -> Statuses]
           /\ outcome \in Outcomes
           /\ "discovery" \in Tasks /\ \A e \in Executions : e \in Tasks /\ e # "discovery"
           /\ \A t \in Tasks : t # "discovery" => t \in Executions
           /\ StepsOf("discovery")[1] = "clone"
           /\ \A e \in Executions : StepsOf(e)[1] = "extract" /\ pc[e] # "cacheWorkspace"
<1>1. "discovery" \in Tasks /\ \A e \in Executions : e \in Tasks /\ e # "discovery"
    BY BuildAssumption DEF Tasks
<1>2. /\ StepsOf("discovery")[1] = "clone"
      /\ \A e \in Executions : StepsOf(e)[1] = "extract"
    BY <1>1 DEF StepsOf, DiscoveryStepsV1, DiscoveryStepsV2, ExecutionStepsV1, ExecutionStepsV2
<1>3. \A e \in Executions : pc[e] # "cacheWorkspace"
    BY DEF TypeInv, StepsInv, ExecutionSet
<1>. QED BY <1>1, <1>2, <1>3 DEF TypeInv, TypeOK, Outcomes, Tasks

\* Moving a task on leaves the others where they are.
LEMMA PassOfDiscovery ==
    ASSUME TypeInv, Running("discovery"), Pass("discovery")
    PROVE  /\ pc'["discovery"] = After("discovery", pc["discovery"])
           /\ \A e \in Executions : pc'[e] = pc[e]
    BY Basics, PassMoves

LEMMA EndOfDiscovery ==
    ASSUME TypeInv, NEW with, End("discovery", with)
    PROVE  /\ pc'["discovery"] = "ended" /\ outcome'["discovery"] = with
           /\ \A e \in Executions : pc'[e] = pc[e] /\ outcome'[e] = outcome[e]
    BY Basics DEF End, Go, Outcomes

LEMMA PreparedKept == ASSUME TypeInv, PreparedInv, Next PROVE PreparedInv'
<1>. USE Basics DEF PreparedInv, Prepared, taskVars, volumeVars
<1>1. ASSUME NEW t \in Tasks, StartContainer(t) PROVE PreparedInv'
    BY <1>1 DEF StartContainer, Go
<1>2. ASSUME NEW t \in Tasks, Kill(t) \/ StepFails(t) PROVE PreparedInv'
    <2>1. /\ pc' = [pc EXCEPT ![t] = "ended"] /\ home' = home /\ archived' = archived
          /\ archive' \in {archive, "torn"}
        BY <1>2 DEF Kill, StepFails, End, Go, MayTear
    <2>. QED BY <2>1
<1>3. ASSUME NEW t \in Tasks, StepSucceeds(t) \/ LoadAndValidate(t) PROVE PreparedInv'
    <2>1. /\ Running(t) /\ pc' = [pc EXCEPT ![t] = After(t, pc[t])]
          /\ home' = [home EXCEPT ![t] = home'[t]] /\ home[t] \subseteq home'[t]
          /\ pc[t] \in {"preRun", "runners"} => pc[t] \in home'[t]
          /\ pc[t] \in PlainSteps \cup {"load"}
          /\ archive' = archive /\ archived' = archived
        BY <1>3, PassMoves, ZenonT(60) DEF StepSucceeds, LoadAndValidate, Running, PlainSteps
    <2>2. CASE t = "discovery"
        BY <2>1, <2>2, DiscoveryAfter DEF PlainSteps
    <2>3. CASE t \in Executions
        BY <2>1, <2>3, ExecutionAfter DEF PlainSteps
    <2>. QED BY <2>2, <2>3
<1>4. CASE Clone
    BY <1>4, PassOfDiscovery, DiscoveryAfter DEF Clone, Running
<1>5. CASE CopyCache
    BY <1>5 DEF CopyCache, CacheGoroutine
<1>6. CASE CacheWorkspace
    BY <1>6, PassOfDiscovery, DiscoveryAfter DEF CacheWorkspace, Running
<1>7. CASE JoinFetch \/ SendSubmoduleList \/ JoinDiscoveries \/ UploadCache
    <2>1. /\ pc["discovery"] \in {"fetch", "list", "discover", "upload"}
          /\ Pass("discovery") \/ \E with : End("discovery", with)
          /\ home' = home /\ archive' = archive /\ archived' = archived
        BY <1>7 DEF JoinFetch, SendSubmoduleList, JoinDiscoveries, UploadCache, CacheGoroutine
    <2>. QED BY <2>1, PassOfDiscovery, EndOfDiscovery, DiscoveryAfter DEF Running
<1>8. CASE \/ GetCacheSASURL \/ FindCache \/ GetChangedFiles
           \/ \E k \in 1..MaxModules : DiscoverModule(k)
    BY <1>8 DEF GetCacheSASURL, FindCache, GetChangedFiles, DiscoverModule
<1>9. CASE RemoveOldVolumes
    BY <1>9 DEF RemoveOldVolumes
<1>10. ASSUME NEW e \in Executions, Execution(e) PROVE PreparedInv'
    <2>1. /\ Running(e) /\ archive' = archive /\ archived' = archived
          /\ \/ pc' = [pc EXCEPT ![e] = After(e, pc[e])]
             \/ pc' = [pc EXCEPT ![e] = "ended"] /\ home' = home
          /\ \/ pc[e] # "extract" /\ home' = home
             \/ archive = "whole" /\ home' = [home EXCEPT ![e] = archived]
             \/ pc'[e] = "ended" /\ home' = home
        BY <1>10, PassMoves DEF Execution, ExtractWorkspace, FindSubmodule, SendResults, End, Go,
            Running
    <2>2. /\ pc'["discovery"] = pc["discovery"] /\ home'["discovery"] = home["discovery"]
          /\ \A f \in Executions : f # e => pc'[f] = pc[f] /\ home'[f] = home[f]
        BY <2>1
    <2>3. pc'[e] \notin {"waiting", "extract", "ended"} => Prepared \subseteq home'[e]
        <3>1. CASE pc[e] = "extract"
            BY <2>1, <3>1
        <3>2. CASE pc[e] # "extract"
            BY <2>1, <3>2 DEF Running
        <3>. QED BY <3>1, <3>2
    <2>. QED BY <2>1, <2>2, <2>3
<1>. QED BY <1>1, <1>2, <1>3, <1>4, <1>5, <1>6, <1>7, <1>8, <1>9, <1>10 DEF Next, Discovery

LEMMA DiffKept == ASSUME DiffInv, Next PROVE DiffInv'
<1>1. CASE UNCHANGED diffVars
    BY <1>1 DEF DiffInv, diffVars
<1>2. CASE ~UNCHANGED diffVars
    <2>1. GetChangedFiles \/ \E k \in 1..MaxModules : DiscoverModule(k)
        BY <1>2 DEF Next, StartContainer, Kill, StepFails, StepSucceeds, LoadAndValidate,
            RemoveOldVolumes, Discovery, Clone, GetCacheSASURL, FindCache, CopyCache, JoinFetch,
            SendSubmoduleList, CacheWorkspace, JoinDiscoveries, UploadCache, Execution,
            ExtractWorkspace, FindSubmodule, SendResults
    <2>2. CASE GetChangedFiles
        BY <1>2, <2>2, AnsweredDiff DEF DiffInv
    <2>3. ASSUME NEW k \in 1..MaxModules, DiscoverModule(k) PROVE DiffInv'
        BY <2>3 DEF DiscoverModule, DiffInv
    <2>. QED BY <2>1, <2>2, <2>3
<1>. QED BY <1>1, <1>2

LEMMA CacheKept == ASSUME TypeInv, CacheInv, Next PROVE CacheInv'
<1>. USE Basics DEF CacheInv, UsesCache, taskVars, cacheVars, fetchVars
<1>0. config' = config /\ PastFetch' = PastFetch
    BY StepsKept DEF PastFetch
<1>1. ASSUME NEW t \in Tasks, StartContainer(t) PROVE CacheInv'
    BY <1>0, <1>1 DEF StartContainer, Go, PastFetch
<1>2. ASSUME NEW t \in Tasks, Kill(t) \/ StepFails(t) PROVE CacheInv'
    <2>1. /\ pc' = [pc EXCEPT ![t] = "ended"] /\ home' = home
          /\ UNCHANGED <<cacheVars, fetchVars>>
        BY <1>2 DEF Kill, StepFails, End, Go
    <2>2. pc'["discovery"] \in {pc["discovery"], "ended"}
        BY <2>1
    <2>. QED BY <1>0, <2>1, <2>2 DEF PastFetch
<1>3. ASSUME NEW t \in Tasks, StepSucceeds(t) \/ LoadAndValidate(t) PROVE CacheInv'
    <2>1. /\ Running(t) /\ pc' = [pc EXCEPT ![t] = After(t, pc[t])]
          /\ home'["discovery"] \subseteq home["discovery"] \cup {"preRun", "runners"}
          /\ home["discovery"] \subseteq home'["discovery"]
          /\ UNCHANGED <<cacheVars, fetchVars>>
          /\ pc[t] \notin {"fetch", "clone"}
        BY <1>3, PassMoves DEF StepSucceeds, LoadAndValidate, Running, PlainSteps
    <2>2. CASE t = "discovery"
        BY <1>0, <2>1, <2>2, DiscoveryAfter
    <2>3. CASE t \in Executions
        BY <1>0, <2>1, <2>3
    <2>. QED BY <2>2, <2>3
<1>4. CASE Clone
    <2>1. After("discovery", pc["discovery"]) \notin PastFetch
        BY <1>4, DiscoveryAfter DEF Clone, Running, PastFetch
    <2>. QED BY <1>0, <1>4, <2>1, PassOfDiscovery DEF Clone, Running
<1>5. CASE GetCacheSASURL
    BY <1>0, <1>5 DEF GetCacheSASURL, CacheGoroutine, PastFetch
<1>6. CASE FindCache
    BY <1>0, <1>6 DEF FindCache, CacheGoroutine, PastFetch
<1>7. CASE CopyCache
    <2>1. PICK got \in {"cache", "partOfCache"} :
            /\ home' = [home EXCEPT !["discovery"] = @ \cup {got}]
            /\ fetchFailed' = (fetchFailed \/ got # "cache")
        BY <1>7 DEF CopyCache
    <2>2. fetchFailed' <=> fetchFailed \/ got # "cache"
        BY <2>1, Zenon
    <2>3. home'["discovery"] = home["discovery"] \cup {got}
        BY <2>1
    <2>4. pc'["discovery"] = "fetch" /\ cacheStep' = "done" /\ cacheStep = "copy"
          /\ UNCHANGED <<sas, skipUpload>>
        BY <1>7 DEF CopyCache, CacheGoroutine
    <2>. QED BY <1>0, <2>2, <2>3, <2>4 DEF PastFetch
<1>8. CASE GetChangedFiles
    BY <1>0, <1>8 DEF GetChangedFiles, PastFetch
<1>9. CASE JoinFetch
    <2>1. CASE fetchFailed
        BY <1>0, <1>9, <2>1, EndOfDiscovery DEF JoinFetch, CacheGoroutine, PastFetch
    <2>2. CASE ~fetchFailed
        BY <1>0, <1>9, <2>2, PassOfDiscovery, DiscoveryAfter DEF JoinFetch, CacheGoroutine,
            Running
    <2>. QED BY <2>1, <2>2
<1>10. CASE SendSubmoduleList \/ CacheWorkspace \/ JoinDiscoveries \/ UploadCache
    <2>1. /\ pc["discovery"] \in {"list", "cacheWorkspace", "discover", "upload"}
          /\ Pass("discovery") \/ \E with : End("discovery", with)
          /\ UNCHANGED <<home, sas, skipUpload, fetchVars>>
        BY <1>10 DEF SendSubmoduleList, CacheWorkspace, JoinDiscoveries, UploadCache
    <2>2. pc'["discovery"] \in {After("discovery", pc["discovery"]), "ended"}
        BY <2>1, PassOfDiscovery, EndOfDiscovery DEF Running
    <2>3. pc'["discovery"] \in PastFetch => pc["discovery"] \in PastFetch
        BY <2>1, <2>2, DiscoveryAfter DEF Running, PastFetch
    <2>4. pc'["discovery"] \notin {"waiting", "clone"}
        BY <2>1, <2>2, DiscoveryAfter DEF Running
    <2>. QED BY <1>0, <2>1, <2>3, <2>4
<1>11. CASE RemoveOldVolumes \/ \E k \in 1..MaxModules : DiscoverModule(k)
    <2>1. UNCHANGED <<pc, home, cacheVars, fetchVars>>
        BY <1>11 DEF RemoveOldVolumes, DiscoverModule
    <2>. QED BY <1>0, <2>1
<1>12. ASSUME NEW e \in Executions, Execution(e) PROVE CacheInv'
    <2>1. /\ pc'["discovery"] = pc["discovery"] /\ home'["discovery"] = home["discovery"]
          /\ UNCHANGED <<cacheVars, fetchVars>>
        BY <1>12, PassMoves DEF Execution, ExtractWorkspace, FindSubmodule, SendResults, End, Go
    <2>. QED BY <1>0, <2>1
<1>. QED BY <1>1, <1>2, <1>3, <1>4, <1>5, <1>6, <1>7, <1>8, <1>9, <1>10, <1>11, <1>12
    DEF Next, Discovery

LEMMA VolumeKept == ASSUME TypeInv, VolumeInv, Next PROVE VolumeInv'
<1>. USE Basics DEF VolumeInv, taskVars, neuronVars, volumeVars
<1>1. ASSUME NEW t \in Tasks, StartContainer(t) PROVE VolumeInv'
    BY <1>1 DEF StartContainer, Go
<1>2. ASSUME NEW t \in Tasks, Kill(t) \/ StepFails(t) PROVE VolumeInv'
    <2>1. /\ pc' = [pc EXCEPT ![t] = "ended"] /\ reported' = reported /\ expired' = expired
          /\ archive' \in IF pc[t] = "cacheWorkspace" THEN {archive, "torn"} ELSE {archive}
        BY <1>2 DEF Kill, StepFails, End, Go, MayTear
    <2>2. pc[t] = "cacheWorkspace" => t = "discovery" /\ reported = {}
        OBVIOUS
    <2>. QED BY <2>1, <2>2
<1>3. ASSUME NEW t \in Tasks, StepSucceeds(t) \/ LoadAndValidate(t) PROVE VolumeInv'
    <2>1. /\ Running(t) /\ pc' = [pc EXCEPT ![t] = After(t, pc[t])]
          /\ pc[t] \in PlainSteps \cup {"load"}
          /\ UNCHANGED <<reported, archive, expired>>
        BY <1>3, PassMoves DEF StepSucceeds, LoadAndValidate, Running, PlainSteps
    <2>2. CASE t = "discovery"
        BY <2>1, <2>2, DiscoveryAfter DEF PlainSteps
    <2>3. CASE t \in Executions
        BY <2>1, <2>3
    <2>. QED BY <2>2, <2>3
<1>4. CASE CacheWorkspace
    BY <1>4, PassOfDiscovery, DiscoveryAfter DEF CacheWorkspace, Running
<1>5. CASE Clone \/ JoinFetch \/ SendSubmoduleList \/ JoinDiscoveries \/ UploadCache
    <2>1. /\ pc["discovery"] \in {"clone", "fetch", "list", "discover", "upload"}
          /\ Pass("discovery") \/ \E with : End("discovery", with)
          /\ UNCHANGED <<reported, archive, expired>>
        BY <1>5 DEF Clone, JoinFetch, SendSubmoduleList, JoinDiscoveries, UploadCache,
            CacheGoroutine
    <2>2. pc'["discovery"] \in {After("discovery", pc["discovery"]), "ended"}
        BY <2>1, PassOfDiscovery, EndOfDiscovery DEF Running
    <2>. QED BY <2>1, <2>2, DiscoveryAfter DEF Running
<1>6. CASE GetCacheSASURL \/ FindCache \/ CopyCache \/ GetChangedFiles
    BY <1>6 DEF GetCacheSASURL, FindCache, CopyCache, GetChangedFiles
<1>7. ASSUME NEW k \in 1..MaxModules, DiscoverModule(k) PROVE VolumeInv'
    BY <1>7 DEF DiscoverModule
<1>8. CASE RemoveOldVolumes
    BY <1>8 DEF RemoveOldVolumes
<1>9. ASSUME NEW e \in Executions, Execution(e) PROVE VolumeInv'
    <2>1. pc'["discovery"] = pc["discovery"] /\ UNCHANGED <<reported, archive, expired>>
        BY <1>9, PassMoves DEF Execution, ExtractWorkspace, FindSubmodule, SendResults, End, Go
    <2>. QED BY <2>1
<1>. QED BY <1>1, <1>2, <1>3, <1>4, <1>5, <1>6, <1>7, <1>8, <1>9 DEF Next, Discovery

\* findSubmodule looks at the sub modules the discovery has looked at.
LEMMA SearchesItsModules ==
    ASSUME TypeInv, config.version # 1 PROVE SearchedModules = Modules
    BY DEF TypeInv, TypeOK, Configs, SearchedModules, Modules

LEMMA ModuleKept ==
    ASSUME TypeInv, VolumeInv, ModuleInv, ReportedIsExecutable, Next
    PROVE  ModuleInv' /\ ReportedIsExecutable'
<1>. USE Basics DEF ModuleInv, ReportedIsExecutable, taskVars, executionVars, neuronVars,
        volumeVars
<1>0. /\ Modules' = Modules /\ Valid' = Valid
      /\ module \in [Executions -> Names \cup {Root}] /\ found \in [Executions -> 0..MaxModules]
      /\ reported \subseteq DOMAIN Modules
      /\ outcome \in [Tasks -> Errors \cup {"none", "nil", "killed", "missing", "notFound"}]
    BY StepsKept DEF Modules, Valid, Unique, TypeInv, TypeOK
<1>1. ASSUME NEW t \in Tasks, StartContainer(t) PROVE ModuleInv' /\ ReportedIsExecutable'
    <2>1. /\ pc[t] = "waiting" /\ pc' = [pc EXCEPT ![t] = StepsOf(t)[1]]
          /\ t # "discovery" => \E k \in reported : module' = [module EXCEPT ![t] = Modules[k]]
          /\ t = "discovery" => module' = module
          /\ UNCHANGED <<found, outcome, expired, reported>>
        BY <1>1 DEF StartContainer, Go
    <2>2. CASE t = "discovery"
        BY <1>0, <2>1, <2>2
    <2>3. CASE t # "discovery"
        <3>1. t \in Executions /\ pc'["discovery"] = pc["discovery"] /\ Valid /\ found[t] = 0
            BY <2>1, <2>3
        <3>2. \E k \in reported : module'[t] = Modules[k]
            BY <1>0, <2>1, <2>3, <3>1
        <3>3. \A e \in Executions : e # t => module'[e] = module[e] /\ pc'[e] = pc[e]
            BY <1>0, <2>1, <2>3
        <3>. QED BY <1>0, <2>1, <3>1, <3>2, <3>3
    <2>. QED BY <2>2, <2>3
<1>2. ASSUME NEW t \in Tasks, Kill(t) \/ StepFails(t) PROVE ModuleInv' /\ ReportedIsExecutable'
    <2>1. /\ pc' = [pc EXCEPT ![t] = "ended"] /\ pc[t] # "waiting"
          /\ \E with \in Errors \cup {"killed"} : outcome' = [outcome EXCEPT ![t] = with]
          /\ UNCHANGED <<module, found, expired, reported>>
        BY <1>2 DEF Kill, StepFails, End, Go, MayTear, ErrorsOf, Errors, Running, PlainSteps
    <2>2. \A e \in Executions : outcome'[e] \in {"missing", "notFound"} => outcome'[e] = outcome[e]
        BY <1>0, <2>1 DEF Errors
    <2>. QED BY <1>0, <2>1, <2>2
<1>3. ASSUME NEW t \in Tasks, StepSucceeds(t) \/ LoadAndValidate(t)
      PROVE  ModuleInv' /\ ReportedIsExecutable'
    <2>1. /\ Running(t) /\ pc' = [pc EXCEPT ![t] = After(t, pc[t])]
          /\ \A u \in Tasks : outcome'[u] \in {outcome[u], "nil"}
          /\ UNCHANGED <<module, found, expired, reported>>
          /\ pc[t] = "load" => Valid
          /\ pc[t] # "clone"
        BY <1>0, <1>3, PassMoves DEF StepSucceeds, LoadAndValidate, Running, PlainSteps
    <2>2. \A e \in Executions : outcome'[e] \in {outcome[e], "nil"}
        BY <2>1
    <2>3. CASE t = "discovery"
        <3>1. pc'["discovery"] = After("discovery", pc["discovery"])
              /\ \A e \in Executions : pc'[e] = pc[e]
            BY <2>1, <2>3
        <3>2. pc'["discovery"] \notin {"waiting", "clone", "load", "ended"} => Valid
            BY <2>1, <2>3, <3>1, DiscoveryAfter DEF Running
        <3>. QED BY <1>0, <2>1, <2>2, <3>1, <3>2
    <2>4. CASE t \in Executions
        <3>1. /\ pc'["discovery"] = pc["discovery"] /\ pc[t] # "waiting" /\ pc'[t] # "waiting"
              /\ \A e \in Executions : e # t => pc'[e] = pc[e]
            BY <2>1, <2>4, ExecutionAfter DEF Running
        <3>. QED BY <1>0, <2>1, <2>2, <3>1
    <2>. QED BY <2>3, <2>4
<1>4. CASE Clone \/ JoinFetch \/ SendSubmoduleList \/ CacheWorkspace \/ JoinDiscoveries \/ UploadCache
    <2>1. /\ pc["discovery"] \in {"clone", "fetch", "list", "cacheWorkspace", "discover", "upload"}
          /\ Pass("discovery") \/ \E with : End("discovery", with)
          /\ UNCHANGED <<module, found, expired, reported>>
        BY <1>4 DEF Clone, JoinFetch, SendSubmoduleList, CacheWorkspace, JoinDiscoveries,
            UploadCache, CacheGoroutine
    <2>2. /\ pc'["discovery"] \in {After("discovery", pc["discovery"]), "ended"}
          /\ \A e \in Executions : pc'[e] = pc[e] /\ outcome'[e] = outcome[e]
        <3>1. CASE Pass("discovery")
            BY <1>0, <2>1, <3>1, PassOfDiscovery, PassMoves DEF Running
        <3>2. ASSUME NEW with, End("discovery", with)
              PROVE  /\ pc'["discovery"] = "ended"
                     /\ \A e \in Executions : pc'[e] = pc[e] /\ outcome'[e] = outcome[e]
            BY <3>2, EndOfDiscovery
        <3>. QED BY <2>1, <3>1, <3>2
    <2>3. pc["discovery"] = "clone" => After("discovery", pc["discovery"]) = "load"
        BY <2>1, DiscoveryAfter DEF Running
    <2>. QED BY <1>0, <2>1, <2>2, <2>3
<1>5. CASE GetCacheSASURL \/ FindCache \/ CopyCache \/ GetChangedFiles
    <2>1. UNCHANGED <<pc, outcome, module, found, expired, reported>>
        BY <1>5 DEF GetCacheSASURL, FindCache, CopyCache, GetChangedFiles
    <2>. QED BY <1>0, <2>1
<1>6. ASSUME NEW k \in 1..MaxModules, DiscoverModule(k)
      PROVE  ModuleInv' /\ ReportedIsExecutable'
    <2>1. /\ UNCHANGED <<pc, outcome, module, found, expired>>
          /\ reported \subseteq reported' /\ pc["discovery"] = "discover"
        BY <1>6 DEF DiscoverModule
    <2>. QED BY <1>0, <2>1
<1>7. CASE RemoveOldVolumes
    BY <1>0, <1>7 DEF RemoveOldVolumes
<1>8. ASSUME NEW e \in Executions, ExtractWorkspace(e) \/ SendResults(e)
      PROVE  ModuleInv' /\ ReportedIsExecutable'
    <2>1. /\ Running(e) /\ UNCHANGED <<module, found, expired, reported>>
          /\ \E s : pc' = [pc EXCEPT ![e] = s]
          /\ pc'[e] # "waiting"
        BY <1>8, PassMoves, ExecutionAfter, SMTT(30) DEF ExtractWorkspace, SendResults, Running, End, Go
    <2>2. \A f \in Executions : outcome'[f] \in {outcome[f], "nil", "other", "missing"}
        BY <1>0, <1>8, PassMoves DEF ExtractWorkspace, SendResults, End
    <2>3. \A f \in Executions : outcome'[f] = "missing" => outcome[f] = "missing" \/ expired
        <3>1. CASE ExtractWorkspace(e)
            <4>1. archive # "whole" => expired
                BY <3>1 DEF ExtractWorkspace, VolumeInv
            <4>. QED BY <1>0, <3>1, <4>1, PassMoves DEF ExtractWorkspace, End
        <3>2. CASE SendResults(e)
            BY <1>0, <3>2, PassMoves DEF SendResults, End
        <3>. QED BY <1>8, <3>1, <3>2
    <2>. QED BY <1>0, <2>1, <2>2, <2>3 DEF Running
<1>9. ASSUME NEW e \in Executions, FindSubmodule(e) PROVE ModuleInv' /\ ReportedIsExecutable'
    <2>. DEFINE Matches == {k \in DOMAIN Modules : Modules[k] = module[e]}
    <2>1. pc[e] = "find" /\ UNCHANGED <<module, expired, reported>>
        BY <1>9 DEF FindSubmodule
    <2>2. config.version # 1
        BY <2>1 DEF TypeInv, StepsInv, ExecutionSet
    <2>3. PICK k \in reported : module[e] = Modules[k]
        BY <2>1
    <2>4. Valid /\ k \in Matches /\ Matches \subseteq {k}
        BY <1>0, <2>3 DEF Valid, Unique
    <2>5. Pass(e) /\ found' = [found EXCEPT ![e] = k]
        BY <1>9, <2>2, <2>4, SearchesItsModules DEF FindSubmodule
    <2>6. pc' = [pc EXCEPT ![e] = After(e, pc[e])] /\ After(e, pc[e]) \notin {"waiting"}
        BY <2>1, <2>5, PassMoves, ExecutionAfter DEF Running
    <2>7. \A f \in Executions : outcome'[f] \in {outcome[f], "nil"}
        BY <1>0, <2>5, PassMoves
    <2>. HIDE DEF Matches
    <2>8. found'[e] = k /\ \A f \in Executions : f # e => found'[f] = found[f] /\ pc'[f] = pc[f]
        BY <1>0, <2>5, <2>6
    <2>9. pc'["discovery"] = pc["discovery"] /\ pc'[e] # "waiting"
        BY <2>6
    <2>. QED BY <1>0, <2>1, <2>3, <2>7, <2>8, <2>9
<1>. QED BY <1>1, <1>2, <1>3, <1>4, <1>5, <1>6, <1>7, <1>8, <1>9 DEF Next, Discovery, Execution

LEMMA DiscoveryReportKept == ASSUME TypeInv, DiscoveryReportInv, Next PROVE DiscoveryReportInv'
<1>. DEFINE dvars == <<discoverErr, reported, discovered, total>>
            D == "discovery"
<1>. USE Basics DEF DiscoveryReportInv, taskVars, neuronVars, discoveryVars
<1>0. config' = config /\ Modules' = Modules /\ PastList' = PastList /\ config.version \in {1, 2}
    BY StepsKept, ConfigTypes DEF Modules, PastList, TypeInv, TypeOK
<1>00. outcome \in [Tasks -> Errors \cup {"none", "nil", "killed", "missing", "notFound"}]
    BY DEF Outcomes
<1>1. ASSUME NEW e \in Executions,
             \/ StartContainer(e) \/ Kill(e) \/ StepFails(e) \/ StepSucceeds(e)
             \/ LoadAndValidate(e) \/ Execution(e)
      PROVE  DiscoveryReportInv'
    <2>1. /\ pc'[D] = pc[D] /\ status'[D] = status[D] /\ outcome'[D] = outcome[D]
          /\ UNCHANGED dvars
        BY <1>00, <1>1, PassMoves DEF StartContainer, Kill, StepFails, StepSucceeds, LoadAndValidate,
            Execution, ExtractWorkspace, FindSubmodule, SendResults, End, Go, SetStatus
    <2>. QED BY <1>0, <2>1
<1>2. CASE StartContainer(D)
    BY <1>0, <1>2 DEF StartContainer, Go, PastList
<1>3. CASE Kill(D) \/ StepFails(D)
    <2>1. /\ pc'[D] = "ended" /\ outcome'[D] # "nil" /\ UNCHANGED dvars
        BY <1>00, <1>3 DEF Kill, StepFails, End, Go, ErrorsOf, Errors
    <2>. QED BY <1>0, <2>1 DEF PastList
<1>4. CASE StepSucceeds(D) \/ LoadAndValidate(D)
    <2>1. /\ pc[D] \in PlainSteps \cup {"load"} /\ Running(D) /\ Pass(D) /\ UNCHANGED dvars
          /\ config.version # 1 /\ pc[D] = "load" => status'[D] = "passed"
          /\ pc[D] # "load" => status' = status
        BY <1>0, <1>4 DEF StepSucceeds, LoadAndValidate, Running, PlainSteps, SetStatus
    <2>2. pc'[D] = After(D, pc[D]) /\ After(D, pc[D]) # "ended" /\ outcome' = outcome
        BY <2>1, PassOfDiscovery, PassMoves, DiscoveryAfter DEF PlainSteps
    <2>3. pc'[D] # "upload" /\ (pc'[D] \in PastList => pc[D] \in PastList)
        BY <2>1, <2>2, DiscoveryAfter DEF PlainSteps
    <2>4. outcome[D] # "nil" /\ pc[D] \notin {"waiting", "clone", "ended"}
        BY <2>1 DEF Running, PlainSteps
    <2>. QED BY <1>0, <2>1, <2>2, <2>3, <2>4
<1>5. CASE Clone \/ CacheWorkspace
    <2>1. /\ pc[D] \in {"clone", "cacheWorkspace"} /\ Pass(D) /\ UNCHANGED <<status, dvars>>
        BY <1>5 DEF Clone, CacheWorkspace
    <2>2. pc'[D] = After(D, pc[D]) /\ After(D, pc[D]) # "ended" /\ outcome' = outcome
        BY <2>1, PassOfDiscovery, PassMoves, DiscoveryAfter DEF Running
    <2>3. pc'[D] # "upload" /\ (pc'[D] \in PastList => pc[D] \in PastList)
        BY <2>1, <2>2, DiscoveryAfter DEF Running
    <2>4. pc[D] = "clone" => pc'[D] = "load"
        BY <2>1, <2>2, DiscoveryAfter DEF Running
    <2>. QED BY <1>0, <2>1, <2>2, <2>3, <2>4
<1>6. CASE JoinFetch \/ SendSubmoduleList
    <2>1. /\ pc[D] \in {"fetch", "list"} /\ UNCHANGED <<status, discoverErr, reported, discovered>>
          /\ \/ Pass(D) /\ (pc[D] = "list" => total' = Len(Modules))
                       /\ (pc[D] # "list" => total' = total)
             \/ End(D, "other")
        BY <1>6 DEF JoinFetch, SendSubmoduleList, CacheGoroutine
    <2>2. CASE End(D, "other")
        BY <1>0, <2>1, <2>2, EndOfDiscovery DEF PastList
    <2>3. CASE Pass(D) /\ (pc[D] = "list" => total' = Len(Modules))
                      /\ (pc[D] # "list" => total' = total)
        <3>1. pc'[D] = After(D, pc[D]) /\ After(D, pc[D]) # "ended" /\ outcome' = outcome
            BY <2>1, <2>3, PassOfDiscovery, PassMoves, DiscoveryAfter DEF Running
        <3>2. pc'[D] # "upload" /\ (pc'[D] \in PastList => pc[D] = "list")
            BY <2>1, <3>1, DiscoveryAfter DEF Running, PastList
        <3>. QED BY <1>0, <2>1, <2>3, <3>1, <3>2
    <2>. QED BY <2>1, <2>2, <2>3
<1>7. CASE JoinDiscoveries
    <2>1. /\ pc[D] = "discover" /\ discovered = DOMAIN Modules /\ UNCHANGED <<status, dvars>>
        BY <1>7 DEF JoinDiscoveries
    <2>2. CASE discoverErr = {}
        <3>1. pc'[D] = "upload" /\ outcome' = outcome
            BY <1>7, <2>1, <2>2, PassOfDiscovery, PassMoves, DiscoveryAfter
            DEF JoinDiscoveries, Running
        <3>. QED BY <1>0, <2>1, <2>2, <3>1 DEF PastList
    <2>3. CASE discoverErr # {}
        <3>1. PICK x \in discoverErr : End(D, x)
            BY <1>7, <2>3 DEF JoinDiscoveries
        <3>2. x # "nil"
            BY <3>1 DEF TypeInv, TypeOK, Errors
        <3>. QED BY <1>0, <2>1, <3>1, <3>2, EndOfDiscovery DEF PastList
    <2>. QED BY <2>2, <2>3
<1>8. CASE UploadCache
    <2>1. /\ pc[D] = "upload" /\ UNCHANGED dvars
          /\ \/ Pass(D) /\ (config.version = 1 => status'[D] = "passed")
                       /\ (config.version # 1 => status' = status)
             \/ End(D, "other") /\ status' = status
        BY <1>8 DEF UploadCache, SetStatus
    <2>2. CASE End(D, "other")
        BY <1>0, <2>1, <2>2, EndOfDiscovery DEF PastList
    <2>3. CASE Pass(D) /\ (config.version = 1 => status'[D] = "passed")
                      /\ (config.version # 1 => status' = status)
        <3>1. pc'[D] = "ended"
            BY <2>1, <2>3, PassOfDiscovery, DiscoveryAfter DEF Running
        <3>2. total = Len(Modules) /\ reported = DOMAIN Modules
            BY <2>1 DEF PastList
        <3>3. status'[D] = "passed"
            BY <2>1, <2>3
        <3>. QED BY <1>0, <2>1, <3>1, <3>2, <3>3 DEF PastList
    <2>. QED BY <2>1, <2>2, <2>3
<1>9. CASE GetCacheSASURL \/ FindCache \/ CopyCache \/ GetChangedFiles \/ RemoveOldVolumes
    <2>1. UNCHANGED <<pc, status, outcome, dvars>>
        BY <1>9 DEF GetCacheSASURL, FindCache, CopyCache, GetChangedFiles, RemoveOldVolumes
    <2>. QED BY <1>0, <2>1
<1>10. ASSUME NEW k \in 1..MaxModules, DiscoverModule(k) PROVE DiscoveryReportInv'
    <2>1. /\ pc[D] = "discover" /\ UNCHANGED <<pc, status, outcome, total>>
          /\ discovered' = discovered \cup {k}
          /\ (discoverErr' = discoverErr /\ reported' = reported \cup {k}) \/ discoverErr' # {}
        BY <1>10 DEF DiscoverModule
    <2>. QED BY <1>0, <2>1
<1>. QED
    BY <1>1, <1>2, <1>3, <1>4, <1>5, <1>6, <1>7, <1>8, <1>9, <1>10 DEF Next, Discovery, Tasks

LEMMA ExecutionReportKept == ASSUME TypeInv, ExecutionReportInv, Next PROVE ExecutionReportInv'
<1>. USE Basics DEF ExecutionReportInv, taskVars, neuronVars
<1>00. outcome \in [Tasks -> Errors \cup {"none", "nil", "killed", "missing", "notFound"}]
    BY DEF Outcomes
<1>1. ASSUME NEW t \in Tasks, StartContainer(t) \/ Kill(t) \/ StepFails(t) PROVE ExecutionReportInv'
    <2>1. /\ \A e \in Executions : e # t => /\ pc'[e] = pc[e] /\ status'[e] = status[e]
                                         /\ outcome'[e] = outcome[e]
          /\ pc[t] # "ended" /\ pc'[t] # "postRun" /\ results' = results
          /\ outcome'[t] = "nil" => outcome[t] = "nil"
        BY <1>00, <1>1 DEF StartContainer, Kill, StepFails, End, Go, SetStatus, ErrorsOf, Errors,
            PlainSteps, Running
    <2>. QED BY <2>1
<1>2. ASSUME NEW t \in Tasks, StepSucceeds(t) \/ LoadAndValidate(t) PROVE ExecutionReportInv'
    <2>1. /\ pc[t] \in PlainSteps \cup {"load"} /\ Running(t) /\ Pass(t) /\ results' = results
          /\ \A e \in Executions : status'[e] = status[e]
        BY <1>2 DEF StepSucceeds, LoadAndValidate, Running, PlainSteps, SetStatus
    <2>2. /\ pc' = [pc EXCEPT ![t] = After(t, pc[t])]
          /\ outcome' = IF After(t, pc[t]) = "ended" THEN [outcome EXCEPT ![t] = "nil"] ELSE outcome
        BY <2>1, PassMoves
    <2>3. \A e \in Executions : e # t => pc'[e] = pc[e] /\ outcome'[e] = outcome[e]
        BY <1>00, <2>2
    <2>4. ASSUME t \in Executions
          PROVE  /\ pc'[t] # "postRun"
                 /\ outcome'[t] = "nil" => \/ pc[t] = "postRun" /\ pc'[t] = "ended"
                                          \/ outcome[t] = "nil"
        BY <1>00, <2>1, <2>2, <2>4, ExecutionAfter DEF PlainSteps
    <2>. QED BY <2>1, <2>3, <2>4 DEF Running
<1>3. CASE Discovery
    <2>1. /\ results' = results
          /\ \A e \in Executions : status'[e] = status[e]
          /\ \/ UNCHANGED <<pc, outcome>>
             \/ Pass("discovery")
             \/ \E with : End("discovery", with)
        BY <1>3 DEF Discovery, Clone, GetCacheSASURL, FindCache, CopyCache, GetChangedFiles,
            JoinFetch, SendSubmoduleList, CacheWorkspace, DiscoverModule, JoinDiscoveries,
            UploadCache, SetStatus
    <2>2. \A e \in Executions : pc'[e] = pc[e] /\ outcome'[e] = outcome[e]
        BY <1>00, <2>1, PassMoves, EndOfDiscovery
    <2>. QED BY <2>1, <2>2
<1>4. CASE RemoveOldVolumes
    BY <1>4 DEF RemoveOldVolumes
<1>5. ASSUME NEW e \in Executions, ExtractWorkspace(e) \/ FindSubmodule(e) PROVE ExecutionReportInv'
    <2>1. /\ pc[e] \in {"extract", "find"} /\ UNCHANGED <<status, results>>
          /\ Pass(e) \/ \E with \in {"missing", "notFound"} : End(e, with)
        BY <1>5 DEF ExtractWorkspace, FindSubmodule
    <2>2. \A f \in Executions : f # e => pc'[f] = pc[f] /\ outcome'[f] = outcome[f]
        BY <1>00, <2>1, PassMoves DEF End, Go
    <2>3. pc'[e] # "postRun" /\ (outcome'[e] = "nil" => outcome[e] = "nil")
        BY <1>00, <2>1, PassMoves, ExecutionAfter DEF End, Go, Running
    <2>. QED BY <2>1, <2>2, <2>3
<1>6. ASSUME NEW e \in Executions, SendResults(e) PROVE ExecutionReportInv'
    <2>1. /\ pc[e] = "sendResults"
          /\ \/ /\ results' = results \cup {e} /\ Pass(e)
                /\ \E s \in Statuses \ {"running"} : status' = [status EXCEPT ![e] = s]
             \/ results \subseteq results' /\ End(e, "other") /\ status' = status
        BY <1>6 DEF SendResults, SetStatus
    <2>2. \A f \in Executions : f # e => /\ pc'[f] = pc[f] /\ outcome'[f] = outcome[f]
                                       /\ status'[f] = status[f] /\ (f \in results => f \in results')
        BY <1>00, <2>1, PassMoves DEF End, Go
    <2>3. \/ e \in results' /\ status'[e] # "running" /\ outcome' = outcome
          \/ pc'[e] = "ended" /\ outcome'[e] = "other"
        BY <1>00, <2>1, PassMoves, ExecutionAfter DEF End, Go, Running
    <2>. QED BY <2>1, <2>2, <2>3
<1>. QED BY <1>1, <1>2, <1>3, <1>4, <1>5, <1>6 DEF Next, Execution

-----------------------------------------------------------------------------
(* The theorems.                                                           *)

BuildInv ==
    /\ TypeInv
    /\ PreparedInv
    /\ CacheInv
    /\ VolumeInv /\ ModuleInv /\ ReportedIsExecutable
    /\ DiscoveryReportInv /\ ExecutionReportInv
    /\ DiffInv

LEMMA InitHolds == ASSUME Init PROVE BuildInv
<1>. USE TypeInit, Basics DEF Init
<1>1. PreparedInv /\ VolumeInv
    BY DEF PreparedInv, VolumeInv
<1>2. CacheInv
    BY DEF CacheInv, PastFetch
<1>3. ModuleInv /\ ReportedIsExecutable
    BY DEF ModuleInv, ReportedIsExecutable
<1>4. DiscoveryReportInv /\ ExecutionReportInv
    BY DEF DiscoveryReportInv, ExecutionReportInv, PastList
<1>5. DiffInv
    BY DEF DiffInv
<1>. QED BY <1>1, <1>2, <1>3, <1>4, <1>5 DEF BuildInv

LEMMA InductiveInvariant == Spec => []BuildInv
<1>1. BuildInv /\ [Next]_vars => BuildInv'
    <2>. SUFFICES ASSUME BuildInv, [Next]_vars PROVE BuildInv'
        OBVIOUS
    <2>1. CASE Next
        BY <2>1, TypeKept, PreparedKept, CacheKept, VolumeKept, ModuleKept, DiscoveryReportKept,
            ExecutionReportKept, DiffKept DEF BuildInv
    <2>2. CASE UNCHANGED vars
        <3>. USE <2>2 DEF BuildInv, vars, taskVars, executionVars, cacheVars, fetchVars, diffVars,
            discoveryVars, neuronVars, volumeVars
        <3>1. TypeInv' /\ Modules' = Modules /\ PastList' = PastList /\ PastFetch' = PastFetch
              /\ Valid' = Valid
            BY DEF TypeInv, TypeOK, StepsInv, MountedInv, Running, Modules, PastList, PastFetch,
                Valid, Unique
        <3>2. PreparedInv' /\ CacheInv' /\ VolumeInv' /\ DiffInv'
            BY <3>1 DEF PreparedInv, CacheInv, VolumeInv, DiffInv, UsesCache
        <3>3. ModuleInv' /\ ReportedIsExecutable'
            BY <3>1 DEF ModuleInv, ReportedIsExecutable
        <3>4. DiscoveryReportInv' /\ ExecutionReportInv'
            BY <3>1 DEF DiscoveryReportInv, ExecutionReportInv
        <3>. QED BY <3>1, <3>2, <3>3, <3>4
    <2>. QED BY <2>1, <2>2
<1>. QED BY <1>1, InitHolds, PTL DEF Spec

(* The tests of a sub module run in what its discovery has prepared,       *)
(* whatever was killed, failed or removed on the way.                      *)
THEOREM ExecutionsHaveTheirBuild == Spec => []ExecutionHasBuild
<1>1. BuildInv => ExecutionHasBuild
    BY DEF BuildInv, PreparedInv, Prepared, ExecutionHasBuild
<1>. QED BY <1>1, InductiveInvariant, PTL

(* An execution neuron could ask for finds its workspace unless the cron   *)
(* has removed it, and finds the sub module whose tests were reported.     *)
THEOREM ExecutionsFindTheirModule == Spec => []ReportedIsExecutable
<1>1. BuildInv => ReportedIsExecutable
    BY DEF BuildInv
<1>. QED BY <1>1, InductiveInvariant, PTL

(* The upload of the cache is left out only after all of it was unpacked.  *)
THEOREM SkippedCacheIsWhole == Spec => []CacheHitIsWhole
<1>1. BuildInv => CacheHitIsWhole
    BY DEF BuildInv, CacheInv, CacheHitIsWhole, PastFetch
<1>. QED BY <1>1, InductiveInvariant, PTL

(* A driver that returns no error has told neuron all it should have.      *)
THEOREM SuccessTellsNeuron == Spec => []SuccessMeansReported
<1>1. BuildInv => SuccessMeansReported
    BY Basics DEF BuildInv, DiscoveryReportInv, ExecutionReportInv, SuccessMeansReported
<1>. QED BY <1>1, InductiveInvariant, PTL

\* What the diff of a sub module keeps of a file that was shown.
LEMMA ChangeIsKept ==
    ASSUME DiffInv, NEW dir, NEW d \in SubmoduleBasedDiffs(diff, dir), NEW p \in shown
    PROVE  \/ TrimPrefix(p, dir) \in Reported(d)
           \/ \E q \in DOMAIN diff : /\ TrimPrefix(q, dir) = TrimPrefix(p, dir)
                                     /\ diff[q] = FileRemoved
<1>. DEFINE name == TrimPrefix(p, dir)
<1>1. p \in DOMAIN diff
    BY DEF DiffInv
<1>2. /\ name \in DOMAIN d
      /\ \E q \in DOMAIN diff : TrimPrefix(q, dir) = name /\ d[name] = diff[q]
    BY <1>1 DEF SubmoduleBasedDiffs
<1>3. PICK q \in DOMAIN diff : TrimPrefix(q, dir) = name /\ d[name] = diff[q]
    BY <1>2
<1>4. CASE d[name] = FileRemoved
    BY <1>3, <1>4
<1>5. CASE d[name] # FileRemoved
    BY <1>2, <1>5 DEF Reported
<1>. QED BY <1>4, <1>5

(* Any answer of either provider, read to any point: a file it shows as    *)
(* added or modified reaches the runner, or every test counts as impacted; *)
(* it is lost only behind a removed file of the same name.                 *)
THEOREM ChangesReachTheRunner == Spec => []ChangedReachesRunner
<1>1. ASSUME BuildInv PROVE ChangedReachesRunner
    <2>. SUFFICES ASSUME NEW dir, NEW d \in SubmoduleBasedDiffs(diff, dir)
                  PROVE  \/ AllImpacted(d, diffExists)
                         \/ \A p \in shown :
                                \/ TrimPrefix(p, dir) \in Reported(d)
                                \/ \E q \in DOMAIN diff :
                                        /\ TrimPrefix(q, dir) = TrimPrefix(p, dir)
                                        /\ diff[q] = FileRemoved
        BY DEF ChangedReachesRunner
    <2>. QED BY <1>1, ChangeIsKept DEF BuildInv
<1>. QED BY <1>1, InductiveInvariant, PTL

=============================================================================
