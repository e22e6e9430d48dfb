---------------------------- MODULE SynapseJobs ----------------------------
(***************************************************************************)
(* The jobs synapse runs in docker containers: processTask and             *)
(* processAbortBuild of pkg/synapse/synapse.go, each call in a goroutine   *)
(* of its own, Initiate and the two kill functions of                      *)
(* pkg/runner/docker/docker.go, and the end of InitiateConnection.         *)
(*                                                                         *)
(* The slice RunningContainers and the map buildAbortMap are shared by all *)
(* of them without a lock: an update of the slice is a load and a store,   *)
(* and a write of the map that another access overlaps may end the process *)
(* (Go's "concurrent map" fatal error).  Nothing is modelled of the        *)
(* containers once synapse has ended.                                      *)
(***************************************************************************)
EXTENDS Sequences, SequencesExt, FiniteSets, Naturals

CONSTANTS
    Jobs,         \* tasks the server sends, each once
    Builds,
    BuildOf,      \* the build-id label of a job
    NucleusJobs,  \* the jobs whose pod type is nucleus; the others are coverage
    Aborts,       \* bound: the builds the server aborts
    NoJob

ASSUME JobsAssumption ==
    /\ BuildOf \in [Jobs -> Builds]
    /\ NucleusJobs \subseteq Jobs /\ Aborts \subseteq Builds
    /\ NoJob \notin Jobs

VARIABLES
    task,               \* control state of a job's goroutines
    loaded,             \* RunningContainers as a job has loaded it
    result,             \* the ContainerStatus a job has got: done or not
    jobStatus,          \* the status runAndUpdateJobStatus has decided on
    sent,               \* what a job has put on MsgChan
    container,          \* state of a job's container
    exitZero,           \* whether the container's exit code is zero
    RunningContainers,
    buildAbortMap,
    abort,              \* control state of the goroutine that aborts a build
    target,             \* the job whose container it stops
    shutdown,           \* KillRunningDocker at the end of InitiateConnection
    killList,           \* the containers it has still to destroy
    crashed,            \* the runtime ended the process
    stoppedByAbort      \* history: <<j, s>>: an abort stopped the running container of
                        \* job j, not yet reported, when its status was s

taskVars == <<task, loaded, result, jobStatus, sent>>
containerVars == <<container, exitZero, stoppedByAbort>>
abortVars == <<buildAbortMap, abort, target>>
shutdownVars == <<shutdown, killList>>
vars == <<task, loaded, result, jobStatus, sent, container, exitZero, RunningContainers,
          buildAbortMap, abort, target, shutdown, killList, crashed,
          stoppedByAbort>>

JobStatuses == {"completed", "failed", "aborted"}
Reports == {"started", "release"} \cup JobStatuses

TypeOK ==
    /\ task \in [Jobs -> {"idle", "create", "start", "load", "store", "logs", "wait",
                          "unload", "unstore", "release", "report", "put", "done"}]
    /\ loaded \in [Jobs -> Seq(Jobs)]
    /\ result \in [Jobs -> {"none", "done", "failed"}]
    /\ jobStatus \in [Jobs -> {"none"} \cup JobStatuses]
    /\ sent \in [Jobs -> Seq(Reports)]
    /\ container \in [Jobs -> {"none", "created", "running", "exited", "removed"}]
    /\ exitZero \in [Jobs -> BOOLEAN]
    /\ RunningContainers \in Seq(Jobs)
    /\ buildAbortMap \subseteq Builds
    /\ abort \in [Builds -> {"none", "mark", "kill", "stop", "done"}]
    /\ target \in [Builds -> Jobs \cup {NoJob}]
    /\ shutdown \in {"no", "killing", "exited"}
    /\ killList \in Seq(Jobs)
    /\ crashed \in BOOLEAN
    /\ stoppedByAbort \subseteq Jobs \X ({"none"} \cup JobStatuses)

Init ==
    /\ task = [j \in Jobs |-> "idle"]
    /\ loaded = [j \in Jobs |-> <<>>]
    /\ result = [j \in Jobs |-> "none"]
    /\ jobStatus = [j \in Jobs |-> "none"]
    /\ sent = [j \in Jobs |-> <<>>]
    /\ container = [j \in Jobs |-> "none"]
    /\ exitZero = [j \in Jobs |-> FALSE]
    /\ RunningContainers = <<>>
    /\ buildAbortMap = {}
    /\ abort = [b \in Builds |-> "none"]
    /\ target = [b \in Builds |-> NoJob]
    /\ shutdown = "no" /\ killList = <<>> /\ crashed = FALSE
    /\ stoppedByAbort = {}

Alive == ~crashed /\ shutdown # "exited"

-----------------------------------------------------------------------------
(* A job.  writeMessageToBuffer puts a report on MsgChan, and waits for    *)
(* room if it is full.                                                     *)

Goto(j, state) == task' = [task EXCEPT ![j] = state]
Report(j, r) == sent' = [sent EXCEPT ![j] = Append(@, r)]

\* Initiate sends its status and ends.
Finish(j, status) == result' = [result EXCEPT ![j] = status]

\* processTask: a nucleus job is reported as started before anything is done.
ProcessTask(j) ==
    /\ task[j] = "idle"
    /\ IF j \in NucleusJobs THEN Report(j, "started") ELSE UNCHANGED sent
    /\ Goto(j, "create")
    /\ UNCHANGED <<loaded, result, jobStatus, containerVars, RunningContainers>>

\* Create makes the volume, pulls the image, makes the container and copies
\* the secrets into it.
CreateSucceeds(j) ==
    /\ task[j] = "create"
    /\ container' = [container EXCEPT ![j] = "created"]
    /\ Goto(j, "start")
    /\ UNCHANGED <<loaded, result, jobStatus, sent, exitZero, stoppedByAbort, RunningContainers>>

\* It may fail before the container is made or after, and then leaves it.
CreateFails(j) ==
    /\ task[j] = "create"
    /\ \E c \in {"none", "created"} : container' = [container EXCEPT ![j] = c]
    /\ Finish(j, "failed")
    /\ Goto(j, "release")
    /\ UNCHANGED <<loaded, jobStatus, sent, exitZero, stoppedByAbort, RunningContainers>>

StartSucceeds(j) ==
    /\ task[j] = "start"
    /\ container' = [container EXCEPT ![j] = "running"]
    /\ Goto(j, "load")
    /\ UNCHANGED <<loaded, result, jobStatus, sent, exitZero, stoppedByAbort, RunningContainers>>

\* Mutant of StartFails: Run goes on after the error.
StartFailsAndRuns(j) ==
    /\ task[j] = "start"
    /\ Finish(j, "failed")
    /\ Goto(j, "load")
    /\ UNCHANGED <<loaded, jobStatus, sent, containerVars, RunningContainers>>

StartFails(j) ==
    /\ task[j] = "start"
    /\ Finish(j, "failed")
    /\ Goto(j, "release")
    /\ UNCHANGED <<loaded, jobStatus, sent, containerVars, RunningContainers>>

\* d.RunningContainers = append(d.RunningContainers, r), and after the run
\* d.RunningContainers = removeContainerID(d.RunningContainers, r).
LoadContainers(j) ==
    /\ task[j] \in {"load", "unload"}
    /\ loaded' = [loaded EXCEPT ![j] = RunningContainers]
    /\ Goto(j, IF task[j] = "load" THEN "store" ELSE "unstore")
    /\ UNCHANGED <<result, jobStatus, sent, containerVars, RunningContainers>>

AppendContainer(j) ==
    /\ task[j] = "store"
    /\ RunningContainers' = Append(loaded[j], j)
    /\ loaded' = [loaded EXCEPT ![j] = <<>>]
    /\ Goto(j, "logs")
    /\ UNCHANGED <<result, jobStatus, sent, containerVars>>

RemoveContainerID(j) ==
    /\ task[j] = "unstore"
    /\ RunningContainers' = RemoveFirst(loaded[j], j)
    /\ loaded' = [loaded EXCEPT ![j] = <<>>]
    /\ Goto(j, "release")
    /\ UNCHANGED <<result, jobStatus, sent, containerVars>>

\* writeLogs follows the container's output to its end, or fails earlier.
\* ContainerWait then answers when the container is REMOVED, and with an error
\* if it has been removed by then.
WriteLogs(j) ==
    /\ task[j] = "logs"
    /\ IF container[j] = "removed"
       THEN Finish(j, "failed") /\ Goto(j, "unload")
       ELSE Goto(j, "wait") /\ UNCHANGED result
    /\ UNCHANGED <<loaded, jobStatus, sent, containerVars, RunningContainers>>

\* Mutant of ExitStatus: the status code is not looked at.
AnyExitIsDone(j) == "done"

\* What ContainerWait's exit status says of the job.
ExitStatus(j) == IF exitZero[j] THEN "done" ELSE "failed"

\* Mutant of WaitForCompletion: only the exit is waited for.
WaitForExit(j) ==
    /\ task[j] = "wait"
    /\ container[j] = "exited"
    /\ Finish(j, ExitStatus(j))
    /\ Goto(j, "unload")
    /\ UNCHANGED <<loaded, jobStatus, sent, containerVars, RunningContainers>>

WaitForCompletion(j) ==
    /\ task[j] = "wait"
    /\ container[j] = "removed"
    /\ Finish(j, ExitStatus(j))
    /\ Goto(j, "unload")
    /\ UNCHANGED <<loaded, jobStatus, sent, containerVars, RunningContainers>>

\* The call to the docker daemon fails, whatever the container does.
WaitFails(j) ==
    /\ task[j] = "wait"
    /\ Finish(j, "failed")
    /\ Goto(j, "unload")
    /\ UNCHANGED <<loaded, jobStatus, sent, containerVars, RunningContainers, abortVars,
                   shutdownVars, crashed>>

SendResourceUpdates(j) ==
    /\ task[j] = "release"
    /\ Report(j, "release")
    /\ Goto(j, "report")
    /\ UNCHANGED <<loaded, result, jobStatus, containerVars, RunningContainers>>

\* Mutants of JobStatus: a failure outdoes an abort; the container's status is
\* sent as it is.
FailureFirst(j) ==
    IF result[j] = "failed" THEN "failed"
    ELSE IF BuildOf[j] \in buildAbortMap THEN "aborted" ELSE "completed"
RawStatus(j) == IF BuildOf[j] \in buildAbortMap THEN "aborted" ELSE result[j]

\* runAndUpdateJobStatus: an abort of the build outdoes the container's status.
JobStatus(j) ==
    IF BuildOf[j] \in buildAbortMap THEN "aborted"
    ELSE IF result[j] = "done" THEN "completed" ELSE "failed"

\* The map is read ...
CheckAborted(j) ==
    /\ task[j] = "report"
    /\ jobStatus' = [jobStatus EXCEPT ![j] = JobStatus(j)]
    /\ Goto(j, "put")
    /\ UNCHANGED <<loaded, result, sent, containerVars, RunningContainers>>

\* ... and the status sent as it was then, however long MsgChan is full.
SendJobStatus(j) ==
    /\ task[j] = "put"
    /\ Report(j, jobStatus[j])
    /\ Goto(j, "done")
    /\ UNCHANGED <<loaded, result, jobStatus, containerVars, RunningContainers>>

JobStep(j) ==
    /\ \/ ProcessTask(j) \/ CreateSucceeds(j) \/ CreateFails(j)
       \/ StartSucceeds(j) \/ StartFails(j) \/ LoadContainers(j)
       \/ AppendContainer(j) \/ WriteLogs(j) \/ WaitForCompletion(j)
       \/ RemoveContainerID(j) \/ SendResourceUpdates(j) \/ CheckAborted(j)
       \/ SendJobStatus(j)
    /\ UNCHANGED <<abortVars, shutdownVars, crashed>>

-----------------------------------------------------------------------------
(* Docker.                                                                 *)

\* ContainerStop: a running container exits, with any code.
Stop(j) ==
    IF container[j] = "running"
    THEN /\ container' = [container EXCEPT ![j] = "exited"]
         /\ \E zero \in BOOLEAN : exitZero' = [exitZero EXCEPT ![j] = zero]
    ELSE UNCHANGED <<container, exitZero>>

\* The program in the container ends.
ContainerExits(j) ==
    /\ container[j] = "running"
    /\ Stop(j)
    /\ UNCHANGED <<stoppedByAbort, taskVars, RunningContainers, abortVars,
                   shutdownVars, crashed>>

\* AutoRemove.
ContainerRemoved(j) ==
    /\ container[j] = "exited"
    /\ container' = [container EXCEPT ![j] = "removed"]
    /\ UNCHANGED <<exitZero, stoppedByAbort, taskVars, RunningContainers,
                   abortVars, shutdownVars, crashed>>

-----------------------------------------------------------------------------
(* processAbortBuild.  (Bound: one abort a build.)                         *)

\* buildAbortMap[buildID] = true: the write begins ...
AbortBuild(b) ==
    /\ b \in Aborts /\ abort[b] = "none"
    /\ abort' = [abort EXCEPT ![b] = "mark"]
    /\ UNCHANGED <<buildAbortMap, target, containerVars, crashed>>

\* ... and ends.
MarkAborted(b) ==
    /\ abort[b] = "mark"
    /\ buildAbortMap' = buildAbortMap \cup {b}
    /\ abort' = [abort EXCEPT ![b] = "kill"]
    /\ UNCHANGED <<target, containerVars, crashed>>

\* Jobs that read the map, and other writes of it.
MapAccesses(b) ==
    {j \in Jobs : task[j] = "report"} \cup {x \in Builds \ {b} : abort[x] = "mark"}

ConcurrentMapAccess(b) ==
    /\ abort[b] = "mark"
    /\ MapAccesses(b) # {}
    /\ crashed' = TRUE
    /\ UNCHANGED <<abortVars, containerVars>>

\* The place of the build's first container, 0 if there is none.
FirstOf(b) ==
    SelectInSeq(RunningContainers, LAMBDA r : BuildOf[r] = b)

\* KillContainerForBuildID takes the first container of the build ...
KillContainerForBuildID(b) ==
    /\ abort[b] = "kill"
    /\ IF FirstOf(b) = 0
       THEN abort' = [abort EXCEPT ![b] = "done"] /\ UNCHANGED target
       ELSE /\ abort' = [abort EXCEPT ![b] = "stop"]
            /\ target' = [target EXCEPT ![b] = RunningContainers[FirstOf(b)]]
    /\ UNCHANGED <<buildAbortMap, containerVars, crashed>>

\* ... and destroys it.
DestroyForAbort(b) ==
    /\ abort[b] = "stop"
    /\ Stop(target[b])
    /\ stoppedByAbort' = IF container[target[b]] = "running" /\ task[target[b]] # "done"
                         THEN stoppedByAbort \cup {<<target[b], jobStatus[target[b]]>>}
                         ELSE stoppedByAbort
    /\ abort' = [abort EXCEPT ![b] = "done"]
    /\ UNCHANGED <<buildAbortMap, target, crashed>>

AbortStep(b) ==
    /\ \/ AbortBuild(b) \/ MarkAborted(b) \/ ConcurrentMapAccess(b)
       \/ KillContainerForBuildID(b) \/ DestroyForAbort(b)
    /\ UNCHANGED <<taskVars, RunningContainers, shutdownVars>>

-----------------------------------------------------------------------------
(* The end of InitiateConnection.                                          *)

\* KillRunningDocker ranges over the slice it finds ...
KillRunningDocker ==
    /\ shutdown = "no"
    /\ shutdown' = "killing"
    /\ killList' = RunningContainers
    /\ UNCHANGED containerVars

Destroy ==
    /\ shutdown = "killing" /\ killList # <<>>
    /\ Stop(Head(killList))
    /\ killList' = Tail(killList)
    /\ UNCHANGED <<shutdown, stoppedByAbort>>

\* ... and when main has nothing more to wait for, the process ends.
Exit ==
    /\ shutdown = "killing" /\ killList = <<>>
    /\ shutdown' = "exited"
    /\ UNCHANGED <<killList, containerVars>>

ShutdownStep ==
    /\ KillRunningDocker \/ Destroy \/ Exit
    /\ UNCHANGED <<taskVars, RunningContainers, abortVars, crashed>>

Next ==
    /\ Alive
    /\ \/ \E j \in Jobs : \/ JobStep(j) \/ WaitFails(j)
                       \/ ContainerExits(j) \/ ContainerRemoved(j)
       \/ \E b \in Builds : AbortStep(b)
       \/ ShutdownStep

Spec == Init /\ [][Next]_vars

\* Every goroutine moves on, MsgChan having room again if it was full, and docker
\* removes what has exited.  Nothing makes the server send a task, a container
\* exit, a log end early or a wait fail.
CanProceed(j) == task[j] # "idle" /\ ~(task[j] = "logs" /\ container[j] = "running")

Fairness ==
    \A j \in Jobs :
        /\ WF_vars(Alive /\ CanProceed(j) /\ JobStep(j))
        /\ WF_vars(Alive /\ ContainerRemoved(j))

FairSpec == Spec /\ Fairness

-----------------------------------------------------------------------------
(* What the jobs promise.                                                  *)

Status(j) == IF task[j] = "done" THEN Last(sent[j]) ELSE "none"

\* The server is told that a job has completed only if its container ran to
\* its end, left exit code zero and is gone, whatever happens between the exit,
\* the removal and the two calls that look at them.
CompletedMeansExitZero ==
    \A j \in Jobs : Status(j) = "completed" => container[j] = "removed" /\ exitZero[j]

\* A job whose container is stopped on behalf of an abort, before the job has
\* been reported, is reported as aborted, however soon the container's end is
\* noticed: the mark is made before the kill.  The only other report is "failed",
\* of a job that had made up its mind before the stop: its wait had failed, and
\* the abort came while it was about to put its status on MsgChan.
StoppedMeansAborted ==
    \A x \in stoppedByAbort : Status(x[1]) \in {"none", "aborted"} \/ x[2] = "failed"

\* Only containers that have been started are ever tracked, each once, whatever
\* updates of the slice overlap: a kill is never aimed at a job that is still
\* being created.
TrackedOnce ==
    /\ \A i, k \in DOMAIN RunningContainers :
            RunningContainers[i] = RunningContainers[k] => i = k
    /\ \A i \in DOMAIN RunningContainers :
            container[RunningContainers[i]] \in {"running", "exited", "removed"}

\* Once its container has ended, a job is reported to the server with its
\* resources released, whether the removal comes before or after the wait.
\* (Both are final, so that "eventually always" says as much as "leads to".)
EndedJobIsReported ==
    <>[](\A j \in Jobs :
            container[j] \in {"exited", "removed"} => Status(j) # "none" \/ ~Alive)

\* runner.go:67, "KillContainerForBuildID kills synapse container which is
\* running for given buildID".  The code breaks this: it stops only the first
\* container of the build, and only one that is already tracked.
AbortKillsContainer ==
    [][\A b \in Builds : abort[b] # "done" /\ abort'[b] = "done" =>
            \A j \in Jobs : BuildOf[j] = b => container'[j] # "running"]_vars

=============================================================================
