--------------------------- MODULE SynapseJobsProofs ---------------------------
(***************************************************************************)
(* Proofs about SynapseJobs, for any jobs of any builds, any aborts and a  *)
(* shutdown at any moment: what a job's last report says agrees with what  *)
(* became of its container and its build, and the slice of the tracked     *)
(* containers, whose updates overlap, stays a list of distinct started     *)
(* ones.                                                                   *)
(***************************************************************************)
EXTENDS SynapseJobs, WellFoundedInduction, TLAPS

-----------------------------------------------------------------------------
(* removeContainerID and the search of KillContainerForBuildID.            *)

LEMMA MinIsLeast ==
    ASSUME NEW S \in SUBSET Nat, S # {}
    PROVE  Min(S) \in S /\ \A m \in S : Min(S) <= m
<1>. DEFINE R == OpToRel(<, Nat)
<1>1. \A m, n \in S : <<m, n>> \notin R => n <= m
    BY DEF OpToRel
<1>2. IsWellFoundedOn(R, Nat)
    BY NatLessThanWellFounded
<1>. HIDE DEF R
<1>3. \E n \in S : \A m \in S : <<m, n>> \notin R
    BY <1>2, WFMin
<1>4. \E n \in S : \A m \in S : n <= m
    BY <1>1, <1>3
<1>. QED BY <1>4 DEF Min

\* The search finds a container of the build, or there is none.
LEMMA FirstOfFound ==
    ASSUME NEW b, RunningContainers \in Seq(Jobs)
    PROVE  FirstOf(b) # 0 =>
              /\ FirstOf(b) \in 1 .. Len(RunningContainers)
              /\ BuildOf[RunningContainers[FirstOf(b)]] = b
<1>. DEFINE I == {i \in 1 .. Len(RunningContainers) : BuildOf[RunningContainers[i]] = b}
<1>1. I # {} => Min(I) \in I
    <2>1. I \in SUBSET Nat
        OBVIOUS
    <2>. HIDE DEF I
    <2>. QED BY <2>1, MinIsLeast
<1>. QED BY <1>1 DEF FirstOf, SelectInSeq

Distinct(q) == \A i, k \in 1 .. Len(q) : q[i] = q[k] => i = k

\* One element goes, the others keep their order.
LEMMA RemoveFirstShape ==
    ASSUME NEW X, NEW s \in Seq(X), NEW e
    PROVE  \/ RemoveFirst(s, e) = s
           \/ \E k \in 1 .. Len(s) :
                /\ RemoveFirst(s, e) \in Seq(X)
                /\ Len(RemoveFirst(s, e)) = Len(s) - 1
                /\ \A i \in 1 .. Len(s) - 1 :
                      RemoveFirst(s, e)[i] = IF i < k THEN s[i] ELSE s[i + 1]
<1>. DEFINE I == {i \in 1 .. Len(s) : s[i] = e}
            k == Min(I)
            head == SubSeq(s, 1, k - 1)
            tail == SubSeq(s, k + 1, Len(s))
            r == head \o tail
<1>. SUFFICES ASSUME I # {}
              PROVE  \E n \in 1 .. Len(s) :
                        /\ r \in Seq(X) /\ Len(r) = Len(s) - 1
                        /\ \A i \in 1 .. Len(s) - 1 : r[i] = IF i < n THEN s[i] ELSE s[i + 1]
    BY DEF RemoveFirst, RemoveAt, SelectInSeq
<1>1. k \in 1 .. Len(s)
    <2>1. I \in SUBSET Nat /\ I \subseteq 1 .. Len(s)
        OBVIOUS
    <2>. HIDE DEF I
    <2>. QED BY <2>1, MinIsLeast
<1>. HIDE DEF k, I
<1>2. /\ head \in Seq(X) /\ Len(head) = k - 1
      /\ \A i \in 1 .. k - 1 : head[i] = s[i]
    BY <1>1
<1>3. /\ tail \in Seq(X) /\ Len(tail) = Len(s) - k
      /\ \A i \in 1 .. Len(s) - k : tail[i] = s[k + i]
    BY <1>1
<1>. HIDE DEF head, tail
<1>4. r \in Seq(X) /\ Len(r) = Len(head) + Len(tail)
    BY <1>2, <1>3
<1>5. ASSUME NEW i \in 1 .. Len(s) - 1
      PROVE  r[i] = IF i < k THEN s[i] ELSE s[i + 1]
    <2>1. r[i] = IF i <= Len(head) THEN head[i] ELSE tail[i - Len(head)]
        BY <1>1, <1>2, <1>3
    <2>2. CASE i < k
        BY <1>1, <1>2, <2>1, <2>2
    <2>3. CASE ~(i < k)
        <3>1. i - Len(head) \in 1 .. Len(s) - k /\ k + (i - Len(head)) = i + 1 /\ ~(i <= Len(head))
            BY <1>1, <1>2, <2>3
        <3>. QED BY <1>3, <2>1, <2>3, <3>1
    <2>. QED BY <2>2, <2>3
<1>6. Len(r) = Len(s) - 1
    BY <1>1, <1>2, <1>3, <1>4
<1>. QED BY <1>1, <1>4, <1>5, <1>6

\* What removeContainerID leaves was in the slice before, and is in it once.
LEMMA RemoveFirstKeeps ==
    ASSUME NEW X, NEW s \in Seq(X), NEW e, Distinct(s)
    PROVE  /\ RemoveFirst(s, e) \in Seq(X)
           /\ Distinct(RemoveFirst(s, e))
           /\ \A i \in 1 .. Len(RemoveFirst(s, e)) :
                 \E n \in 1 .. Len(s) : RemoveFirst(s, e)[i] = s[n]
<1>1. CASE RemoveFirst(s, e) = s
    BY <1>1
<1>2. CASE RemoveFirst(s, e) # s
    <2>. DEFINE r == RemoveFirst(s, e)
    <2>1. PICK k \in 1 .. Len(s) :
            /\ r \in Seq(X) /\ Len(r) = Len(s) - 1
            /\ \A i \in 1 .. Len(s) - 1 : r[i] = IF i < k THEN s[i] ELSE s[i + 1]
        BY <1>2, RemoveFirstShape
    <2>. HIDE DEF r
    <2>2. \A i \in 1 .. Len(r) : r[i] = s[IF i < k THEN i ELSE i + 1]
        BY <2>1
    <2>3. ASSUME NEW i \in 1 .. Len(r), NEW n \in 1 .. Len(r), r[i] = r[n]
          PROVE  i = n
        <3>. DEFINE from(m) == IF m < k THEN m ELSE m + 1
        <3>1. /\ from(i) \in 1 .. Len(s) /\ r[i] = s[from(i)]
              /\ from(n) \in 1 .. Len(s) /\ r[n] = s[from(n)]
            BY <2>1, <2>2
        <3>2. from(i) = from(n) => i = n
            BY <2>1
        <3>. HIDE DEF from
        <3>3. from(i) = from(n)
            BY <2>3, <3>1 DEF Distinct
        <3>. QED BY <3>2, <3>3
    <2>4. \A i \in 1 .. Len(r) : \E n \in 1 .. Len(s) : r[i] = s[n]
        BY <2>1, <2>2
    <2>. QED BY <2>1, <2>3, <2>4 DEF r, Distinct
<1>. QED BY <1>1, <1>2

-----------------------------------------------------------------------------
(* The invariant.                                                          *)

Started == {"running", "exited", "removed"}

\* A job past the append of Run, whose container was started before it.
OnRecord ==
    {j \in Jobs : /\ task[j] \in {"logs", "wait", "unload", "unstore", "release", "report", "put",
                               "done"}
                  /\ container[j] \in Started}

\* An update of the slice that another one overlaps may lose a job, or bring
\* one back; it never makes one up and never enters one a second time.
SliceInv ==
    /\ \A j \in Jobs :
          task[j] \in {"load", "store", "logs", "wait", "unload", "unstore"} =>
              container[j] \in Started
    /\ Distinct(RunningContainers)
    /\ \A i \in 1 .. Len(RunningContainers) : RunningContainers[i] \in OnRecord
    /\ \A j \in Jobs : Distinct(loaded[j])
    /\ \A j \in Jobs : \A i \in 1 .. Len(loaded[j]) : loaded[j][i] \in OnRecord

\* The last report is the status runAndUpdateJobStatus has decided on, and
\* "completed" that of a container that has left with code zero.
ReportInv ==
    /\ \A j \in Jobs : result[j] = "done" =>
          /\ task[j] \in {"unload", "unstore", "release", "report", "put", "done"}
          /\ container[j] = "removed" /\ exitZero[j]
    /\ \A j \in Jobs : jobStatus[j] # "none" <=> task[j] \in {"put", "done"}
    /\ \A j \in Jobs : jobStatus[j] = "completed" => result[j] = "done"
    /\ \A j \in Jobs : Status(j) \in {"none", jobStatus[j]}

\* A build is marked before its containers are looked for, and what is stopped
\* for it is a job of that build, which then finds the mark unless it has
\* looked before.
AbortInv ==
    /\ \A b \in Builds : abort[b] \in {"kill", "stop", "done"} => b \in buildAbortMap
    /\ \A b \in Builds : abort[b] = "stop" => target[b] \in Jobs /\ BuildOf[target[b]] = b
    /\ \A x \in stoppedByAbort :
          /\ BuildOf[x[1]] \in buildAbortMap
          /\ jobStatus[x[1]] \in {"none", "aborted"} \/ x[2] = "failed"

JobsInv == TypeOK /\ SliceInv /\ ReportInv /\ AbortInv

LEMMA JobsInitial == Init => JobsInv
<1>. SUFFICES ASSUME Init PROVE TypeOK /\ SliceInv /\ ReportInv /\ AbortInv
    BY DEF JobsInv
<1>. USE JobsAssumption DEF Init
<1>1. <<>> \in Seq(Jobs) /\ <<>> \in Seq(Reports) /\ Len(<<>>) = 0
    OBVIOUS
<1>2. TypeOK
    <2>1. /\ loaded \in [Jobs -> Seq(Jobs)] /\ sent \in [Jobs -> Seq(Reports)]
          /\ RunningContainers \in Seq(Jobs) /\ killList \in Seq(Jobs)
        BY <1>1
    <2>2. /\ task \in [Jobs -> {"idle", "create", "start", "load", "store", "logs", "wait",
                                "unload", "unstore", "release", "report", "put", "done"}]
          /\ jobStatus \in [Jobs -> {"none"} \cup JobStatuses]
          /\ result \in [Jobs -> {"none", "done", "failed"}]
          /\ container \in [Jobs -> {"none", "created", "running", "exited", "removed"}]
        BY ZenonT(20)
    <2>3. /\ exitZero \in [Jobs -> BOOLEAN] /\ buildAbortMap \subseteq Builds
          /\ abort \in [Builds -> {"none", "mark", "kill", "stop", "done"}]
          /\ target \in [Builds -> Jobs \cup {NoJob}]
          /\ shutdown \in {"no", "killing", "exited"} /\ crashed \in BOOLEAN
          /\ stoppedByAbort \subseteq Jobs \X ({"none"} \cup JobStatuses)
        BY ZenonT(20)
    <2>. HIDE DEF Init
    <2>. QED BY <2>1, <2>2, <2>3 DEF TypeOK
<1>3. SliceInv
    BY <1>1 DEF SliceInv, Distinct
<1>4. ReportInv /\ AbortInv
    BY DEF ReportInv, AbortInv, Status
<1>. QED BY <1>2, <1>3, <1>4

-----------------------------------------------------------------------------
(* The types.                                                              *)

LEMMA JobTypes ==
    ASSUME TypeOK, ReportInv, NEW j \in Jobs, JobStep(j) \/ WaitFails(j), Distinct(loaded[j])
    PROVE  TypeOK'
<1>1. UNCHANGED <<abortVars, shutdownVars, crashed, stoppedByAbort, exitZero>>
    BY DEF JobStep, WaitFails, ProcessTask, CreateSucceeds, CreateFails, StartSucceeds, StartFails,
        LoadContainers, AppendContainer, WriteLogs, WaitForCompletion, RemoveContainerID,
        SendResourceUpdates, CheckAborted, SendJobStatus, containerVars
<1>. SUFFICES
        /\ task' \in [Jobs -> {"idle", "create", "start", "load", "store", "logs", "wait",
                               "unload", "unstore", "release", "report", "put", "done"}]
        /\ loaded' \in [Jobs -> Seq(Jobs)]
        /\ result' \in [Jobs -> {"none", "done", "failed"}]
        /\ jobStatus' \in [Jobs -> {"none"} \cup JobStatuses]
        /\ sent' \in [Jobs -> Seq(Reports)]
        /\ container' \in [Jobs -> {"none", "created", "running", "exited", "removed"}]
        /\ RunningContainers' \in Seq(Jobs)
    BY <1>1 DEF TypeOK, abortVars, shutdownVars
<1>. USE DEF TypeOK, Goto, Finish, containerVars
<1>2. CASE ProcessTask(j) \/ SendResourceUpdates(j) \/ SendJobStatus(j)
    <2>1. sent' \in [Jobs -> Seq(Reports)]
        <3>1. jobStatus[j] \in Reports \/ ~SendJobStatus(j)
            BY DEF ReportInv, SendJobStatus, Reports
        <3>2. sent' = sent \/ \E r \in Reports : sent' = [sent EXCEPT ![j] = Append(@, r)]
            BY <1>2, <3>1 DEF ProcessTask, SendResourceUpdates, SendJobStatus, Report, Reports
        <3>3. \A r \in Reports : Append(sent[j], r) \in Seq(Reports)
            OBVIOUS
        <3>. QED BY <3>2, <3>3
    <2>. QED BY <1>2, <2>1 DEF ProcessTask, SendResourceUpdates, SendJobStatus
<1>7. CASE CheckAborted(j)
    <2>1. JobStatus(j) \in JobStatuses
        BY DEF JobStatus, JobStatuses
    <2>. QED BY <1>7, <2>1 DEF CheckAborted
<1>3. CASE CreateSucceeds(j) \/ CreateFails(j) \/ StartSucceeds(j) \/ StartFails(j)
    <2>1. CASE CreateFails(j)
        <3>1. container' \in {[container EXCEPT ![j] = c] : c \in {"none", "created"}}
            BY <2>1 DEF CreateFails
        <3>. QED BY <2>1, <3>1 DEF CreateFails
    <2>. QED BY <1>3, <2>1 DEF CreateSucceeds, StartSucceeds, StartFails
<1>4. CASE LoadContainers(j)
    <2>1. loaded' \in [Jobs -> Seq(Jobs)]
        BY <1>4 DEF LoadContainers
    <2>2. task' \in {[task EXCEPT ![j] = "store"], [task EXCEPT ![j] = "unstore"]}
        BY <1>4 DEF LoadContainers
    <2>. QED BY <1>4, <2>1, <2>2 DEF LoadContainers
<1>5. CASE AppendContainer(j) \/ RemoveContainerID(j)
    <2>1. RunningContainers' \in Seq(Jobs)
        <3>1. loaded[j] \in Seq(Jobs)
            OBVIOUS
        <3>2. RemoveFirst(loaded[j], j) \in Seq(Jobs)
            BY <3>1, RemoveFirstKeeps
        <3>3. Append(loaded[j], j) \in Seq(Jobs)
            BY <3>1
        <3>. QED BY <1>5, <3>2, <3>3 DEF AppendContainer, RemoveContainerID
    <2>2. <<>> \in Seq(Jobs)
        OBVIOUS
    <2>3. loaded' \in [Jobs -> Seq(Jobs)]
        BY <1>5, <2>2 DEF AppendContainer, RemoveContainerID
    <2>. QED BY <1>5, <2>1, <2>3 DEF AppendContainer, RemoveContainerID
<1>6. CASE WriteLogs(j) \/ WaitForCompletion(j) \/ WaitFails(j)
    BY <1>6 DEF WriteLogs, WaitForCompletion, WaitFails, ExitStatus
<1>. QED BY <1>2, <1>3, <1>4, <1>5, <1>6, <1>7 DEF JobStep

LEMMA StopTypes ==
    ASSUME TypeOK, NEW j \in Jobs, Stop(j)
    PROVE  /\ container' \in [Jobs -> {"none", "created", "running", "exited", "removed"}]
           /\ exitZero' \in [Jobs -> BOOLEAN]
    BY DEF TypeOK, Stop

LEMMA DockerTypes ==
    ASSUME TypeOK, NEW j \in Jobs, ContainerExits(j) \/ ContainerRemoved(j)
    PROVE  TypeOK'
<1>1. CASE ContainerExits(j)
    BY <1>1, StopTypes DEF TypeOK, ContainerExits, taskVars, abortVars, shutdownVars
<1>2. CASE ContainerRemoved(j)
    <2>1. container' \in [Jobs -> {"none", "created", "running", "exited", "removed"}]
        BY <1>2 DEF TypeOK, ContainerRemoved
    <2>. QED BY <1>2, <2>1 DEF TypeOK, ContainerRemoved, taskVars, abortVars, shutdownVars
<1>. QED BY <1>1, <1>2

LEMMA AbortTypes ==
    ASSUME TypeOK, AbortInv, NEW b \in Builds, AbortStep(b)
    PROVE  TypeOK'
<1>. USE DEF TypeOK, taskVars, abortVars, shutdownVars, containerVars
<1>1. UNCHANGED <<taskVars, RunningContainers, shutdownVars>>
    BY DEF AbortStep
<1>2. CASE AbortBuild(b) \/ MarkAborted(b) \/ ConcurrentMapAccess(b)
    BY <1>1, <1>2 DEF AbortBuild, MarkAborted, ConcurrentMapAccess
<1>3. CASE KillContainerForBuildID(b)
    <2>1. FirstOf(b) # 0 => RunningContainers[FirstOf(b)] \in Jobs
        BY FirstOfFound
    <2>. QED BY <1>1, <1>3, <2>1 DEF KillContainerForBuildID
<1>4. CASE DestroyForAbort(b)
    <2>1. target[b] \in Jobs
        BY <1>4 DEF DestroyForAbort, AbortInv
    <2>. QED BY <1>1, <1>4, <2>1, StopTypes DEF DestroyForAbort
<1>. QED BY <1>2, <1>3, <1>4 DEF AbortStep

LEMMA ShutdownTypes == ASSUME TypeOK, ShutdownStep PROVE TypeOK'
<1>. USE DEF TypeOK, taskVars, abortVars, shutdownVars, containerVars
<1>1. UNCHANGED <<taskVars, RunningContainers, abortVars, crashed>>
    BY DEF ShutdownStep
<1>2. CASE KillRunningDocker \/ Exit
    BY <1>1, <1>2 DEF KillRunningDocker, Exit
<1>3. CASE Destroy
    <2>1. Head(killList) \in Jobs /\ Tail(killList) \in Seq(Jobs)
        BY <1>3 DEF Destroy
    <2>. QED BY <1>1, <1>3, <2>1, StopTypes DEF Destroy
<1>. QED BY <1>2, <1>3 DEF ShutdownStep

-----------------------------------------------------------------------------
(* The steps of a job.                                                     *)

\* A job that is on record stays so, whoever moves; the slice and what the jobs
\* have loaded of it need to be looked at only where they change.
LEMMA OnRecordGrows ==
    ASSUME JobsInv, NEW j \in Jobs,
           JobStep(j) \/ WaitFails(j)
    PROVE  OnRecord \subseteq OnRecord'
<1>1. \A k \in Jobs \ {j} : task'[k] = task[k] /\ container'[k] = container[k]
    BY DEF JobsInv, TypeOK, JobStep, WaitFails, ProcessTask, CreateSucceeds, CreateFails,
        StartSucceeds, StartFails, LoadContainers, AppendContainer, WriteLogs, WaitForCompletion,
        RemoveContainerID, SendResourceUpdates, CheckAborted, SendJobStatus, containerVars, Goto
<1>2. j \in OnRecord => j \in OnRecord'
    BY DEF JobsInv, TypeOK, JobStep, WaitFails, ProcessTask, CreateSucceeds, CreateFails,
        StartSucceeds, StartFails, LoadContainers, AppendContainer, WriteLogs, WaitForCompletion,
        RemoveContainerID, SendResourceUpdates, CheckAborted, SendJobStatus, containerVars, Goto,
        OnRecord
<1>. QED BY <1>1, <1>2 DEF OnRecord

LEMMA JobSlice ==
    ASSUME JobsInv, NEW j \in Jobs, JobStep(j) \/ WaitFails(j)
    PROVE  SliceInv'
<1>. DEFINE StartedWhen(k) == task[k] \in {"load", "store", "logs", "wait", "unload", "unstore"}
                                  => container[k] \in Started
<1>1. \A k \in Jobs : StartedWhen(k)'
    BY DEF JobsInv, TypeOK, SliceInv, Started, JobStep, WaitFails, ProcessTask, CreateSucceeds,
        CreateFails, StartSucceeds, StartFails, LoadContainers, AppendContainer, WriteLogs,
        WaitForCompletion, RemoveContainerID, SendResourceUpdates, CheckAborted, SendJobStatus,
        containerVars, Goto
<1>. HIDE DEF StartedWhen
<1>2. OnRecord \subseteq OnRecord'
    BY OnRecordGrows
<1>3. CASE LoadContainers(j)
    <2>1. RunningContainers' = RunningContainers /\ loaded' = [loaded EXCEPT ![j] = RunningContainers]
        BY <1>3 DEF LoadContainers
    <2>2. \A k \in Jobs : loaded'[k] \in {loaded[k], RunningContainers}
        BY <2>1 DEF JobsInv, TypeOK
    <2>. QED BY <1>1, <1>2, <2>1, <2>2 DEF JobsInv, SliceInv, StartedWhen
<1>4. CASE AppendContainer(j)
    <2>1. RunningContainers' = Append(loaded[j], j) /\ loaded' = [loaded EXCEPT ![j] = <<>>]
        BY <1>4 DEF AppendContainer
    <2>2. \A k \in Jobs : loaded'[k] = loaded[k] \/ Len(loaded'[k]) = 0
        BY <2>1 DEF JobsInv, TypeOK
    <2>3. j \in OnRecord' /\ j \notin OnRecord
        BY <1>4 DEF AppendContainer, OnRecord, JobsInv, TypeOK, SliceInv, Goto, containerVars
    <2>4. /\ loaded[j] \in Seq(Jobs) /\ Distinct(loaded[j])
          /\ \A i \in 1 .. Len(loaded[j]) : loaded[j][i] \in OnRecord
        BY DEF JobsInv, TypeOK, SliceInv
    <2>5. /\ Len(RunningContainers') = Len(loaded[j]) + 1
          /\ \A i \in 1 .. Len(loaded[j]) + 1 :
                RunningContainers'[i] = IF i <= Len(loaded[j]) THEN loaded[j][i] ELSE j
        BY <2>1, <2>4
    <2>6. \A i \in 1 .. Len(RunningContainers') : RunningContainers'[i] \in OnRecord'
        BY <1>2, <2>3, <2>4, <2>5
    <2>7. Distinct(RunningContainers')
        BY <2>3, <2>4, <2>5 DEF Distinct
    <2>8. \A k \in Jobs : Distinct(loaded'[k]) /\ \A i \in 1 .. Len(loaded'[k]) : loaded'[k][i] \in OnRecord'
        BY <1>2, <2>2 DEF JobsInv, SliceInv, Distinct
    <2>. QED BY <1>1, <2>6, <2>7, <2>8 DEF SliceInv, StartedWhen
<1>5. CASE RemoveContainerID(j)
    <2>1. /\ RunningContainers' = RemoveFirst(loaded[j], j)
          /\ loaded' = [loaded EXCEPT ![j] = <<>>]
        BY <1>5 DEF RemoveContainerID
    <2>2. \A k \in Jobs : loaded'[k] = loaded[k] \/ Len(loaded'[k]) = 0
        BY <2>1 DEF JobsInv, TypeOK
    <2>3. /\ loaded[j] \in Seq(Jobs) /\ Distinct(loaded[j])
          /\ \A i \in 1 .. Len(loaded[j]) : loaded[j][i] \in OnRecord
        BY DEF JobsInv, TypeOK, SliceInv
    <2>4. /\ Distinct(RunningContainers')
          /\ \A i \in 1 .. Len(RunningContainers') :
                \E n \in 1 .. Len(loaded[j]) : RunningContainers'[i] = loaded[j][n]
        BY <2>1, <2>3, RemoveFirstKeeps
    <2>5. \A i \in 1 .. Len(RunningContainers') : RunningContainers'[i] \in OnRecord'
        BY <1>2, <2>3, <2>4
    <2>6. \A k \in Jobs : Distinct(loaded'[k]) /\ \A i \in 1 .. Len(loaded'[k]) : loaded'[k][i] \in OnRecord'
        BY <1>2, <2>2 DEF JobsInv, SliceInv, Distinct
    <2>. QED BY <1>1, <2>4, <2>5, <2>6 DEF SliceInv, StartedWhen
<1>6. CASE UNCHANGED <<loaded, RunningContainers>>
    BY <1>1, <1>2, <1>6 DEF JobsInv, SliceInv, StartedWhen
<1>. QED BY <1>3, <1>4, <1>5, <1>6 DEF JobStep, WaitFails, ProcessTask, CreateSucceeds,
        CreateFails, StartSucceeds, StartFails, WriteLogs, WaitForCompletion, SendResourceUpdates,
        CheckAborted, SendJobStatus

\* A job decides on its status once, from what the map says then, and its last
\* report is what it has decided on.
LEMMA JobStatusStep ==
    ASSUME JobsInv, NEW j \in Jobs, JobStep(j) \/ WaitFails(j)
    PROVE  /\ \A k \in Jobs \ {j} : Status(k)' = Status(k) /\ jobStatus'[k] = jobStatus[k]
           /\ Status(j)' \in {"none", jobStatus'[j]}
           /\ \/ jobStatus'[j] = jobStatus[j]
              \/ jobStatus'[j] = JobStatus(j) /\ result' = result
<1>1. CASE SendJobStatus(j)
    <2>1. /\ sent' = [sent EXCEPT ![j] = Append(@, jobStatus[j])]
          /\ task' = [task EXCEPT ![j] = "done"] /\ jobStatus' = jobStatus /\ task[j] = "put"
        BY <1>1 DEF SendJobStatus, Report, Goto
    <2>2. sent[j] \in Seq(Reports) /\ jobStatus[j] \in Reports
        BY <2>1 DEF JobsInv, TypeOK, ReportInv, Reports
    <2>3. Last(Append(sent[j], jobStatus[j])) = jobStatus[j]
        BY <2>2 DEF Last
    <2>4. sent'[j] = Append(sent[j], jobStatus[j]) /\ task'[j] = "done"
        BY <2>1 DEF JobsInv, TypeOK
    <2>5. \A k \in Jobs \ {j} : sent'[k] = sent[k] /\ task'[k] = task[k]
        BY <2>1 DEF JobsInv, TypeOK
    <2>. QED BY <2>1, <2>3, <2>4, <2>5 DEF Status
<1>2. CASE ~SendJobStatus(j)
    <2>1. task'[j] # "done"
        BY <1>2 DEF JobsInv, TypeOK, JobStep, WaitFails, ProcessTask, CreateSucceeds, CreateFails,
            StartSucceeds, StartFails, LoadContainers, AppendContainer, WriteLogs,
            WaitForCompletion, RemoveContainerID, SendResourceUpdates, CheckAborted, Goto
    <2>2. \A k \in Jobs \ {j} : task'[k] = task[k] /\ sent'[k] = sent[k]
        BY <1>2 DEF JobsInv, TypeOK, JobStep, WaitFails, ProcessTask, CreateSucceeds, CreateFails,
            StartSucceeds, StartFails, LoadContainers, AppendContainer, WriteLogs,
            WaitForCompletion, RemoveContainerID, SendResourceUpdates, CheckAborted, Goto, Report
    <2>3. \/ jobStatus' = jobStatus
          \/ jobStatus' = [jobStatus EXCEPT ![j] = JobStatus(j)] /\ result' = result
        BY <1>2 DEF JobStep, WaitFails, ProcessTask, CreateSucceeds, CreateFails,
            StartSucceeds, StartFails, LoadContainers, AppendContainer, WriteLogs,
            WaitForCompletion, RemoveContainerID, SendResourceUpdates, CheckAborted
    <2>. QED BY <2>1, <2>2, <2>3 DEF Status, JobsInv, TypeOK
<1>. QED BY <1>1, <1>2

LEMMA JobReport ==
    ASSUME JobsInv, NEW j \in Jobs, JobStep(j) \/ WaitFails(j)
    PROVE  ReportInv' /\ AbortInv'
<1>. DEFINE Left(k) == result[k] = "done" =>
                /\ task[k] \in {"unload", "unstore", "release", "report", "put", "done"}
                /\ container[k] = "removed" /\ exitZero[k]
            Decided(k) ==
                /\ jobStatus[k] # "none" <=> task[k] \in {"put", "done"}
                /\ jobStatus[k] = "completed" => result[k] = "done"
<1>1. \A k \in Jobs \ {j} : /\ task'[k] = task[k] /\ sent'[k] = sent[k] /\ result'[k] = result[k]
                            /\ container'[k] = container[k] /\ exitZero'[k] = exitZero[k]
    BY DEF JobsInv, TypeOK, JobStep, WaitFails, ProcessTask, CreateSucceeds, CreateFails,
        StartSucceeds, StartFails, LoadContainers, AppendContainer, WriteLogs, WaitForCompletion,
        RemoveContainerID, SendResourceUpdates, CheckAborted, SendJobStatus, Goto, Report, Finish,
        containerVars
<1>2. Left(j)'
    BY DEF JobsInv, TypeOK, ReportInv, JobStep, WaitFails, ProcessTask, CreateSucceeds, CreateFails,
        StartSucceeds, StartFails, LoadContainers, AppendContainer, WriteLogs, WaitForCompletion,
        RemoveContainerID, SendResourceUpdates, CheckAborted, SendJobStatus, Goto, Finish,
        ExitStatus, containerVars
<1>3. Decided(j)'
    <2>1. /\ task \in [Jobs -> {"idle", "create", "start", "load", "store", "logs", "wait", "unload",
                               "unstore", "release", "report", "put", "done"}]
          /\ jobStatus \in [Jobs -> {"none"} \cup JobStatuses]
          /\ Decided(j)
        BY DEF JobsInv, TypeOK, ReportInv
    <2>2. CASE CheckAborted(j) \/ SendJobStatus(j)
        BY <2>1, <2>2 DEF CheckAborted, SendJobStatus, JobStatus, Goto
    <2>3. CASE ~(CheckAborted(j) \/ SendJobStatus(j))
        <3>1. /\ jobStatus' = jobStatus /\ task[j] \notin {"put", "done"}
              /\ \E to : task' = [task EXCEPT ![j] = to] /\ to \notin {"put", "done"}
            BY <2>3, ZenonT(60) DEF JobStep, WaitFails, ProcessTask, CreateSucceeds, CreateFails,
                StartSucceeds, StartFails, LoadContainers, AppendContainer, WriteLogs,
                WaitForCompletion, RemoveContainerID, SendResourceUpdates, Goto
        <3>. QED BY <2>1, <3>1
    <2>. QED BY <2>2, <2>3
<1>4. \A k \in Jobs : Left(k)' /\ Decided(k)'
    BY <1>1, <1>2, <1>3, JobStatusStep DEF JobsInv, ReportInv
<1>5. ReportInv'
    BY <1>4, JobStatusStep DEF JobsInv, ReportInv
<1>6. UNCHANGED <<abortVars, stoppedByAbort>>
    BY DEF JobStep, WaitFails, ProcessTask, CreateSucceeds, CreateFails, StartSucceeds, StartFails,
        LoadContainers, AppendContainer, WriteLogs, WaitForCompletion, RemoveContainerID,
        SendResourceUpdates, CheckAborted, SendJobStatus, containerVars
<1>7. ASSUME NEW x \in stoppedByAbort
      PROVE  jobStatus'[x[1]] \in {"none", "aborted"} \/ x[2] = "failed"
    <2>1. x[1] \in Jobs
        BY DEF JobsInv, TypeOK
    <2>. QED BY <2>1, JobStatusStep DEF JobsInv, AbortInv, JobStatus
<1>8. AbortInv'
    BY <1>6, <1>7 DEF JobsInv, AbortInv, abortVars
<1>. QED BY <1>5, <1>8

-----------------------------------------------------------------------------
(* The steps of docker, of an abort and of the shutdown.                   *)

\* What a stop or a removal changes: a started container stays a started one, a
\* removed one is left alone.
LEMMA ContainersMove ==
    ASSUME JobsInv,
           UNCHANGED <<task, loaded, result, jobStatus, sent, RunningContainers>>,
           \A k \in Jobs :
              /\ container[k] \in Started => container'[k] \in Started
              /\ container[k] = "removed" =>
                    container'[k] = "removed" /\ exitZero'[k] = exitZero[k]
    PROVE  SliceInv' /\ ReportInv' /\ \A k \in Jobs : Status(k)' = Status(k)
<1>1. OnRecord \subseteq OnRecord'
    BY DEF OnRecord
<1>2. SliceInv'
    BY <1>1 DEF JobsInv, SliceInv
<1>3. \A k \in Jobs : Status(k)' = Status(k)
    BY DEF Status
<1>4. ReportInv'
    BY <1>3 DEF JobsInv, ReportInv
<1>. QED BY <1>2, <1>3, <1>4

LEMMA StopMoves ==
    ASSUME TypeOK, NEW j \in Jobs, Stop(j)
    PROVE  \A k \in Jobs :
              /\ container[k] \in Started => container'[k] \in Started
              /\ container[k] = "removed" =>
                    container'[k] = "removed" /\ exitZero'[k] = exitZero[k]
    BY DEF TypeOK, Stop, Started

LEMMA DockerKeeps ==
    ASSUME JobsInv, NEW j \in Jobs, ContainerExits(j) \/ ContainerRemoved(j)
    PROVE  JobsInv'
<1>1. \A k \in Jobs :
         /\ container[k] \in Started => container'[k] \in Started
         /\ container[k] = "removed" => container'[k] = "removed" /\ exitZero'[k] = exitZero[k]
    BY StopMoves DEF JobsInv, TypeOK, Started, ContainerExits, ContainerRemoved
<1>2. UNCHANGED <<task, loaded, result, jobStatus, sent, RunningContainers, abortVars, stoppedByAbort>>
    BY DEF ContainerExits, ContainerRemoved, taskVars
<1>3. SliceInv' /\ ReportInv' /\ \A k \in Jobs : Status(k)' = Status(k)
    BY <1>1, <1>2, ContainersMove
<1>4. AbortInv'
    BY <1>2, <1>3 DEF JobsInv, AbortInv, abortVars, TypeOK
<1>. QED BY <1>3, <1>4, DockerTypes DEF JobsInv

LEMMA AbortKeeps ==
    ASSUME JobsInv, NEW b \in Builds, AbortStep(b)
    PROVE  JobsInv'
<1>. USE DEF abortVars, containerVars, taskVars
<1>1. UNCHANGED <<task, loaded, result, jobStatus, sent, RunningContainers>>
    BY DEF AbortStep
<1>2. CASE AbortBuild(b) \/ MarkAborted(b) \/ ConcurrentMapAccess(b) \/ KillContainerForBuildID(b)
    <2>1. UNCHANGED <<container, exitZero, stoppedByAbort>> /\ buildAbortMap \subseteq buildAbortMap'
        BY <1>2 DEF AbortBuild, MarkAborted, ConcurrentMapAccess, KillContainerForBuildID
    <2>2. SliceInv' /\ ReportInv' /\ \A k \in Jobs : Status(k)' = Status(k)
        BY <1>1, <2>1, ContainersMove
    <2>3. \A x \in Builds : abort'[x] \in {"kill", "stop", "done"} => x \in buildAbortMap'
        BY <1>2 DEF JobsInv, TypeOK, AbortInv, AbortBuild, MarkAborted, ConcurrentMapAccess,
            KillContainerForBuildID
    <2>4. \A x \in Builds : abort'[x] = "stop" => target'[x] \in Jobs /\ BuildOf[target'[x]] = x
        <3>1. CASE KillContainerForBuildID(b)
            <4>1. FirstOf(b) # 0 => /\ RunningContainers[FirstOf(b)] \in Jobs
                                    /\ BuildOf[RunningContainers[FirstOf(b)]] = b
                BY FirstOfFound DEF JobsInv, TypeOK
            <4>. QED BY <3>1, <4>1 DEF KillContainerForBuildID, JobsInv, TypeOK, AbortInv
        <3>2. CASE AbortBuild(b) \/ MarkAborted(b) \/ ConcurrentMapAccess(b)
            BY <3>2 DEF JobsInv, TypeOK, AbortInv, AbortBuild, MarkAborted, ConcurrentMapAccess
        <3>. QED BY <1>2, <3>1, <3>2
    <2>5. AbortInv
        BY DEF JobsInv
    <2>6. jobStatus' = jobStatus /\ stoppedByAbort' = stoppedByAbort
        BY <1>1, <2>1
    <2>7. AbortInv'
        BY <2>1, <2>3, <2>4, <2>5, <2>6 DEF AbortInv
    <2>. QED BY <2>2, <2>7, AbortTypes DEF JobsInv
<1>3. CASE DestroyForAbort(b)
    <2>1. target[b] \in Jobs /\ BuildOf[target[b]] = b /\ b \in buildAbortMap
        BY <1>3 DEF DestroyForAbort, JobsInv, AbortInv
    <2>2. \A k \in Jobs :
             /\ container[k] \in Started => container'[k] \in Started
             /\ container[k] = "removed" => container'[k] = "removed" /\ exitZero'[k] = exitZero[k]
        BY <1>3, <2>1, StopMoves DEF DestroyForAbort, JobsInv
    <2>3. SliceInv' /\ ReportInv' /\ \A k \in Jobs : Status(k)' = Status(k)
        BY <1>1, <2>2, ContainersMove
    <2>4. UNCHANGED <<buildAbortMap, target>> /\ abort' = [abort EXCEPT ![b] = "done"]
        BY <1>3 DEF DestroyForAbort
    <2>5. \A x \in stoppedByAbort' \ stoppedByAbort :
             x[1] = target[b] /\ x[2] = jobStatus[target[b]] /\ container[target[b]] = "running"
        BY <1>3 DEF DestroyForAbort
    <2>6. container[target[b]] = "running" =>
             jobStatus[target[b]] \in {"none", "aborted", "failed"}
        BY <2>1 DEF JobsInv, TypeOK, ReportInv, JobStatuses
    <2>7. \A x \in stoppedByAbort' :
             /\ BuildOf[x[1]] \in buildAbortMap
             /\ jobStatus[x[1]] \in {"none", "aborted"} \/ x[2] = "failed"
        BY <2>1, <2>5, <2>6 DEF JobsInv, AbortInv
    <2>8. AbortInv'
        BY <1>1, <2>1, <2>4, <2>7 DEF JobsInv, AbortInv, TypeOK
    <2>. QED BY <2>3, <2>8, AbortTypes DEF JobsInv
<1>. QED BY <1>2, <1>3 DEF AbortStep

LEMMA ShutdownKeeps ==
    ASSUME JobsInv, ShutdownStep
    PROVE  JobsInv'
<1>. USE DEF abortVars, containerVars, taskVars
<1>1. UNCHANGED <<task, loaded, result, jobStatus, sent, RunningContainers, abortVars, stoppedByAbort>>
    BY DEF ShutdownStep, KillRunningDocker, Destroy, Exit
<1>2. \A k \in Jobs :
         /\ container[k] \in Started => container'[k] \in Started
         /\ container[k] = "removed" => container'[k] = "removed" /\ exitZero'[k] = exitZero[k]
    <2>1. CASE KillRunningDocker \/ Exit
        BY <2>1 DEF KillRunningDocker, Exit
    <2>2. CASE Destroy
        <3>1. Head(killList) \in Jobs
            BY <2>2 DEF Destroy, JobsInv, TypeOK
        <3>. QED BY <2>2, <3>1, StopMoves DEF Destroy, JobsInv
    <2>. QED BY <2>1, <2>2 DEF ShutdownStep
<1>3. SliceInv' /\ ReportInv' /\ \A k \in Jobs : Status(k)' = Status(k)
    BY <1>1, <1>2, ContainersMove
<1>4. AbortInv'
    BY <1>1, <1>3 DEF JobsInv, AbortInv, TypeOK
<1>. QED BY <1>3, <1>4, ShutdownTypes DEF JobsInv

-----------------------------------------------------------------------------
LEMMA JobsInductive == JobsInv /\ [Next]_vars => JobsInv'
<1>. SUFFICES ASSUME JobsInv, [Next]_vars PROVE JobsInv'
    OBVIOUS
<1>1. CASE UNCHANGED vars
    <2>1. TypeOK'
        BY <1>1 DEF vars, JobsInv, TypeOK
    <2>2. SliceInv' /\ ReportInv' /\ \A k \in Jobs : Status(k)' = Status(k)
        BY <1>1, ContainersMove DEF vars
    <2>3. AbortInv'
        BY <1>1, <2>2 DEF vars, JobsInv, AbortInv, TypeOK
    <2>. QED BY <2>1, <2>2, <2>3 DEF JobsInv
<1>2. ASSUME NEW j \in Jobs, JobStep(j) \/ WaitFails(j) PROVE JobsInv'
    BY <1>2, JobTypes, JobSlice, JobReport DEF JobsInv, SliceInv
<1>3. ASSUME NEW j \in Jobs, ContainerExits(j) \/ ContainerRemoved(j) PROVE JobsInv'
    BY <1>3, DockerKeeps
<1>4. ASSUME NEW b \in Builds, AbortStep(b) PROVE JobsInv'
    BY <1>4, AbortKeeps
<1>5. CASE ShutdownStep
    BY <1>5, ShutdownKeeps
<1>. QED BY <1>1, <1>2, <1>3, <1>4, <1>5 DEF Next

LEMMA JobsInvariant == Spec => []JobsInv
    BY JobsInitial, JobsInductive, PTL DEF Spec

(* The variables stay in their ranges, the target of an abort and the      *)
(* containers a shutdown has still to destroy among them.                  *)
THEOREM TypeCorrect == Spec => []TypeOK
    BY JobsInvariant, PTL DEF JobsInv

(* processTask reports "completed" only of a container that ran to its     *)
(* end, left exit code zero and is gone, whatever kills overlap with it.   *)
THEOREM CompletedIsTrue == Spec => []CompletedMeansExitZero
<1>1. JobsInv => CompletedMeansExitZero
    BY DEF JobsInv, ReportInv, CompletedMeansExitZero
<1>. QED BY <1>1, JobsInvariant, PTL

(* processAbortBuild marks the build before it kills: no job whose         *)
(* container it stops is reported as completed, nor as failed unless that  *)
(* had been decided before the stop.                                       *)
THEOREM StoppedIsAborted == Spec => []StoppedMeansAborted
<1>1. JobsInv => StoppedMeansAborted
    <2>. SUFFICES ASSUME JobsInv, NEW x \in stoppedByAbort
                  PROVE  Status(x[1]) \in {"none", "aborted"} \/ x[2] = "failed"
        BY DEF StoppedMeansAborted
    <2>1. x[1] \in Jobs
        BY DEF JobsInv, TypeOK
    <2>. QED BY <2>1 DEF JobsInv, AbortInv, ReportInv
<1>. QED BY <1>1, JobsInvariant, PTL

(* However the loads and the stores of RunningContainers overlap, it lists *)
(* containers that were started, each once.                                *)
THEOREM TrackedAreDistinct == Spec => []TrackedOnce
<1>1. JobsInv => TrackedOnce
    <2>. SUFFICES ASSUME JobsInv PROVE TrackedOnce
        OBVIOUS
    <2>1. DOMAIN RunningContainers = 1 .. Len(RunningContainers)
        BY DEF JobsInv, TypeOK
    <2>. QED BY <2>1 DEF JobsInv, SliceInv, Distinct, OnRecord, Started, TrackedOnce
<1>. QED BY <1>1, JobsInvariant, PTL

=============================================================================
