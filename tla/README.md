# Test at Scale: a TLA+ verification development

Test at Scale runs the tests of a repository on the user's own machines. Two Go
programs do it. **synapse** (`cmd/synapse`) keeps a websocket to the TAS server,
and for every task it receives starts a docker container. In the container runs
**nucleus** (`cmd/nucleus`), which either discovers the tests of a commit or
executes them, and reports to the *neuron* service over HTTP. A *test runner*, a
child process of nucleus, posts its findings to a small HTTP server in nucleus.

    TAS server <== websocket ==> synapse == docker ==> container: nucleus
                                                         |  ^
                               neuron <== HTTP ==========+  | HTTP /test-list, /results
                                                            +== test runner, scripts

This directory models both programs in TLA+, checks them with TLC and proves
with TLAPS, for every value of the constants, each invariant that TLC checks, the order of
the first writes and the refinement of `ApiContract`. `PROJECT.json` ties every
definition to the lines of the source it models, and lists the runs, the mutants
(one for each property: a plausible bug the property catches), the findings, the
hazards of the code and the theorems.

## 1. Inventory

| Component | Source | State | Operations | What is hard | Correct when | Modelled |
|---|---|---|---|---|---|---|
| synapse connection | `pkg/synapse/synapse.go` | the connection, `MsgErrChan`, `MsgChan`, `ConnectionAborted`, `InvalidConnectionRequest`, `LogoutRequired` | dial with backoff, login, read, write, reconnect, logout | readers and writers of old and new connections share channels that are fields; blocking sends; double close | one connection at a time, writers do not pile up, no message lost or doubled, a break is noticed | `SynapseConnection` |
| jobs and docker runner | `pkg/synapse/synapse.go`, `pkg/runner/docker/docker.go` | `RunningContainers`, `buildAbortMap`, containers | run a task, abort a build, kill all at shutdown | unsynchronised slice and map; container removed before it is waited for | the status reported agrees with the container | `SynapseJobs` |
| synapse main | `cmd/synapse/bin.go` | context, wait group | interrupt, connection failed, graceful timeout | shutdown racing with everything | the process ends | context only |
| cache volumes, cron | `pkg/cron`, `docker.go` 418-468 | docker volumes | create, remove old ones | removal against use, between two tasks of a build | a used volume stays | `Build` |
| proxy server | `pkg/proxyserver` | none | forward | - | - | no |
| YML parsing | `pkg/tasconfigdownloader` | none | download and parse on request | - | one answer a request | no |
| nucleus main | `cmd/nucleus/bin.go`, `pkg/server` | context, wait group | start, interrupt, exit | order of the ends of pipeline and server | the process ends | `Pipeline` |
| pipeline, task status | `pkg/core/lifecycle.go`, `pkg/task` | the task's status, the named result `err` | run the driver, report running and the final status | a goroutine shares `err` and the payload with body and `defer` | the last status says what happened | `Pipeline` |
| driver v1 | `pkg/driver/driver_v1.go`, `builder.go` | status, diff | discovery, execution | a dozen steps in one order, each failing in its own way | what is executed is what was prepared | `Build` |
| driver v2 | `pkg/driver/driver_v2.go` | status, diff | discovery, execution | goroutines for every submodule, shared environment map, the diff of a submodule | pre-runs first, all submodules reported, no listed change lost | `SubmoduleDiscovery`, `Build`, `ChangedFiles` |
| test discovery | `pkg/testdiscoveryservice`, `pkg/api/testlist` | `tdResChan` | run the command, take the posted result, send it | results of parallel commands meet in one channel; which tests a diff impacts | nothing twice, nothing missing | `SubmoduleDiscovery`, `ChangedFiles` |
| block tests | `pkg/blocktestservice` | `once`, `errChan` | make the block list | one maker, one reader of the error | an error ends the discovery | `SubmoduleDiscovery` |
| test execution | `pkg/testexecutionservice`, `pkg/service/teststats`, `pkg/procfs`, `pkg/api/results` | two unbuffered channels | run the command n times, sample it, take posted results | sampler, handler and loop race | results at most once, `Run` returns | `TestExecution` |
| user commands, logs | `pkg/command`, `pkg/logwriter`, `pkg/azure` | pipes, error channel | run a script, upload its log | back pressure, deferred calls, failed uploads | success means the whole log | `UserCommands` |
| cache manager | `pkg/cachemanager` | `once`, SAS URL, `skipUpload`, the workspace archive | download, upload, cache and extract the workspace | error kept for ever; a cache unpacked in part | a hit is the whole cache, the workspace is the prepared one | `Build` |
| coverage | `pkg/service/coverage`, `pkg/fileutils` | directories of commits on a shared volume | copy from the parent, merge, upload, report | error group with a shared `err`; a job tried again finds torn copies | what is reported was merged from the last executions | `Coverage` |
| API requests | `pkg/requestutils` | one backoff for all goroutines | request with retries | consumed body, answers that come late, resets by others | a retry does nothing twice | `ApiRequests`, `ApiContract` |
| diff manager | `pkg/diffmanager` | - | parse diffs of GitHub and GitLab | no base commit, renames, lines too long for the scanner | every file shown in what is read of an answer is listed with its kind | `ChangedFiles` |
| payload, git, tas configuration, submodule list | `pkg/payloadmanager`, `gitmanager`, `tasconfigmanager`, `listsubmoduleservice` | - | requests, commands, parsing | which error they return | - | steps of `Pipeline` and `Build` |
| secrets, configuration, logging, errors | `pkg/secret`, `pkg/lumber`, ... | - | text handling, start-up | - | - | no |

The hazards, each at its line with the properties that watch it, are in
`PROJECT.json`.

## 2. The modules

**SynapseConnection** has one process for each goroutine: the handler
(`openAndMaintainConnection` and `connectionHandler`; one lives at a time), a
`messageReader` and a `messageWriter` for each connection, `InitiateConnection`, and
the helpers that send `InvalidConnectionRequest`. `MsgErrChan` is a number, the
identity of the channel the field holds; `closedChans` are the closed ones;
`sending` and `closing` hold the goroutines at the two statements
`s.MsgErrChan <- struct{}{}` and `close(s.MsgErrChan)`, each of which looks the field
up when it is reached. `ConnectionAborted` is the number of its tokens. `MsgChan`
holds messages named by the order in which they entered. A panic is a state
(`panic`), after which nothing happens. `accepted`, `written` and `requeued` are
history variables. A handler that replaces the channel and a stale reader that
closes "the" channel therefore meet as they do in the code.

**SynapseJobs** has for each job the control state of `processTask` with `Initiate`
(one waits for the other, so they share a state), the container, the two shared
structures and, for each build, `processAbortBuild`. A change of `RunningContainers`
is two steps, the load and the store; the end of a job is two as well, the look at `buildAbortMap`
that decides its status (`CheckAborted`) and the put on `MsgChan`, which may wait for room
(`SendJobStatus`); a write of `buildAbortMap` lasts from
`AbortBuild` to `MarkAborted`, and Go's "concurrent map" error is a possible outcome
of an overlapping access. Containers exit and are removed (AutoRemove) on their own.
`exitZero` says whether the exit code is zero.

**TestExecution**, **UserCommands** and **SubmoduleDiscovery** each model one group of
goroutines and the channels, locks and maps they share. A result that was posted is
named by the process that posted it. Output is counted in chunks. In
`SubmoduleDiscovery` the writing of the shared map lasts two steps, as above.

**ApiRequests** is `MakeAPIRequest`: a request object that is sent again on every retry,
whose body can be read once (`consumed`), and the backoff all goroutines share, reduced
to whether its elapsed time exceeds the limit (`late`). The server may handle a request
long after the client has given it up, and the answer may be lost. **ApiContract** is
what a caller may count on, two variables and three actions; `ApiRequests` defines the
refinement mapping (`Contract == INSTANCE ApiContract WITH ...`).

**Pipeline** extends `ApiRequests`: the payload, the update to "running" and the last
update are its three callers. The calls of the body of `Start` are a list of steps; what
an error of a step becomes is `Returned`. The goroutine that marks the task as running
writes the named result `err` that body and `defer` read.

**Build** is the level above: the tasks of one build, one discovery and some
executions, each in a container of its own, and what they share, which is a docker
volume with the archive of the workspace, a dependency cache in the blob store, and what
neuron was told. The steps of both drivers are four sequences in the order of the code
(`DiscoveryStepsV1`, ...); steps without an effect that matters here succeed
(`StepSucceeds`) or fail (`StepFails`, with the errors of `ErrorsOf`), the others are
actions: the two goroutines that fetch cache and diff, the list of submodules, the
workspace, the discoveries, the upload, and on the other side the extraction, the search
for the submodule and the results. A container may be killed at any step, which leaves
a torn archive if it was being copied. `home` is what a container's home directory
holds, so that `archived` says what an execution will find. **ChangedFiles** has the pure
functions on diffs that `Build` uses: what a provider's answer lists, the diff of a
submodule, and what the test runner makes of it. An answer is any marking of the paths by
the lines or flags the parsers look for (`Answers`): whether git gives a changed file such lines
is not decided there, since a binary or an empty file, a pure rename and a quoted name have
none that match. `PathsRead` is how far `parseDiff` gets: its scanner stops at a line of
more than 64 KiB, anywhere, without an error. `shown` in `Build` is what the marks that
were read show as added or modified. Where the order in which Go ranges over
a map matters, a definition yields the set of possible results.

**Coverage** is `MergeAndUpload` for a list of commits. The coverage of a test file is
named by the commit that executed it, so that a merged file can be compared with the
history of the manifests (`LastExecution`). The directories are on a volume that outlives
a failed job: `StartAgain` runs it again on what the first attempt left, torn copies
included. The error group has its three goroutines; `err` is written and read in two steps.

The modules meet at narrow interfaces, which is why most are checked apart:
`SynapseJobs` puts reports on the `MsgChan` of `SynapseConnection` (action `Report`
there); a container of `SynapseJobs` is a process of `Pipeline`; the driver step of
`Pipeline` is a task of `Build`, whose discoveries are `SubmoduleDiscovery` in detail and
whose step "run" is `TestExecution`; both run scripts as `UserCommands` describes, whose
failed upload is `LogUploadFails` in `TestExecution`. `DriverSetsStatus` and
`DriverReturns` of `Pipeline` allow every outcome a task of `Build` has.

Conventions: a definition carries the name of its function or channel; operators that
begin with "Mutant of" are bugs put in by hand, used by no specification; definitions
under "promises" or after the last rule are properties. All configurations say
`CHECK_DEADLOCK FALSE`, for every one of these systems really stops: the process ends
or the function returns.

## 3. The runs

| Run | Bounds | Checks |
|---|---|---|
| `conn_safety` | 2 connections, 1 message besides the logins, `MsgChan` of 2, `ConnectionAborted` of 1, all events | `TypeOK`, `EarlierConnectionsClosed`, `StaleWritersCanStop`, `MessagesConserved`, `FirstWritesInOrder` |
| `conn_liveness` | 2 connections, no other message, room in the channels | `BreakIsNoticed`, `TakenMessageComesBack` |
| `conn_panic` | same | finds `BreakIsSurvived` violated |
| `jobs` | 2 jobs (one nucleus, one coverage) of one build, aborted once | `TypeOK`, `CompletedMeansExitZero`, `StoppedMeansAborted`, `TrackedOnce`, `EndedJobIsReported` |
| `jobs_abort` | same | finds `AbortKillsContainer` violated |
| `execution` | 3 consecutive runs | `TypeOK`, `NoStaleSampler`, `PostedResultsOnce`, `RunReturns` |
| `commands` | 4 chunks, a pipe of 2 | `TypeOK`, `SuccessMeansWholeLog`, `NothingOutlivesTheCall`, `CommandReturns` |
| `pipeline` | 3 requests | `TypeOK`, `ExitMeansReported`, `FailureIsReported`, `ProcessEnds`, `RequestsKeepContract` |
| `discovery` | 3 submodules | `TypeOK`, `PreRunsComeFirst`, `ResultsReportedOnce`, `SuccessReportsAll`, `BlockListErrorEndsDiscovery`, `DiscoveryEnds` |
| `coverage` | 2 commits, 2 test files, 2 attempts, both working directories | `TypeOK`, `MergedIsLatest`, `OneFailureMayHide` |
| `coverage_archive` | 2 commits, 2 test files, 1 attempt, the directory of the image | finds `ArchiveIsFound` violated |
| `build` | 2 names, 2 submodules an event, 1 execution task, 3 files | `TypeOK`, `ExecutionHasBuild`, `ReportedIsExecutable`, `CacheHitIsWhole`, `SuccessMeansReported`, `ChangedReachesRunner` |

Why the bounds are enough to see the interesting cases. *Connection*: two connections
give a stale reader, a stale writer and a replaced channel; three messages (two logins,
one report) overfill a channel of two, so that `login` and requeues block, and
`ConnectionAborted` of one makes the deferred send block. *Jobs*: two jobs of one
build lose each other's updates of the slice and show the abort of one of two
containers. *Execution*: three runs let a late sender of the first meet the sampler
of the second or third. *Commands*: four chunks fill the pipe, the copier and the
reader. *Discovery*: three submodules let a result go round. *Pipeline*: its three
requests are all there are; `handled` stops at 2, which is one more than a property allows.
*Coverage*: two commits make one the parent of the next, so that a directory may come
from the parent commit, the commit before or the commit itself; two files let a copy end
between them; two attempts let the second meet what the first left. *Build*: two
submodules may have one name, or be missing from the list of the other event; the
three files are two that become equal once the directory is cut off, and one that
impacts all tests; one execution task is enough, since executions share nothing but the
volume, which they only read. No symmetry is used: the state spaces are small without.

### What the violations show

* `conn_panic`: reader and writer of one connection both find it broken. One is
  received and closes the channel, the other closes it again or sends on it: synapse
  ends instead of reconnecting (`synapse.go:197-198`, `379-380`).
* `jobs_abort`: `KillContainerForBuildID` returns after the first container of the
  build, and does not see one that was started but not appended yet.
* `coverage_archive`: `Compress` runs `tar` in the directory of the repository's coverage,
  and `uploadFile` opens `coverage-files.tzst` where nucleus runs. In the image that is
  `/home/nucleus`, so that every coverage job fails after merging (`coverage.go:157-161`,
  `zstd.go:42-58`).

Some more disagreements are in the models without a run of their own. `parseDiff` never
looks at `scanner.Err()`: after a line of more than 64 KiB, such as a minified file, the rest of
the diff is lost without an error (`setup.go:147-158` of `pkg/diffmanager`); and a diff of
nothing but binary or renamed files is taken for an empty one, for which no test is run. The sampler's
`default` branch is reached although results were posted, when the handler's goroutine is
late or `GetStats` fails early (`teststats.go:59`): the results are then dropped or taken by
a later run. The request that marks a task as running is never waited for, and may be
recorded after the last one (`lifecycle.go:69`). All submodules write `MODULE_PATH` into
the map of the configuration (`driver_v2.go:443`).

### Properties that say less than one would like

`StaleWritersCanStop` bounds the writers by the tokens; that the right writer stops is
not so: the new writer may take the token of the old one, and then nobody writes to an
open connection until it breaks. `TrackedOnce` says nothing of containers that are
missing from `RunningContainers`, for lost updates do happen. `TakenMessageComesBack`
needs room in `MsgChan`; `RunReturns` and `CommandReturns` assume that the upload of the
log does not fail, and fail without that: the uploader leaves its end of the pipe open,
so that the copier of `os/exec` blocks, and `closeAndWriteLog` receives a second time
from a channel that carries one error. `DiscoveryEnds` assumes that a command that
ended well has posted its result, and takes the concurrent access of the shared map, a
fatal error of Go, for an end. `FailureIsReported` excepts an error that the
marking goroutine has overwritten. `OneFailureMayHide` says what is left of the error
group: one of the two failures may be lost, and is. `MergedIsLatest` excepts torn
directories in a job that was tried again, for the code takes them for complete.
`ReportedIsExecutable` excepts a volume that the cron has removed between two tasks.
`ChangedReachesRunner` speaks of the files that the parser is shown as added or modified.
It says nothing of changed files whose `+++` line the parser never gets or does not match:
those after a line of more than 64 KiB, binary files, empty added files, pure renames,
names that git quotes (and, with a blank, ends in a tab: they are listed under another name),
and files a provider leaves out of a large diff. The code may lose all of these. Of the files
shown it excepts one that shares its trimmed name with a removed one.
`StoppedMeansAborted` excepts a job whose status "failed" was decided before its container was
stopped: when the wait has failed, the container runs on, and an update of
`RunningContainers` that was lost has left it tracked, an abort can still stop it between
`CheckAborted` and `SendJobStatus` (`synapse.go:295-301`), and the server is told of a failure.
`EndedJobIsReported` needs room in `MsgChan` in the end, as a writer gives it.
`SuccessMeansReported` says nothing of the cache: version 2 only logs an upload that failed.

### Fairness

Each module states its fairness beside the specification (`Fairness`), as conjunctions
of weak fairness: Go's scheduler runs every goroutine that can move, timers fire, docker
removes a container that has exited, requests are answered or time out. Nothing obliges
the server, a container, the body of the pipeline or a user. In `Pipeline` time passes
(`Time`), which ends the retries once only the last requests are left: each of them
resets the backoff when it begins, and never again. In particular no strong
fairness is assumed of a `select`, which may pick any ready case.
`TestExecution` and `UserCommands` assume that a test runner or a script ends; both
are killed with their context.

## 4. The proofs

`SynapseConnectionProofs` proves, for every number of connections and messages and every
capacity allowed by `ConnectionAssumption`:

| Theorem | Statement |
|---|---|
| `TypeCorrect` | `Spec => []TypeOK` |
| `EarlierClosed` | `Spec => []EarlierConnectionsClosed` |
| `TokensForStaleWriters` | `Spec => []StaleWritersCanStop` |
| `MessagesAreConserved` | `Spec => []MessagesConserved` |
| `FirstWritesAreInOrder` | `Spec => FirstWritesInOrder`, an action property |

`TypeOK` is not inductive: `MsgErrChan' = MsgErrChan + 1` stays in range only because a
channel is replaced at most once for each connection that was dialled (`ChanOfConn`), and
`accepted` only because the logins are counted by the connections (`MessageBounds`).
`TypeInv` adds both; the lemmas `TypeHandler`, `TypeBreak`, `TypeReader`, `TypeWriter` and
`TypeOthers` take the actions one group at a time. `EarlierClosed` needs `ClosedInv`:
besides the earlier connections, the last one is closed too whenever the handler is about
to dial. `TokensForStaleWriters` is inductive given `TypeInv`; its steps are about the
cardinality of the set of running writers (`WritersFinite`, `AddOne`), which grows by
one when a connection is served and shrinks by one with each token.

`MessagesAreConserved` states that three cardinalities add up to one; the invariant
`MessageInv` says why: a message is in no place twice (`OncePerPlace`) nor in two
(`OnePlace`), every accepted one is somewhere and no other is (`HaveAPlace`), and a
connection has no writer that holds a message before its login (`WriterInv`). Each of
the four ways a message moves has a lemma (`MessageEnters`, `MessageTaken`,
`MessageWritten`, `MessageBack`), which rest on what `Append` and `Tail` do to the channel
(`AfterPut`, `AfterReceive`). `FirstWritesAreInOrder` speaks of the messages no writer had to
put back. The channel has them in order, and what was written or is held precedes them;
the point is `HeldIsNext`: what a writer may still write follows what was written. It
holds because of all writers that hold a message only one can write (`OneWrites`): the
connections before the last are closed, which is `ClosedInv` again.

`PipelineProofs`:

| Theorem | Statement |
|---|---|
| `RequestsImplementContract` | `Spec => RequestsKeepContract`, the refinement of `ApiContract` |
| `TypeCorrect` | `Spec => []TypeOK` |
| `ExitReported` | `Spec => []ExitMeansReported` |
| `FailureReported` | `Spec => []FailureIsReported` |

Every step of a process changes the requests by a step of `ApiRequests` or not at all
(`OnlyRequestSteps`). The lemmas on the requests use nothing of the process, and hold for any
set of callers that satisfies `RequestAssumption`. What makes the contract hold is `BodyReadOnce`:
a request can be handled only if it was sent, and was sent at most once because its
body can be read once. `ContractStep` then maps each step to one of the contract or to
a stutter. `ExitReported` needs that `Start` returns only with the last update accepted
(`ExitInv`), and takes "accepted, therefore recorded" from `BodyReadOnce`. `FailureReported`
follows the error from the body to `err`, from there to the status and to the request
(`FailureInv`), with one clause for each place it is at; `overwritten` guards them all.
For `TypeOK`, `CalledInStep` says that the driver's result is never looked at as
that of another step, since there is no step after it.

`CoverageProofs`, for any number of commits, test files and attempts:

| Theorem | Statement |
|---|---|
| `OneFailureHides` | `Spec => []OneFailureMayHide` |
| `TypeCorrect` | `Spec => []TypeOK` |
| `MergedFromLatest` | `Spec => []MergedIsLatest` |

The invariant `SharedErr` says what the shared variable `err` still knows: while neither of
the two goroutines has succeeded, it is the error of whichever failed, and `groupErr`
has it once that one returned; a success of the other breaks the premise, which is how
one failure is lost. `MergedFromLatest` begins with `LastOfCommit`, the equation of
`LastExecution` from one commit to the next, which the definition with its set of
valid commits does not show. What a directory holds is then one of three things whatever was
copied before (`DirsInv`); the loop passes a commit only when its directory is complete up
to torn copies (`LoopInv`); what was merged and sent was complete (`MergedInv`); and in the
first run nothing is torn until it returns (`TornInv`). `CopyIsLatest` is the heart:
what `copyFromParentCommitDir` copies, and what it leaves as it is, is what the equation says.

`SynapseJobsProofs`, for any jobs and any assignment to builds:

| Theorem | Statement |
|---|---|
| `TypeCorrect` | `Spec => []TypeOK` |
| `CompletedIsTrue` | `Spec => []CompletedMeansExitZero` |
| `StoppedIsAborted` | `Spec => []StoppedMeansAborted` |
| `TrackedAreDistinct` | `Spec => []TrackedOnce` |

The first three follow a job through its states. For `StoppedIsAborted` the invariant relates
what was put into `jobStatus` to the map (`AbortInv`, `ReportInv`): the mark comes before the stop, so
a status decided after the stop is "aborted"; one decided before it cannot be "completed", since
the container was still running. `TrackedAreDistinct` is about slices that
were loaded before other jobs stored theirs: not only `RunningContainers` but every loaded
slice must be without duplicates, and hold only jobs past their own append (`OnRecord`),
so that a job that appends itself is not there yet (`SliceInv`).

`TestExecutionProofs`, for any number of consecutive runs:

| Theorem | Statement |
|---|---|
| `TypeCorrect` | `Spec => []TypeOK` |
| `SamplersEnd` | `Spec => []NoStaleSampler` |
| `ReceiveIsMet` | `Spec => []ReceiverHasSampler`: who waits at the output channel is met |
| `ResultsHaveOnePlace` | `Spec => []PostedResultsOnce` |

`UserCommandsProofs`, for any amount of output and any pipes:

| Theorem | Statement |
|---|---|
| `TypeCorrect` | `Spec => []TypeOK` |
| `WholeLog` | `Spec => []SuccessMeansWholeLog` |
| `NothingOutlives` | `Spec => []NothingOutlivesTheCall` |

The invariant counts the chunks (`ChunksInv`: what was uploaded is what was copied, but for the
one being handed over, and the copier ends only with all that was produced) and orders
the ends (`WriterInv`, `UploadInv`: the log is closed when nobody copies any more, and its
upload is done only after that).

`SubmoduleDiscoveryProofs`, for any finite set of submodules:

| Theorem | Statement |
|---|---|
| `TypeCorrect` | `Spec => []TypeOK` |
| `PreRunsFirst` | `Spec => []PreRunsComeFirst` |
| `ReportedOnce` | `Spec => []ResultsReportedOnce` |
| `NothingIsMissing` | `Spec => []SuccessReportsAll` |
| `ErrorIsRead` | `Spec => []ErrorHasAReader` |
| `ResultForEveryReceiver` | `Spec => []NoReceiverStarves` |

No two submodules take the same result (`ResultsInv`), so when all have taken one `got`
is an injection of a finite set into itself, hence onto: nothing is missing. The last two
theorems are what the liveness properties of the module rest on besides fairness: the
error of the block list always has a pre-run that will read it, and if everyone who waits,
or has waited, for a result has posted one, then one is left for whoever waits, since
the results that were taken are as many as those who took them.

`BuildProofs`, for any names of sub modules, executions and files:

| Theorem | Statement |
|---|---|
| `TypeCorrect` | `Spec => []TypeOK` |
| `ExecutionsHaveTheirBuild` | `Spec => []ExecutionHasBuild` |
| `ExecutionsFindTheirModule` | `Spec => []ReportedIsExecutable` |
| `SkippedCacheIsWhole` | `Spec => []CacheHitIsWhole` |
| `SuccessTellsNeuron` | `Spec => []SuccessMeansReported` |
| `ChangesReachTheRunner` | `Spec => []ChangedReachesRunner` |

The drivers' steps are sequences, so the proof first states which step follows which
(`OrderOfDiscoveryV1`, ...). `BuildInv` has a part for each thing that the tasks share: what
the discovery's home holds at each of its steps (`PreparedInv`), what was
unpacked of the cache and what `once.Do` keeps (`CacheInv`), what lies on the volume and
who may read it (`VolumeInv`), which module an execution was given (`ModuleInv`), and what
neuron was told (`DiscoveryReportInv`, `ExecutionReportInv`). `DiffInv` says that the diff
has every file of `shown`, and not as a removed one; the theorem on changed files then only needs the operators of `ChangedFiles`.
The proof of `TypeCorrect` showed that a conjunct of `TypeOK` lacked its parentheses and
so said less than was meant; as it stands now, that an archive exists only on a volume
that is mounted, it needs `MountedInv`: a running container keeps its volume.

The assumptions are those of the constants (`ConnectionAssumption`, `RequestAssumption`,
`PipelineAssumption`, `CoverageAssumption`, `JobsAssumption`, `ConsecutiveRunsAssumption`,
`UserCommandsAssumption`, `SubModulesAssumption`, `BuildAssumption`), no others.

Only model-checked is liveness, which the prover does not handle under fairness:
`BreakIsNoticed`, `TakenMessageComesBack`, `EndedJobIsReported`, `RunReturns`,
`CommandReturns`, `ProcessEnds`, `BlockListErrorEndsDiscovery` and `DiscoveryEnds`. No
module uses `RECURSIVE`.

## 5. What is abstracted

Contents of messages, configurations and files; wording and logging; sizes of
containers. A torn read of an interface value (`err` in `Pipeline`) is not modelled, nor
the reuse of a process id by the sampler, nor what becomes of containers once synapse
has ended. `Build` leaves to one choice whether a step that a configuration may ask for
is there and fails; its requests are one step each, whose answer may be lost, as
`ApiContract` allows. `Coverage` abstracts the merge itself, the thresholds and the blobs'
names. In Go `append` may write into an array that two slice headers share; `SynapseJobs`
takes the slice a job has loaded for a value, which is exact as long as no slice has
capacity to spare, so it is for two jobs, the instance that is checked.

Not modelled: the proxy server (it forwards a request and keeps nothing); the requests
that parse a YAML file for the server (one request, one answer); parsing and masking of
secrets, the parsing of YAML and of command lines (text, on which no protocol depends);
the wiring of the services in `cmd/`, configuration and logging.

## 6. Plan

1. Proofs: what the other liveness properties rest on besides fairness, as was done for
   `BlockListErrorEndsDiscovery` and `DiscoveryEnds`: that a broken connection always has a
   goroutine on its way to tell the handler, that the pipes of a script always have a
   reader or are closed, that a request is never left without a step.
2. `SynapseMain` (wait group, graceful timeout) composed with the connection's promise.
3. More abstract specifications: `MessageQueue`, a queue whose messages are taken, written
   or put back, implemented by `SynapseConnection`; `JobLifecycle`, what the server sees of a
   job, implemented by `SynapseJobs`.
4. Pure algorithms: `getProcsForInterval`, `removeContainerID`, each against a reference
   definition.
