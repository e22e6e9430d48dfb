------------------------- MODULE SubmoduleDiscovery -------------------------
(***************************************************************************)
(* Discovery of the tests of a repository with submodules:                 *)
(* runDiscoveryHelper of pkg/driver/driver_v2.go and the two goroutines it *)
(* starts for every submodule, GetBlockTests of                            *)
(* pkg/blocktestservice/setup.go, Discover and SendResult of               *)
(* pkg/testdiscoveryservice/testdiscovery.go, and the /test-list handler   *)
(* of pkg/api/testlist/testlist.go.                                        *)
(*                                                                         *)
(* The goroutines share the block list, the environment map of the         *)
(* configuration, if it has one, and the channel tdResChan.  A discovery   *)
(* result is named by the submodule whose command posted it; the values in *)
(* the map are left out.                                                   *)
(***************************************************************************)
EXTENDS Naturals, FiniteSets

CONSTANTS
    SubModules,
    NoOne        \* no submodule

ASSUME SubModulesAssumption == IsFiniteSet(SubModules) /\ NoOne \notin SubModules

VARIABLES
    pc,          \* control state of runDiscoveryHelper
    status,      \* taskPayload.Status
    pre,         \* state of a submodule's pre-run goroutine
    blockList,   \* the submodule whose block list is written to disk: sync.Once
    blockErrs,   \* errors in errChan of the block test service
    disc,        \* state of a submodule's discovery goroutine
    sharedEnv,   \* the configuration has an environment map
    post,        \* state of the result a submodule's command posts
    got,         \* the result a submodule's Discover has received
    reported,    \* pairs of a submodule's name and the result neuron got with it
    crashed      \* the runtime ended the process

preVars == <<status, pre, blockList, blockErrs>>
discVars == <<disc, post, got, reported>>
vars == <<pc, preVars, discVars, sharedEnv, crashed>>

Ended == {"ok", "failed"}

TypeOK ==
    /\ pc \in {"list", "node", "top", "preRuns", "cache", "discoveries", "ok", "error"}
    /\ status \in {"passed", "error"}
    /\ pre \in [SubModules -> {"none", "block", "preRun", "runners"} \cup Ended]
    /\ blockList \in SubModules \cup {NoOne} /\ blockErrs \in 0 .. 1
    /\ disc \in [SubModules -> {"none", "env", "writing", "written", "reading", "command",
                                "receive", "send"} \cup Ended]
    /\ sharedEnv \in BOOLEAN
    /\ post \in [SubModules -> {"none", "sending", "delivered"}]
    /\ got \in [SubModules -> SubModules \cup {NoOne}]
    /\ reported \subseteq SubModules \X SubModules
    /\ crashed \in BOOLEAN

Init ==
    /\ pc = "list" /\ status = "passed"
    /\ pre = [s \in SubModules |-> "none"]
    /\ blockList = NoOne /\ blockErrs = 0
    /\ disc = [s \in SubModules |-> "none"]
    /\ sharedEnv \in BOOLEAN
    /\ post = [s \in SubModules |-> "none"]
    /\ got = [s \in SubModules |-> NoOne]
    /\ reported = {} /\ crashed = FALSE

-----------------------------------------------------------------------------
(* runDiscoveryHelper.                                                     *)

\* The number of submodules is sent, node is installed, the top-level pre-run
\* is executed: each may end the discovery with its error.
Preliminary(step, next) ==
    /\ pc = step
    /\ pc' \in {next, "error"}
    /\ pre' = IF pc' = "preRuns" THEN [s \in SubModules |-> "block"] ELSE pre
    /\ UNCHANGED <<status, blockList, blockErrs, discVars, sharedEnv>>

Preliminaries ==
    Preliminary("list", "node") \/ Preliminary("node", "top") \/ Preliminary("top", "preRuns")

\* Mutant of JoinPreRuns: the first pre-run to end is enough.
JoinFirstPreRun ==
    /\ pc = "preRuns" /\ \E s \in SubModules : pre[s] \in Ended
    /\ pc' = IF \A s \in SubModules : pre[s] # "failed" THEN "cache" ELSE "error"
    /\ UNCHANGED <<preVars, discVars, sharedEnv>>

\* preRunWaitGroup.Wait(), then the errors.
JoinPreRuns ==
    /\ pc = "preRuns" /\ \A s \in SubModules : pre[s] \in Ended
    /\ pc' = IF \A s \in SubModules : pre[s] = "ok" THEN "cache" ELSE "error"
    /\ UNCHANGED <<preVars, discVars, sharedEnv>>

CacheWorkspace ==
    /\ pc = "cache"
    /\ pc' \in {"discoveries", "error"}
    /\ disc' = IF pc' = "error" THEN disc ELSE [s \in SubModules |-> "env"]
    /\ UNCHANGED <<preVars, sharedEnv, post, got, reported>>

\* Mutant of JoinDiscoveries: the errors are not read from the channel.
JoinDiscoveriesOnly ==
    /\ pc = "discoveries" /\ \A s \in SubModules : disc[s] \in Ended
    /\ pc' = "ok"
    /\ UNCHANGED <<preVars, discVars, sharedEnv>>

JoinDiscoveries ==
    /\ pc = "discoveries" /\ \A s \in SubModules : disc[s] \in Ended
    /\ pc' = IF \A s \in SubModules : disc[s] = "ok" THEN "ok" ELSE "error"
    /\ UNCHANGED <<preVars, discVars, sharedEnv>>

Helper == Preliminaries \/ JoinPreRuns \/ CacheWorkspace \/ JoinDiscoveries

-----------------------------------------------------------------------------
(* The pre-run goroutine of submodule s.                                   *)

PreRunEnds(s, result) ==
    /\ pre' = [pre EXCEPT ![s] = result]
    /\ status' = IF result = "failed" THEN "error" ELSE status

\* Mutant of BlockOnce: every caller fetches the list.
BlockEach(s) ==
    /\ pre[s] = "block"
    /\ blockList' = s /\ blockErrs' \in {blockErrs, blockErrs + 1}
    /\ UNCHANGED <<pc, status, pre, discVars, sharedEnv>>

\* once.Do: the first caller adds its own block list to neuron's and writes the
\* file; the others wait for it.
BlockOnce(s) ==
    /\ pre[s] = "block" /\ blockList = NoOne
    /\ blockList' = s /\ blockErrs' \in {0, 1}
    /\ UNCHANGED <<pc, status, pre, discVars, sharedEnv>>

\* Mutant of BlockSelect: the caller that gets the error only logs it.
BlockSelectLogs(s) ==
    /\ pre[s] = "block" /\ blockList # NoOne
    /\ blockErrs' = 0 /\ PreRunEnds(s, "preRun")
    /\ UNCHANGED <<pc, blockList, discVars, sharedEnv>>

\* The select: one caller gets the error, if there is one.
BlockSelect(s) ==
    /\ pre[s] = "block" /\ blockList # NoOne
    /\ IF blockErrs = 1 THEN blockErrs' = 0 /\ PreRunEnds(s, "failed")
                        ELSE PreRunEnds(s, "preRun") /\ UNCHANGED blockErrs
    /\ UNCHANGED <<pc, blockList, discVars, sharedEnv>>

\* The submodule's own pre-run, then the installation of the runners.
PreRunCommands(s) ==
    /\ \/ pre[s] = "preRun" /\ (PreRunEnds(s, "runners") \/ PreRunEnds(s, "failed"))
       \/ pre[s] = "runners" /\ (PreRunEnds(s, "ok") \/ PreRunEnds(s, "failed"))
    /\ UNCHANGED <<pc, blockList, blockErrs, discVars, sharedEnv>>

PreRun(s) == BlockOnce(s) \/ BlockSelect(s) \/ PreRunCommands(s)

-----------------------------------------------------------------------------
(* The discovery goroutine of submodule s.                                 *)

Goto(s, state) == disc' = [disc EXCEPT ![s] = state]

\* getEnv writes the submodule's path into the configuration's map, or into a
\* new one; the write takes the time from "writing" to "written".
GetEnv(s) ==
    /\ disc[s] = "env"
    /\ Goto(s, "writing")
    /\ UNCHANGED <<pc, preVars, sharedEnv, post, got, reported>>

EnvWritten(s) ==
    /\ disc[s] = "writing"
    /\ Goto(s, "written")
    /\ UNCHANGED <<pc, preVars, sharedEnv, post, got, reported>>

\* GetEnvVariables ranges over the map.
GetEnvVariables(s) ==
    /\ disc[s] = "written"
    /\ Goto(s, "reading")
    /\ UNCHANGED <<pc, preVars, sharedEnv, post, got, reported>>

\* It fails when a secret is missing; otherwise the command is started.
StartCommand(s) ==
    /\ disc[s] = "reading"
    /\ Goto(s, "failed") \/ Goto(s, "command")
    /\ UNCHANGED <<pc, preVars, sharedEnv, post, got, reported>>

\* Two goroutines in the shared map at once, one of them writing.
ConcurrentMapAccess ==
    /\ sharedEnv
    /\ \E s, t \in SubModules :
          s # t /\ disc[s] = "writing" /\ disc[t] \in {"writing", "reading"}

\* Mutant of Handler: the result is dropped when another one waits.
HandlerDrops(s) ==
    /\ disc[s] = "command" /\ post[s] = "none"
    /\ post' = [post EXCEPT ![s] = IF \E r \in SubModules : post[r] = "sending"
                                     THEN "delivered" ELSE "sending"]
    /\ UNCHANGED <<pc, preVars, disc, sharedEnv, got, reported>>

\* POST /test-list: the handler leaves the result to a goroutine.
Handler(s) ==
    /\ disc[s] = "command" /\ post[s] = "none"
    /\ post' = [post EXCEPT ![s] = "sending"]
    /\ UNCHANGED <<pc, preVars, disc, sharedEnv, got, reported>>

CommandEnds(s) ==
    /\ disc[s] = "command"
    /\ Goto(s, "receive") \/ Goto(s, "failed")
    /\ UNCHANGED <<pc, preVars, sharedEnv, post, got, reported>>

\* Mutant of Receive: the sender keeps what it sent.
ReceiveCopy(s) ==
    /\ disc[s] = "receive"
    /\ \E r \in SubModules :
        /\ post[r] = "sending"
        /\ got' = [got EXCEPT ![s] = r]
    /\ Goto(s, "send")
    /\ UNCHANGED <<pc, preVars, sharedEnv, post, reported>>

\* <-tds.tdResChan: the result of any submodule.
Receive(s) ==
    /\ disc[s] = "receive"
    /\ \E r \in SubModules :
        /\ post[r] = "sending"
        /\ post' = [post EXCEPT ![r] = "delivered"]
        /\ got' = [got EXCEPT ![s] = r]
    /\ Goto(s, "send")
    /\ UNCHANGED <<pc, preVars, sharedEnv, reported>>

\* populateTestDiscoveryV2 gives the result the submodule's name; a request that
\* failed may still have reached neuron.
SendResult(s) ==
    /\ disc[s] = "send"
    /\ \/ reported' = reported \cup {<<s, got[s]>>} /\ (Goto(s, "ok") \/ Goto(s, "failed"))
       \/ Goto(s, "failed") /\ UNCHANGED reported
    /\ UNCHANGED <<pc, preVars, sharedEnv, post, got>>

Discovery(s) ==
    \/ GetEnv(s) \/ EnvWritten(s) \/ GetEnvVariables(s) \/ StartCommand(s)
    \/ CommandEnds(s) \/ Receive(s) \/ SendResult(s)

-----------------------------------------------------------------------------
Crash == ConcurrentMapAccess /\ crashed' = TRUE /\ UNCHANGED <<pc, preVars, discVars, sharedEnv>>

Step == Helper \/ \E s \in SubModules : PreRun(s) \/ Handler(s) \/ Discovery(s)

Next == ~crashed /\ ((Step /\ UNCHANGED crashed) \/ Crash)

Spec == Init /\ [][Next]_vars

\* Every goroutine is scheduled and every command ends.
Fairness ==
    /\ WF_vars(~crashed /\ Helper /\ UNCHANGED crashed)
    /\ \A s \in SubModules : WF_vars(~crashed /\ (PreRun(s) \/ Discovery(s)) /\ UNCHANGED crashed)

FairSpec == Spec /\ Fairness

-----------------------------------------------------------------------------
(* No discovery starts, and the workspace is not cached, before every      *)
(* pre-run has ended well, the fetching of the block list included.        *)
PreRunsComeFirst ==
    pc \in {"cache", "discoveries", "ok"} \/ (\E s \in SubModules : disc[s] # "none") =>
        /\ \A s \in SubModules : pre[s] = "ok"
        /\ status = "passed"

(* An error of the block list, which is made once and whose error only one *)
(* of the callers gets, ends the discovery for all of them.                *)
BlockListErrorEndsDiscovery == (blockErrs = 1) ~> (pc = "error")

(* neuron is told of no result twice, under whatever names.                *)
ResultsReportedOnce ==
    \A x, y \in reported : x[2] = y[2] => x = y

(* A discovery that ends well has told neuron of every submodule by its    *)
(* name and of every submodule's result: the pairing may be wrong, for     *)
(* Discover takes any result, but nothing is missing.                      *)
SuccessReportsAll ==
    pc = "ok" => /\ {x[1] : x \in reported} = SubModules
                 /\ {x[2] : x \in reported} = SubModules

(* If every command that succeeds has posted its result, the discovery     *)
(* ends: whoever took another's result has left its own for the other.     *)
DiscoveryEnds ==
    [](\A s \in SubModules : disc[s] = "receive" => post[s] # "none")
        => <>(pc \in {"ok", "error"} \/ crashed)

=============================================================================
