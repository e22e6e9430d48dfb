--------------------------- MODULE TestExecution ---------------------------
(***************************************************************************)
(* One execution of a task's tests: Run of                                 *)
(* pkg/testexecutionservice/testexecution.go, the sampler goroutine that   *)
(* CaptureTestStats of pkg/service/teststats/teststats.go starts for every *)
(* run of the command, and the /results handler of                         *)
(* pkg/api/results/results.go, which leaves the results the runner posts   *)
(* with a goroutine that sends them to the sampler.                        *)
(*                                                                         *)
(* Both channels are unbuffered.  A posted result is named by the run      *)
(* whose process posted it.                                                *)
(***************************************************************************)
EXTENDS Integers, Sequences, FiniteSets

CONSTANT ConsecutiveRuns   \* the configured number of runs of the command

ASSUME ConsecutiveRunsAssumption == ConsecutiveRuns \in Nat

VARIABLES
    pc,        \* control state of Run
    run,       \* the loop variable i
    waitErr,   \* whether cmd.Wait returned an error
    results,   \* executionResults.Results
    process,   \* state of a run's process
    sender,    \* state of the goroutine that sends a run's posted results
    sampler,   \* state of the goroutine CaptureTestStats started for a run
    sample,    \* what it found on the input channel: a run, or Nil
    logFailed  \* the upload of the output has failed: nobody reads it any more

execVars == <<pc, run, waitErr, results, logFailed>>
vars == <<pc, run, waitErr, results, process, sender, sampler, sample, logFailed>>

Runs == 1 .. ConsecutiveRuns
Nil == 0

TypeOK ==
    /\ pc \in {"setup", "start", "capture", "wait", "receive", "ok", "error"}
    /\ run \in 0 .. ConsecutiveRuns
    /\ pc \in {"start", "capture", "wait", "receive"} => run \in Runs
    /\ waitErr \in BOOLEAN
    /\ results \in Seq(Runs)
    /\ process \in [Runs -> {"none", "running", "zero", "nonzero", "reaped"}]
    /\ sender \in [Runs -> {"none", "spawned", "sending", "delivered"}]
    /\ sampler \in [Runs -> {"none", "sampling", "poll", "put", "done"}]
    /\ sample \in [Runs -> Runs \cup {Nil}]
    /\ logFailed \in BOOLEAN

Init ==
    /\ pc = "setup" /\ run = 0 /\ waitErr = FALSE /\ results = <<>>
    /\ process = [i \in Runs |-> "none"]
    /\ sender = [i \in Runs |-> "none"]
    /\ sampler = [i \in Runs |-> "none"]
    /\ sample = [i \in Runs |-> Nil]
    /\ logFailed = FALSE

-----------------------------------------------------------------------------
(* Run.  pc is "ok" or "error" once it has returned.                       *)

Return(outcome) == pc' = outcome

\* Mutant of NextRun: the loop runs once too often.
NextRunOffByOne ==
    IF run <= ConsecutiveRuns THEN run' = run + 1 /\ pc' = "start"
                              ELSE Return("ok") /\ UNCHANGED run

\* The head of the loop.
NextRun ==
    IF run < ConsecutiveRuns THEN run' = run + 1 /\ pc' = "start"
                             ELSE Return("ok") /\ UNCHANGED run

\* The arguments and the environment of the command.
SetUp ==
    /\ pc = "setup"
    /\ \/ NextRun
       \/ Return("error") /\ UNCHANGED run
    /\ UNCHANGED <<waitErr, results, process, sender, sampler, sample, logFailed>>

StartSucceeds ==
    /\ pc = "start"
    /\ process' = [process EXCEPT ![run] = "running"]
    /\ pc' = "capture"
    /\ UNCHANGED <<run, waitErr, results, sender, sampler, sample, logFailed>>

StartFails ==
    /\ pc = "start"
    /\ Return("error")
    /\ UNCHANGED <<run, waitErr, results, process, sender, sampler, sample, logFailed>>

\* CaptureTestStats starts the sampler, or fails when procfs finds no such
\* process or no memory figures; the process is then never waited for.
CaptureSucceeds ==
    /\ pc = "capture"
    /\ sampler' = [sampler EXCEPT ![run] = "sampling"]
    /\ pc' = "wait"
    /\ UNCHANGED <<run, waitErr, results, process, sender, sample, logFailed>>

CaptureFails ==
    /\ pc = "capture"
    /\ Return("error")
    /\ UNCHANGED <<run, waitErr, results, process, sender, sampler, sample, logFailed>>

Exited(i) == process[i] \in {"zero", "nonzero"}

\* Mutant of Wait: the error of cmd.Wait is returned where it occurs.
WaitReturnsError ==
    /\ pc = "wait" /\ Exited(run)
    /\ waitErr' = (process[run] = "nonzero")
    /\ process' = [process EXCEPT ![run] = "reaped"]
    /\ IF waitErr' THEN Return("error") ELSE pc' = "receive"
    /\ UNCHANGED <<run, results, sender, sampler, sample, logFailed>>

\* cmd.Wait fails on a non-zero exit code; it also waits for the output to be
\* copied, which may take for ever once the upload of the log has failed.
Wait ==
    /\ pc = "wait" /\ Exited(run)
    /\ waitErr' = (process[run] = "nonzero")
    /\ process' = [process EXCEPT ![run] = "reaped"]
    /\ pc' = "receive"
    /\ UNCHANGED <<run, results, sender, sampler, sample, logFailed>>

\* result := <-ExecutionResultOutputChannel: Run meets a sampler there.
Receive ==
    \E k \in Runs :
        /\ pc = "receive" /\ sampler[k] = "put"
        /\ sampler' = [sampler EXCEPT ![k] = "done"]
        /\ results' = IF sample[k] = Nil THEN results ELSE Append(results, sample[k])
        /\ IF waitErr /\ sample[k] = Nil THEN Return("error") /\ UNCHANGED run
                                         ELSE NextRun
        /\ UNCHANGED <<waitErr, process, sender, sample, logFailed>>

RunStep == SetUp \/ StartSucceeds \/ StartFails \/ CaptureSucceeds \/ CaptureFails
              \/ Wait \/ Receive

-----------------------------------------------------------------------------
(* The process of run i: the test runner, which may post its results.      *)

\* POST /results: the handler starts the goroutine and answers.
Handler(i) ==
    /\ process[i] = "running" /\ sender[i] = "none"
    /\ sender' = [sender EXCEPT ![i] = "spawned"]
    /\ UNCHANGED <<execVars, process, sampler, sample>>

\* The goroutine reaches ExecutionResultInputChannel <- request.
SenderBlocks(i) ==
    /\ sender[i] = "spawned"
    /\ sender' = [sender EXCEPT ![i] = "sending"]
    /\ UNCHANGED <<execVars, process, sampler, sample>>

ProcessExits(i) ==
    /\ process[i] = "running"
    /\ \E code \in {"zero", "nonzero"} : process' = [process EXCEPT ![i] = code]
    /\ UNCHANGED <<execVars, sender, sampler, sample>>

\* LogWriterStrategy.Write gives up (see UserCommands).
LogUploadFails ==
    /\ pc \notin {"ok", "error"} /\ ~logFailed
    /\ logFailed' = TRUE
    /\ UNCHANGED <<pc, run, waitErr, results, process, sender, sampler, sample>>

-----------------------------------------------------------------------------
(* The sampler of run i.                                                   *)

\* GetStatsInInterval returns on the first error of GetStats, whatever it is;
\* once the process has been waited for, the next tick meets one.
SamplingEnds(i) ==
    /\ sampler[i] = "sampling"
    /\ sampler' = [sampler EXCEPT ![i] = "poll"]
    /\ UNCHANGED <<execVars, process, sender, sample>>

\* Mutant of PollTakes: the sender is not released by the receive.
PollTakesCopy(i) ==
    /\ sampler[i] = "poll"
    /\ \E j \in Runs :
        /\ sender[j] = "sending"
        /\ sample' = [sample EXCEPT ![i] = j]
    /\ sampler' = [sampler EXCEPT ![i] = "put"]
    /\ UNCHANGED <<execVars, process, sender>>

\* The select: a blocked sender's results, whichever run posted them.
PollTakes(i) ==
    /\ sampler[i] = "poll"
    /\ \E j \in Runs :
        /\ sender[j] = "sending"
        /\ sender' = [sender EXCEPT ![j] = "delivered"]
        /\ sample' = [sample EXCEPT ![i] = j]
    /\ sampler' = [sampler EXCEPT ![i] = "put"]
    /\ UNCHANGED <<execVars, process>>

\* Mutant of PollFindsNothing: no nil is sent.
PollGivesUp(i) ==
    /\ sampler[i] = "poll"
    /\ \A j \in Runs : sender[j] # "sending"
    /\ sampler' = [sampler EXCEPT ![i] = "done"]
    /\ UNCHANGED <<execVars, process, sender, sample>>

\* The default branch of the select.
PollFindsNothing(i) ==
    /\ sampler[i] = "poll"
    /\ \A j \in Runs : sender[j] # "sending"
    /\ sampler' = [sampler EXCEPT ![i] = "put"]
    /\ UNCHANGED <<execVars, process, sender, sample>>

Poll(i) == PollTakes(i) \/ PollFindsNothing(i)

-----------------------------------------------------------------------------
Next ==
    \/ RunStep \/ LogUploadFails
    \/ \E i \in Runs : \/ Handler(i) \/ SenderBlocks(i) \/ ProcessExits(i)
                       \/ SamplingEnds(i) \/ Poll(i)

Spec == Init /\ [][Next]_vars

\* The scheduler runs Run and the samplers, every test runner ends sooner or
\* later, and /proc has no entry for a process that was waited for.
Fairness ==
    /\ WF_vars(RunStep /\ ~(pc = "wait" /\ logFailed))
    /\ \A i \in Runs :
        /\ WF_vars(ProcessExits(i))
        /\ WF_vars(SamplingEnds(i) /\ process[i] = "reaped")
        /\ WF_vars(Poll(i))

FairSpec == Spec /\ Fairness

-----------------------------------------------------------------------------
(* A sampler is alive only during the run it was started for: none is left *)
(* behind a returned Run, blocked on the output channel with results the   *)
(* next receiver would take for its own.                                   *)
NoStaleSampler ==
    \A i \in Runs : sampler[i] \notin {"none", "done"} => i = run /\ pc \in {"wait", "receive"}

(* Every posted result is in one place: with its sender until a sampler    *)
(* takes it, then with that sampler or in executionResults, never in both  *)
(* and never twice.                                                        *)
PostedResultsOnce ==
    \A i \in Runs :
        LET inResults == {n \in 1 .. Len(results) : results[n] = i}
            held == {k \in Runs : sampler[k] = "put" /\ sample[k] = i}
        IN  Cardinality(inResults) + Cardinality(held)
              = IF sender[i] = "delivered" THEN 1 ELSE 0

(* Run returns, unless the upload of its log fails: it never waits for     *)
(* ever at the output channel.                                             *)
RunReturns == []~logFailed => <>(pc \in {"ok", "error"})

=============================================================================
