---------------------------- MODULE UserCommands ----------------------------
(***************************************************************************)
(* A user's pre-run or post-run script and its log: ExecuteUserCommands of *)
(* pkg/command/run.go with a log writer of pkg/logwriter/setup.go.         *)
(*                                                                         *)
(* The output goes from the process through an operating-system pipe to    *)
(* the goroutine os/exec copies it with, from there through an io.Pipe,    *)
(* which has no buffer, to the goroutine of the log writer that uploads    *)
(* it.  That goroutine leaves its error on a channel of capacity one, or   *)
(* closes the channel.  Output is counted in chunks: each stage handles    *)
(* them in order, so the chunks past a stage are a prefix of the output.   *)
(***************************************************************************)
EXTENDS Naturals

CONSTANTS
    MaxChunks,   \* bound: the chunks of output the command may write
    PipeCap      \* chunks the operating-system pipe holds

ASSUME UserCommandsAssumption == MaxChunks \in Nat /\ PipeCap \in Nat \ {0}

VARIABLES
    pc,         \* control state of ExecuteUserCommands
    outcome,    \* what it is going to return
    process,    \* state of the bash process
    produced, copied, uploaded,   \* chunks past the process, the copier, the pipe
    copier,     \* state of the goroutine that copies the output
    closed,     \* whether azureWriter has been closed
    uploader,   \* state of the log writer's goroutine
    errChan     \* "empty", "err" or "closed"

mainVars == <<pc, outcome, closed>>
outputVars == <<produced, copied, uploaded>>
vars == <<pc, outcome, process, produced, copied, uploaded, copier, closed,
          uploader, errChan>>

TypeOK ==
    /\ pc \in {"prepare", "start", "wait", "receive", "deferred", "returned"}
    /\ outcome \in {"none", "ok", "error"}
    /\ process \in {"none", "running", "zero", "nonzero"}
    /\ 0 <= uploaded /\ uploaded <= copied /\ copied <= uploaded + 1
    /\ copied <= produced /\ produced <= MaxChunks /\ produced - copied <= PipeCap
    /\ copier \in {"none", "reading", "writing", "done"}
    /\ closed \in BOOLEAN
    /\ uploader \in {"none", "sas", "reading", "commit", "failed", "done"}
    /\ errChan \in {"empty", "err", "closed"}

Init ==
    /\ pc = "prepare" /\ outcome = "none" /\ closed = FALSE
    /\ process = "none" /\ copier = "none"
    /\ produced = 0 /\ copied = 0 /\ uploaded = 0
    /\ uploader = "none" /\ errChan = "empty"

Exited == process \in {"zero", "nonzero"}

-----------------------------------------------------------------------------
(* ExecuteUserCommands.                                                    *)

\* Leave the body with what it returns; the deferred calls follow.
Leave(result) == pc' = "deferred" /\ outcome' = result

\* The script and the environment; the log writer is started once they are there.
Prepare ==
    /\ pc = "prepare"
    /\ pc' = "start" /\ uploader' = "sas"
    /\ UNCHANGED <<outcome, closed, process, outputVars, copier, errChan>>

PrepareFails ==
    /\ pc = "prepare"
    /\ pc' = "returned" /\ outcome' = "error"
    /\ UNCHANGED <<closed, process, outputVars, copier, uploader, errChan>>

Start ==
    /\ pc = "start"
    /\ pc' = "wait" /\ process' = "running" /\ copier' = "reading"
    /\ UNCHANGED <<outcome, closed, outputVars, uploader, errChan>>

StartFails ==
    /\ pc = "start"
    /\ Leave("error")
    /\ UNCHANGED <<closed, process, outputVars, copier, uploader, errChan>>

\* Mutant of Wait: the process is waited for, the copying is not.
WaitForProcess ==
    /\ pc = "wait" /\ Exited
    /\ IF process = "zero" THEN pc' = "receive" /\ closed' = TRUE /\ UNCHANGED outcome
                           ELSE Leave("error") /\ UNCHANGED closed
    /\ UNCHANGED <<process, outputVars, copier, uploader, errChan>>

\* cmd.Wait returns when the process has exited and its output is copied; the
\* copying meets no error, for azureWriter is not closed before.
Wait ==
    /\ pc = "wait" /\ Exited /\ copier = "done"
    /\ IF process = "zero"
         THEN pc' = "receive" /\ closed' = TRUE /\ UNCHANGED outcome
         ELSE Leave("error") /\ UNCHANGED closed
    /\ UNCHANGED <<process, outputVars, copier, uploader, errChan>>

\* <-errChan takes the error that is there; a closed channel gives nil.
TakeErr == errChan # "empty" /\ errChan' = IF errChan = "err" THEN "empty" ELSE errChan

ReceiveUploadErr ==
    /\ pc = "receive" /\ TakeErr
    /\ Leave(IF errChan = "err" THEN "error" ELSE "ok")
    /\ UNCHANGED <<closed, process, outputVars, copier, uploader>>

\* Mutant of CloseAndWriteLog: the upload is not awaited.
CloseOnly ==
    /\ pc = "deferred"
    /\ closed' = TRUE /\ pc' = "returned"
    /\ UNCHANGED <<outcome, process, outputVars, copier, uploader, errChan>>

\* Mutant of CloseAndWriteLog: the writer is not closed before the receive.
WriteLogOnly ==
    /\ pc = "deferred" /\ TakeErr
    /\ pc' = "returned"
    /\ UNCHANGED <<outcome, closed, process, outputVars, copier, uploader>>

\* The deferred closeAndWriteLog closes azureWriter, then receives once more.
CloseAndWriteLog ==
    /\ pc = "deferred"
    /\ closed' = TRUE
    /\ IF closed THEN TakeErr /\ pc' = "returned" ELSE UNCHANGED <<pc, errChan>>
    /\ UNCHANGED <<outcome, process, outputVars, copier, uploader>>

Main == Prepare \/ PrepareFails \/ Start \/ StartFails \/ Wait \/ ReceiveUploadErr
           \/ CloseAndWriteLog

-----------------------------------------------------------------------------
(* The process and the goroutine that copies its output.                   *)

ProcessWrites ==
    /\ process = "running" /\ produced < MaxChunks /\ produced - copied < PipeCap
    /\ produced' = produced + 1
    /\ UNCHANGED <<mainVars, process, copied, uploaded, copier, uploader, errChan>>

\* It ends, or the cancelled context kills it.
ProcessExits ==
    /\ process = "running"
    /\ process' \in {"zero", "nonzero"}
    /\ UNCHANGED <<mainVars, outputVars, copier, uploader, errChan>>

\* Mutant of CopierReads: the pipe has a buffer.
CopierReadsAhead ==
    /\ copier \in {"reading", "writing"} /\ copied < produced
    /\ copied' = copied + 1 /\ copier' = "writing"
    /\ UNCHANGED <<mainVars, process, produced, uploaded, uploader, errChan>>

\* The copier takes a chunk and writes it to azureWriter.
CopierReads ==
    /\ copier = "reading" /\ copied < produced
    /\ copied' = copied + 1 /\ copier' = "writing"
    /\ UNCHANGED <<mainVars, process, produced, uploaded, uploader, errChan>>

CopierEnds ==
    /\ copier = "reading" /\ copied = produced /\ Exited
    /\ copier' = "done"
    /\ UNCHANGED <<mainVars, process, outputVars, uploader, errChan>>

-----------------------------------------------------------------------------
(* The log writer's goroutine.                                             *)

GetSASURL ==
    /\ uploader = "sas"
    /\ uploader' = "reading"
    /\ UNCHANGED <<mainVars, process, outputVars, copier, errChan>>

\* A read of the io.Pipe releases the write it meets.
ReadChunk ==
    /\ uploader = "reading" /\ copier = "writing" /\ ~closed
    /\ uploaded' = uploaded + 1 /\ copier' = "reading"
    /\ UNCHANGED <<mainVars, process, produced, copied, uploader, errChan>>

ReadEOF ==
    /\ uploader = "reading" /\ closed
    /\ uploader' = "commit"
    /\ UNCHANGED <<mainVars, process, outputVars, copier, errChan>>

UploadSucceeds ==
    /\ uploader = "commit"
    /\ uploader' = "done" /\ errChan' = "closed"
    /\ UNCHANGED <<mainVars, process, outputVars, copier>>

\* Any request of the upload may fail; the reader is then left alone, not
\* closed, and so is the channel.
UploadFails ==
    /\ uploader \in {"sas", "reading", "commit"}
    /\ uploader' = "failed" /\ errChan' = "err"
    /\ UNCHANGED <<mainVars, process, outputVars, copier>>

Uploader == GetSASURL \/ ReadChunk \/ ReadEOF \/ UploadSucceeds

-----------------------------------------------------------------------------
Next ==
    \/ Main
    \/ ProcessWrites \/ ProcessExits \/ CopierReads \/ CopierEnds
    \/ Uploader \/ UploadFails

Spec == Init /\ [][Next]_vars

\* Every goroutine is scheduled, the script ends or is killed with its context,
\* and every request is answered or times out.
Fairness ==
    /\ WF_vars(Main)
    /\ WF_vars(ProcessExits)
    /\ WF_vars(CopierReads \/ CopierEnds)
    /\ WF_vars(Uploader)

FairSpec == Spec /\ Fairness

-----------------------------------------------------------------------------
(* A script that is said to have succeeded exited with zero, and all of    *)
(* its output is in the uploaded log.                                      *)
SuccessMeansWholeLog ==
    pc = "returned" /\ outcome = "ok" =>
        process = "zero" /\ uploader = "done" /\ uploaded = produced

(* The function does not return before its goroutines are through with the *)
(* writers it owns: the copying and the upload are over.                   *)
NothingOutlivesTheCall ==
    pc = "returned" =>
        copier \in {"none", "done"} /\ uploader \in {"none", "done", "failed"}

(* The log keeps a script from returning in one case only.  Unless its     *)
(* upload fails, the script returns; and a script that failed returns      *)
(* although the upload fails, once its output has been copied.  In the     *)
(* other cases the code may wait for ever: the copier at an io.Pipe nobody *)
(* reads, or closeAndWriteLog at a channel whose only error was received   *)
(* before.                                                                 *)
CommandReturns ==
    /\ [](uploader # "failed") => <>(pc = "returned")
    /\ (pc = "deferred" /\ process # "zero") ~> (pc = "returned")
=============================================================================
