-------------------------- MODULE UserCommandsProofs --------------------------
(***************************************************************************)
(* Proofs about UserCommands, for any amount of output and any capacity of *)
(* the pipe: a script that succeeded has its whole log uploaded, and no    *)
(* goroutine outlives the call.                                            *)
(***************************************************************************)
EXTENDS UserCommands, TLAPS

\* Between the copier and the reader of the io.Pipe there is at most the chunk
\* being written; the copying ends with the output.
ChunksInv ==
    /\ produced \in Nat /\ copied \in Nat /\ uploaded \in Nat
    /\ copied = IF copier = "writing" THEN uploaded + 1 ELSE uploaded
    /\ copier = "done" => Exited /\ copied = produced

\* azureWriter is closed when nobody writes to it any more, and every way out of
\* the body finds the copying over.
WriterInv ==
    /\ closed => copier \in {"none", "done"}
    /\ pc \in {"prepare", "start"} => process = "none" /\ copier = "none" /\ ~closed
    /\ pc = "wait" => ~closed
    /\ pc = "receive" => closed /\ copier = "done" /\ process = "zero"
    /\ pc \in {"deferred", "returned"} => copier \in {"none", "done"}

\* The log writer answers on its channel once it is through: it closes the
\* channel after a commit, which follows the end of the output.
UploadInv ==
    /\ uploader \in {"commit", "done"} => closed
    /\ errChan = "closed" <=> uploader = "done"
    /\ errChan = "err" => uploader = "failed"
    /\ pc = "prepare" => uploader = "none"
    /\ pc = "returned" => uploader \in {"none", "done", "failed"}
    /\ outcome = "ok" => process = "zero" /\ uploader = "done" /\ copier = "done"

CommandInv == TypeOK /\ ChunksInv /\ WriterInv /\ UploadInv

LEMMA CommandInitial == Init => CommandInv
<1>. SUFFICES ASSUME Init PROVE TypeOK /\ ChunksInv /\ WriterInv /\ UploadInv
    BY DEF CommandInv
<1>. USE UserCommandsAssumption DEF Init
<1>1. closed \in BOOLEAN
    BY Zenon
<1>2. TypeOK
    BY <1>1 DEF TypeOK
<1>3. ChunksInv
    BY DEF ChunksInv, Exited
<1>4. WriterInv /\ UploadInv
    BY DEF WriterInv, UploadInv
<1>. QED BY <1>2, <1>3, <1>4

\* ExecuteUserCommands.
LEMMA MainKeeps == ASSUME CommandInv, Main PROVE CommandInv'
<1>. USE UserCommandsAssumption DEF CommandInv, TypeOK, ChunksInv, WriterInv, UploadInv,
        Exited, Leave, outputVars
<1>1. CASE Prepare
    BY <1>1 DEF Prepare
<1>2. CASE PrepareFails
    BY <1>2 DEF PrepareFails
<1>3. CASE Start
    BY <1>3 DEF Start
<1>4. CASE StartFails
    BY <1>4 DEF StartFails
<1>5. CASE Wait
    BY <1>5 DEF Wait
<1>6. CASE ReceiveUploadErr
    BY <1>6 DEF ReceiveUploadErr, TakeErr
<1>7. CASE CloseAndWriteLog
    BY <1>7 DEF CloseAndWriteLog, TakeErr
<1>. QED BY <1>1, <1>2, <1>3, <1>4, <1>5, <1>6, <1>7 DEF Main

\* The process and the copier.
LEMMA OutputKeeps ==
    ASSUME CommandInv, ProcessWrites \/ ProcessExits \/ CopierReads \/ CopierEnds
    PROVE  CommandInv'
<1>. USE UserCommandsAssumption DEF CommandInv, TypeOK, ChunksInv, WriterInv, UploadInv,
        Exited, outputVars, mainVars
<1>1. CASE ProcessWrites
    BY <1>1 DEF ProcessWrites
<1>2. CASE ProcessExits
    BY <1>2 DEF ProcessExits
<1>3. CASE CopierReads
    BY <1>3 DEF CopierReads
<1>4. CASE CopierEnds
    BY <1>4 DEF CopierEnds
<1>. QED BY <1>1, <1>2, <1>3, <1>4

\* The goroutine of the log writer.
LEMMA UploaderKeeps == ASSUME CommandInv, Uploader \/ UploadFails PROVE CommandInv'
<1>. USE UserCommandsAssumption DEF CommandInv, TypeOK, ChunksInv, WriterInv, UploadInv,
        Exited, outputVars, mainVars
<1>1. CASE GetSASURL
    BY <1>1 DEF GetSASURL
<1>2. CASE ReadChunk
    BY <1>2 DEF ReadChunk
<1>3. CASE ReadEOF
    BY <1>3 DEF ReadEOF
<1>4. CASE UploadSucceeds
    BY <1>4 DEF UploadSucceeds
<1>5. CASE UploadFails
    BY <1>5 DEF UploadFails
<1>. QED BY <1>1, <1>2, <1>3, <1>4, <1>5 DEF Uploader

LEMMA CommandInductive == CommandInv /\ [Next]_vars => CommandInv'
<1>. SUFFICES ASSUME CommandInv, [Next]_vars PROVE CommandInv'
    OBVIOUS
<1>1. CASE UNCHANGED vars
    BY <1>1 DEF vars, CommandInv, TypeOK, ChunksInv, WriterInv, UploadInv, Exited
<1>2. CASE Next
    BY <1>2, MainKeeps, OutputKeeps, UploaderKeeps DEF Next
<1>. QED BY <1>1, <1>2

LEMMA CommandInvariant == Spec => []CommandInv
    BY CommandInitial, CommandInductive, PTL DEF Spec

(* The variables stay in their ranges: at most PipeCap chunks wait in the  *)
(* operating-system pipe, and at most one in the io.Pipe.                  *)
THEOREM TypeCorrect == Spec => []TypeOK
    BY CommandInvariant, PTL DEF CommandInv

(* When ExecuteUserCommands returns nil the script exited with zero and    *)
(* the log that was committed holds all that it wrote.                     *)
THEOREM WholeLog == Spec => []SuccessMeansWholeLog
<1>1. CommandInv => SuccessMeansWholeLog
    BY DEF CommandInv, ChunksInv, UploadInv, SuccessMeansWholeLog
<1>. QED BY <1>1, CommandInvariant, PTL

(* When ExecuteUserCommands returns, neither the goroutine that copies the *)
(* output nor the one that uploads it is still at work.                    *)
THEOREM NothingOutlives == Spec => []NothingOutlivesTheCall
<1>1. CommandInv => NothingOutlivesTheCall
    BY DEF CommandInv, WriterInv, UploadInv, NothingOutlivesTheCall
<1>. QED BY <1>1, CommandInvariant, PTL

=============================================================================
