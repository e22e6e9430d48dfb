------------------------------ MODULE Pipeline ------------------------------
(***************************************************************************)
(* A nucleus process from its task's payload to its exit: Start of         *)
(* pkg/core/lifecycle.go, the goroutine it starts to report that the task  *)
(* is running, UpdateStatus of pkg/task/task.go, and run of                *)
(* cmd/nucleus/bin.go around them, with the HTTP server and the interrupt. *)
(*                                                                         *)
(* The goroutine and the body of Start share the named result err and the  *)
(* task payload without a lock.  A write of either is taken as atomic (a   *)
(* torn interface value is not modelled).                                  *)
(*                                                                         *)
(* The requests of a process that its end depends on are those of          *)
(* ApiRequests: the payload, and the two updates of the task's status.     *)
(***************************************************************************)
EXTENDS ApiRequests, Sequences

ASSUME PipelineAssumption ==
    Callers = {"payload", "marker", "final"} /\ WithBody = {"marker", "final"}

VARIABLES
    pc,          \* control state of Start and of the goroutine around it
    called,      \* the call of the current step was made, err not yet read
    err,         \* the named result of Start
    failure,     \* how the body of Start ended
    status,      \* taskPayload.Status
    marker,      \* state of the goroutine that marks the task as running
    markerBody,  \* the status its request carries
    overwritten, \* history: it overwrote an error of the body
    finalBody,   \* the status the last request carries
    neuron,      \* the status the neuron service has recorded
    canceled,    \* the context
    server,      \* whether the HTTP server's goroutine runs
    main,        \* control state of run in bin.go
    proc         \* "up", "exited", "killed", "fatal" or "crashed"

bodyVars == <<called, err, failure, status>>
markerVars == <<marker, markerBody, overwritten>>
mainVars == <<canceled, server, main>>
pipelineVars == <<pc, bodyVars, markerVars, finalBody, neuron, mainVars, proc>>
vars == <<pipelineVars, requestVars>>

Statuses == {"running", "passed", "failed", "error", "aborted"}

\* errs.StatusFailed, context.Canceled, and every other error.
Errors == {"failed", "canceled", "other"}

\* The calls of the body that may fail, in their order.
Steps == <<"oauth", "secrets", "workspace", "coverageDir", "tasFile", "version",
           "builder", "driver">>

StepNames == {Steps[n] : n \in DOMAIN Steps}
After(step) == LET n == CHOOSE n \in DOMAIN Steps : Steps[n] = step IN Steps[n + 1]

\* What a step's error may become before it is returned; a workspace that
\* cannot be had is a failed clone or, when the task executes, another error.
Returned(step, e) ==
    IF step \in {"oauth", "tasFile", "builder"} THEN {e}
    ELSE IF step = "version" THEN {"failed"}
    ELSE IF step = "workspace" THEN {"failed", "other"} ELSE {"other"}

TypeOK ==
    /\ pc \in {"payload", "coverage", "deferred", "classify", "marshal", "put",
               "returned", "ended"} \cup StepNames
    /\ called \in BOOLEAN /\ err \in Errors \cup {"nil"}
    /\ failure \in Errors \cup {"none", "panic"} /\ status \in Statuses
    /\ marker \in {"none", "marshal", "put", "check", "done"}
    /\ markerBody \in Statuses \cup {"none"} /\ overwritten \in BOOLEAN
    /\ finalBody \in Statuses \cup {"none"}
    /\ neuron \in Statuses \cup {"none"} /\ RequestTypeOK
    /\ canceled \in BOOLEAN /\ server \in {"up", "down"} /\ main \in {"select", "grace"}
    /\ proc \in {"up", "exited", "killed", "fatal", "crashed"}

Init ==
    /\ pc = "payload"
    /\ called = FALSE /\ err = "nil" /\ failure = "none" /\ status = "running"
    /\ marker = "none" /\ markerBody = "none" /\ overwritten = FALSE
    /\ finalBody = "none" /\ neuron = "none" /\ RequestInit
    /\ canceled = FALSE /\ server = "up" /\ main = "select" /\ proc = "up"

-----------------------------------------------------------------------------
(* The body of Start.                                                      *)

FetchPayload ==
    /\ pc = "payload" /\ BeginRequest("payload")
    /\ UNCHANGED pipelineVars

\* The payload was fetched and is valid; the marker is started.
PayloadFetched ==
    /\ pc = "payload" /\ call["payload"] = "ok"
    /\ pc' = Steps[1] /\ marker' = "marshal"
    /\ UNCHANGED <<bodyVars, markerBody, overwritten, finalBody, neuron, mainVars, proc,
                   requestVars>>

\* Fatalf ends the process, before any status is sent.
PayloadFails ==
    /\ pc = "payload" /\ call["payload"] \in Answered
    /\ proc' = "fatal"
    /\ UNCHANGED <<pc, bodyVars, markerVars, finalBody, neuron, mainVars, requestVars>>

\* In coverage mode the process exits, or fails, without a status.
MergeAndUpload ==
    /\ pc = "payload" /\ call["payload"] = "ok"
    /\ pc' = "coverage" /\ proc' \in {"exited", "fatal"}
    /\ UNCHANGED <<bodyVars, markerVars, finalBody, neuron, mainVars, requestVars>>

\* err = the step's call.
CallStep(step) ==
    /\ pc = step /\ step # "driver" /\ ~called
    /\ called' = TRUE /\ err' \in {"nil", "other"}
    /\ UNCHANGED <<pc, failure, status, markerVars, finalBody, neuron, mainVars, proc, requestVars>>

\* if err != nil
CheckStep(step) ==
    /\ pc = step /\ called
    /\ called' = FALSE
    /\ IF err = "nil" THEN pc' = After(step) /\ UNCHANGED <<err, failure>>
                      ELSE /\ pc' = "deferred"
                           /\ err' \in Returned(step, err) /\ failure' = err'
    /\ UNCHANGED <<status, markerVars, finalBody, neuron, mainVars, proc, requestVars>>

\* While it runs the driver sets the status: to passed, to error when a pre-run
\* failed, or to what neuron answered to the results.
DriverSetsStatus ==
    /\ pc = "driver"
    /\ status' \in {"passed", "failed", "error"}
    /\ UNCHANGED <<pc, called, err, failure, markerVars, finalBody, neuron, mainVars, proc,
                   requestVars>>

\* return err, which nothing reads before; only the driver passes on the error
\* of a cancelled context.
DriverReturns ==
    /\ pc = "driver"
    /\ pc' = "deferred"
    /\ err' \in {"nil", "failed", "other"} \cup (IF canceled THEN {"canceled"} ELSE {})
    /\ failure' = IF err' = "nil" THEN "none" ELSE err'
    /\ UNCHANGED <<called, status, markerVars, finalBody, neuron, mainVars, proc, requestVars>>

DriverPanics ==
    /\ pc = "driver"
    /\ pc' = "deferred" /\ failure' = "panic"
    /\ UNCHANGED <<called, err, status, markerVars, finalBody, neuron, mainVars, proc, requestVars>>

-----------------------------------------------------------------------------
(* The deferred function.                                                  *)

\* recover(), then the first look at err.
Deferred ==
    /\ pc = "deferred"
    /\ IF failure = "panic" THEN status' = "error" /\ pc' = "marshal"
       ELSE UNCHANGED status /\ pc' = IF err = "nil" THEN "marshal" ELSE "classify"
    /\ UNCHANGED <<called, err, failure, markerVars, finalBody, neuron, mainVars, proc, requestVars>>

\* Mutant of StatusOf: an aborted task counts as an error.
StatusWithoutAbort(e) == IF e = "failed" THEN "failed" ELSE "error"

StatusOf(e) ==
    IF e = "canceled" THEN "aborted" ELSE IF e = "failed" THEN "failed" ELSE "error"

\* Mutant of Classify: the error itself is stored as the status.
ClassifyRaw ==
    /\ pc = "classify"
    /\ status' = err
    /\ IF err = "nil" THEN proc' = "crashed" /\ UNCHANGED pc
                      ELSE pc' = "marshal" /\ UNCHANGED proc
    /\ UNCHANGED <<called, err, failure, markerVars, finalBody, neuron, mainVars, requestVars>>

\* The later ones: if err has become nil, err.Error() panics with nothing to
\* recover it.
Classify ==
    /\ pc = "classify"
    /\ status' = StatusOf(err)
    /\ IF err = "nil" THEN proc' = "crashed" /\ UNCHANGED pc
                      ELSE pc' = "marshal" /\ UNCHANGED proc
    /\ UNCHANGED <<called, err, failure, markerVars, finalBody, neuron, mainVars, requestVars>>

MarshalFinal ==
    /\ pc = "marshal"
    /\ finalBody' = status /\ pc' = "put" /\ BeginRequest("final")
    /\ UNCHANGED <<bodyVars, markerVars, neuron, mainVars, proc>>

\* Mutant of FinalAnswer: an error of the last update is only logged.
FinalAnswerIgnored ==
    /\ pc = "put" /\ call["final"] \in Answered
    /\ err' = IF call["final"] = "ok" THEN "nil" ELSE "other"
    /\ pc' = "returned"
    /\ UNCHANGED <<called, failure, status, markerVars, finalBody, neuron, mainVars, proc,
                   requestVars>>

\* UpdateStatus returns; its error is fatal.
FinalAnswer ==
    /\ pc = "put" /\ call["final"] \in Answered
    /\ IF call["final"] = "ok" THEN err' = "nil" /\ pc' = "returned" /\ UNCHANGED proc
                               ELSE err' = "other" /\ proc' = "fatal" /\ UNCHANGED pc
    /\ UNCHANGED <<called, failure, status, markerVars, finalBody, neuron, mainVars, requestVars>>

-----------------------------------------------------------------------------
(* The goroutine that marks the task as running, and neuron.               *)

MarshalMarker ==
    /\ marker = "marshal"
    /\ markerBody' = status /\ marker' = "put" /\ BeginRequest("marker")
    /\ UNCHANGED <<pc, bodyVars, overwritten, finalBody, neuron, mainVars, proc>>

\* err = UpdateStatus(...), the err of Start.
MarkerAnswer ==
    /\ marker = "put" /\ call["marker"] \in Answered
    /\ err' = IF call["marker"] = "ok" THEN "nil" ELSE "other"
    /\ marker' = "check"
    /\ overwritten' = (overwritten \/ (err # "nil" /\ err' # err))
    /\ UNCHANGED <<pc, called, failure, status, markerBody, finalBody, neuron, mainVars, proc,
                   requestVars>>

\* if err != nil: whoever wrote it since.
MarkerCheck ==
    /\ marker = "check"
    /\ IF err = "nil" THEN marker' = "done" /\ UNCHANGED proc
                      ELSE proc' = "fatal" /\ UNCHANGED marker
    /\ UNCHANGED <<pc, bodyVars, markerBody, overwritten, finalBody, neuron, mainVars, requestVars>>

Requests ==
    /\ \E c \in Callers : RequestStep(c)
    /\ UNCHANGED pipelineVars

Time == LimitExceeded /\ UNCHANGED pipelineVars

\* The driver makes requests of its own.
DriverRequests == pc = "driver" /\ OtherRequest /\ UNCHANGED pipelineVars

\* Neuron records the status of an update; it answers the payload as it is.
Record(c) ==
    /\ HandleRequest(c)
    /\ neuron' = CASE c = "marker" -> markerBody
                   [] c = "final" -> finalBody
                   [] OTHER -> neuron
    /\ UNCHANGED <<pc, bodyVars, markerVars, finalBody, mainVars, proc>>

-----------------------------------------------------------------------------
(* run of bin.go: the two goroutines, the interrupt, the exit.             *)

\* Mutant of PipelineEnds: the context is not cancelled.
PipelineEndsQuietly ==
    /\ pc = "returned"
    /\ pc' = "ended"
    /\ UNCHANGED <<bodyVars, markerVars, finalBody, neuron, mainVars, proc, requestVars>>

\* Start has returned: wg.Done() and cancel().
PipelineEnds ==
    /\ pc = "returned"
    /\ pc' = "ended" /\ canceled' = TRUE
    /\ UNCHANGED <<bodyVars, markerVars, finalBody, neuron, server, main, proc, requestVars>>

\* The server stops with the context, which it cancels if it fails by itself.
ServerStops ==
    /\ server = "up"
    /\ server' = "down" /\ canceled' = TRUE
    /\ UNCHANGED <<pc, bodyVars, markerVars, finalBody, neuron, main, proc, requestVars>>

Interrupt ==
    /\ main = "select"
    /\ main' = "grace" /\ canceled' = TRUE
    /\ UNCHANGED <<pc, bodyVars, markerVars, finalBody, neuron, server, proc, requestVars>>

\* Both goroutines are done.
Exit ==
    /\ pc = "ended" /\ server = "down"
    /\ proc' = "exited"
    /\ UNCHANGED <<pc, bodyVars, markerVars, finalBody, neuron, mainVars, requestVars>>

GracefulTimeout ==
    /\ main = "grace"
    /\ proc' = "killed"
    /\ UNCHANGED <<pc, bodyVars, markerVars, finalBody, neuron, mainVars, requestVars>>

-----------------------------------------------------------------------------
Body == \/ FetchPayload \/ PayloadFetched \/ PayloadFails \/ MergeAndUpload
        \/ \E step \in StepNames : CallStep(step) \/ CheckStep(step)
        \/ DriverSetsStatus \/ DriverReturns \/ DriverPanics
End == Deferred \/ Classify \/ MarshalFinal \/ FinalAnswer \/ PipelineEnds
Marker == MarshalMarker \/ MarkerAnswer \/ MarkerCheck

Next ==
    /\ proc = "up"
    /\ \/ Body \/ End \/ Marker
       \/ Requests \/ Time \/ DriverRequests \/ \E c \in Callers : Record(c)
       \/ ServerStops \/ Interrupt \/ Exit \/ GracefulTimeout

Spec == Init /\ [][Next]_vars

\* The goroutines run: the end of Start, and every request, which the client's
\* timeout ends if no answer does.  The server's select sees the cancelled
\* context; timers fire, and time passes.  Nothing is assumed of the body, which
\* a script may keep for ever, or of neuron.
Fairness ==
    /\ WF_vars(proc = "up" /\ End)
    /\ \A c \in Callers :
        WF_vars(proc = "up" /\ RequestStep(c) /\ UNCHANGED pipelineVars)
    /\ WF_vars(proc = "up" /\ Time)
    /\ WF_vars(proc = "up" /\ canceled /\ ServerStops)
    /\ WF_vars(proc = "up" /\ Exit)
    /\ WF_vars(proc = "up" /\ GracefulTimeout)

FairSpec == Spec /\ Fairness

-----------------------------------------------------------------------------
(* A process that ends by itself after a task has had its final status     *)
(* recorded; only a fatal error, a crash or an exceeded grace period ends  *)
(* it without.                                                             *)
ExitMeansReported ==
    proc = "exited" => pc = "coverage" \/ handled["final"] = 1

(* However the body ended, the final status says so: aborted, failed or    *)
(* error, never what the driver had set before, unless the goroutine that  *)
(* marks the task as running overwrote the error with its own result.      *)
FailureIsReported ==
    finalBody # "none" /\ failure # "none" /\ ~overwritten =>
        finalBody = CASE failure = "canceled" -> "aborted"
                      [] failure = "failed" -> "failed"
                      [] OTHER -> "error"

(* Once the body has ended, in whatever way, or main was interrupted, the  *)
(* process ends, though requests fail and reset each other's backoff.      *)
ProcessEnds == (pc \in {"deferred", "ended"} \/ main = "grace") ~> (proc # "up")

(* Every update of the status is recorded at most once, and has been when  *)
(* UpdateStatus returns nil, whatever is retried: MakeAPIRequest           *)
(* implements the contract of ApiContract.                                 *)
RequestsKeepContract == Contract!Spec
=============================================================================
