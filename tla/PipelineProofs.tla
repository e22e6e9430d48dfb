--------------------------- MODULE PipelineProofs ---------------------------
(***************************************************************************)
(* Proofs about Pipeline and the requests it makes: MakeAPIRequest keeps   *)
(* the contract of ApiContract, a process that exits has reported, and the *)
(* last status says how the body ended.                                    *)
(***************************************************************************)
EXTENDS Pipeline, TLAPS

-----------------------------------------------------------------------------
(* Requests.                                                               *)

\* A request whose body is still to be read has done nothing; one that was sent
\* is not sent again, so it is handled at most once.
BodyReadOnce ==
    \A c \in WithBody :
        /\ call[c] = "idle" => ~consumed[c]
        /\ ~consumed[c] => message[c] = "none" /\ handled[c] = 0
        /\ message[c] = "sent" => handled[c] = 0
        /\ message[c] = "handled" => handled[c] = 1
        /\ handled[c] \in {0, 1}
        /\ call[c] = "ok" => handled[c] = 1

RequestInv == RequestTypeOK /\ BodyReadOnce

\* The steps of ApiRequests.
RequestNext ==
    \/ \E c \in Callers : BeginRequest(c) \/ RequestStep(c) \/ HandleRequest(c)
    \/ LimitExceeded \/ OtherRequest

\* The requests of a process change by the steps of ApiRequests only.
LEMMA OnlyRequestSteps == [Next]_vars => [RequestNext]_requestVars
<1>. SUFFICES ASSUME [Next]_vars PROVE [RequestNext]_requestVars
    OBVIOUS
<1>. USE PipelineAssumption
<1>1. CASE UNCHANGED vars
    BY <1>1 DEF vars
<1>2. CASE Body
    <2>1. CASE FetchPayload
        BY <2>1 DEF FetchPayload, RequestNext
    <2>2. CASE ~FetchPayload
        BY <1>2, <2>2 DEF Body, PayloadFetched, PayloadFails, MergeAndUpload, CallStep,
            CheckStep, DriverSetsStatus, DriverReturns, DriverPanics
    <2>. QED BY <2>1, <2>2
<1>3. CASE End
    <2>1. CASE MarshalFinal
        BY <2>1 DEF MarshalFinal, RequestNext
    <2>2. CASE ~MarshalFinal
        BY <1>3, <2>2 DEF End, Deferred, Classify, FinalAnswer, PipelineEnds
    <2>. QED BY <2>1, <2>2
<1>4. CASE Marker
    <2>1. CASE MarshalMarker
        BY <2>1 DEF MarshalMarker, RequestNext
    <2>2. CASE ~MarshalMarker
        BY <1>4, <2>2 DEF Marker, MarkerAnswer, MarkerCheck
    <2>. QED BY <2>1, <2>2
<1>5. CASE Requests \/ Time \/ DriverRequests \/ \E c \in Callers : Record(c)
    BY <1>5 DEF Requests, Time, DriverRequests, Record, RequestNext
<1>6. CASE ServerStops \/ Interrupt \/ Exit \/ GracefulTimeout
    BY <1>6 DEF ServerStops, Interrupt, Exit, GracefulTimeout
<1>. QED BY <1>1, <1>2, <1>3, <1>4, <1>5, <1>6 DEF Next

LEMMA RequestInitInv == RequestInit => RequestInv
<1>. SUFFICES ASSUME RequestInit PROVE RequestTypeOK /\ BodyReadOnce
    BY DEF RequestInv
<1>1. RequestTypeOK
    <2>1. handled \in [Callers -> 0..2]
        BY DEF RequestInit
    <2>2. /\ call \in [Callers -> {"idle", "send", "wait", "error", "sleep"} \cup Answered]
          /\ consumed \in [Callers -> BOOLEAN]
          /\ message \in [Callers -> {"none", "sent", "handled"}]
          /\ late \in BOOLEAN
        BY ZenonT(20) DEF RequestInit
    <2>. QED BY <2>1, <2>2 DEF RequestTypeOK
<1>2. BodyReadOnce
    BY RequestAssumption DEF RequestInit, BodyReadOnce
<1>. QED BY <1>1, <1>2

\* One request moves; the others keep what they have.
LEMMA RequestStepInv ==
    ASSUME RequestInv, [RequestNext]_requestVars
    PROVE  RequestInv'
<1>. USE RequestAssumption DEF RequestInv, RequestTypeOK, BodyReadOnce, Answered, To
<1>1. CASE UNCHANGED requestVars
    BY <1>1 DEF requestVars
<1>2. CASE LimitExceeded \/ OtherRequest
    BY <1>2 DEF LimitExceeded, OtherRequest
<1>3. ASSUME NEW c \in Callers, BeginRequest(c) PROVE RequestInv'
    BY <1>3 DEF BeginRequest
<1>4. ASSUME NEW c \in Callers, SendRequest(c) PROVE RequestInv'
    BY <1>4, ZenonT(60) DEF SendRequest, Sendable
<1>5. ASSUME NEW c \in Callers, Answer(c) PROVE RequestInv'
    BY <1>5 DEF Answer
<1>6. ASSUME NEW c \in Callers, NextBackOff(c) \/ TryAgain(c) PROVE RequestInv'
    BY <1>6 DEF NextBackOff, TryAgain
<1>7. ASSUME NEW c \in Callers, HandleRequest(c) PROVE RequestInv'
    BY <1>7 DEF HandleRequest
<1>. QED BY <1>1, <1>2, <1>3, <1>4, <1>5, <1>6, <1>7 DEF RequestNext, RequestStep

LEMMA RequestsCorrect == Spec => []RequestInv
<1>1. Init => RequestInv
    BY RequestInitInv DEF Init
<1>2. RequestInv /\ [Next]_vars => RequestInv'
    BY OnlyRequestSteps, RequestStepInv
<1>. QED BY <1>1, <1>2, PTL DEF Spec

-----------------------------------------------------------------------------
(* The contract.                                                           *)

\* What the refinement mapping makes of a request.
Seen(c) == IF call[c] \in {"idle"} \cup Answered THEN call[c] ELSE "open"

LEMMA ContractInit == RequestInit => Contract!Init
    BY RequestAssumption DEF RequestInit, Contract!Init, Answered

\* A step of a request without a body is invisible; one with a body begins, is
\* handled, returns, or does what the caller does not see.
LEMMA ContractStep ==
    ASSUME RequestInv, [RequestNext]_requestVars
    PROVE  [Contract!Next]_(Contract!contractVars)
<1>. USE RequestAssumption DEF RequestInv, RequestTypeOK, Answered, To, Contract!contractVars
<1>1. CASE UNCHANGED requestVars
    BY <1>1 DEF requestVars
<1>2. CASE LimitExceeded \/ OtherRequest
    BY <1>2 DEF LimitExceeded, OtherRequest
<1>3. ASSUME NEW c \in Callers, BeginRequest(c)
      PROVE  [Contract!Next]_(Contract!contractVars)
    BY <1>3 DEF BeginRequest, Contract!Next, Contract!Begin
<1>4. ASSUME NEW c \in Callers, SendRequest(c) \/ TryAgain(c)
      PROVE  UNCHANGED Contract!contractVars
    BY <1>4 DEF SendRequest, TryAgain
<1>5. ASSUME NEW c \in Callers, Answer(c) \/ NextBackOff(c)
      PROVE  [Contract!Next]_(Contract!contractVars)
    <2>1. UNCHANGED handled /\ \A d \in Callers \ {c} : call'[d] = call[d]
        BY <1>5 DEF Answer, NextBackOff
    <2>2. call[c] \in {"wait", "error"} /\ call'[c] \in {"ok", "failed", "error", "sleep"}
        BY <1>5 DEF Answer, NextBackOff
    <2>3. CASE call'[c] \notin Answered \/ c \notin WithBody
        BY <2>1, <2>2, <2>3
    <2>4. CASE call'[c] \in Answered /\ c \in WithBody
        <3>1. call'[c] = "ok" => handled[c] = 1
            BY <1>5, <2>4 DEF Answer, NextBackOff, BodyReadOnce
        <3>2. Contract!Return(c)
            BY <2>1, <2>2, <2>4, <3>1 DEF Contract!Return
        <3>. QED BY <2>4, <3>2 DEF Contract!Next
    <2>. QED BY <2>3, <2>4
<1>6. ASSUME NEW c \in Callers, HandleRequest(c)
      PROVE  [Contract!Next]_(Contract!contractVars)
    <2>1. CASE c \notin WithBody
        BY <1>6, <2>1 DEF HandleRequest
    <2>2. CASE c \in WithBody
        <3>1. call[c] # "idle" /\ handled[c] = 0
            BY <1>6, <2>2 DEF HandleRequest, BodyReadOnce
        <3>2. UNCHANGED call /\ handled' = [handled EXCEPT ![c] = 1]
            BY <1>6, <3>1 DEF HandleRequest
        <3>3. Contract!Handle(c)
            BY <2>2, <3>1, <3>2 DEF Contract!Handle
        <3>. QED BY <2>2, <3>3 DEF Contract!Next
    <2>. QED BY <2>1, <2>2
<1>. QED BY <1>1, <1>2, <1>3, <1>4, <1>5, <1>6 DEF RequestNext, RequestStep

(* MakeAPIRequest implements its contract in every process whose requests  *)
(* change by its steps only: an update of the status is recorded at most   *)
(* once, and has been when the call returns nil.                           *)
THEOREM RequestsImplementContract == Spec => RequestsKeepContract
<1>1. Init => Contract!Init
    BY ContractInit DEF Init
<1>2. RequestInv /\ [Next]_vars => [Contract!Next]_(Contract!contractVars)
    BY OnlyRequestSteps, ContractStep
<1>. QED BY <1>1, <1>2, RequestsCorrect, PTL DEF Spec, RequestsKeepContract, Contract!Spec

-----------------------------------------------------------------------------
(* Type correctness of the process.                                        *)

LEMMA StepsInOrder ==
    /\ Steps[1] \in StepNames
    /\ StepNames = {"oauth", "secrets", "workspace", "coverageDir", "tasFile", "version",
                    "builder", "driver"}
    /\ \A step \in StepNames \ {"driver"} : After(step) \in StepNames
<1>1. DOMAIN Steps = 1..8
    BY DEF Steps
<1>2. /\ Steps[1] = "oauth" /\ Steps[2] = "secrets" /\ Steps[3] = "workspace"
      /\ Steps[4] = "coverageDir" /\ Steps[5] = "tasFile" /\ Steps[6] = "version"
      /\ Steps[7] = "builder" /\ Steps[8] = "driver"
    BY DEF Steps
<1>3. \A n : n \in 1..8 <=> n \in {1, 2, 3, 4, 5, 6, 7, 8}
    OBVIOUS
<1>4. StepNames = {"oauth", "secrets", "workspace", "coverageDir", "tasFile", "version",
                   "builder", "driver"}
    <2>1. StepNames = {Steps[1], Steps[2], Steps[3], Steps[4], Steps[5], Steps[6], Steps[7],
                       Steps[8]}
        BY <1>1, <1>3 DEF StepNames
    <2>. QED BY <2>1, <1>2
<1>5. ASSUME NEW step \in StepNames \ {"driver"} PROVE After(step) \in StepNames
    <2>. DEFINE n == CHOOSE k \in DOMAIN Steps : Steps[k] = step
    <2>1. \E k \in DOMAIN Steps : Steps[k] = step
        BY <1>5 DEF StepNames
    <2>2. n \in DOMAIN Steps /\ Steps[n] = step
        BY <2>1
    <2>3. n + 1 \in DOMAIN Steps
        <3>1. n \in 1..8 /\ n # 8
            BY <1>1, <1>2, <1>5, <2>2
        <3>. HIDE DEF n
        <3>. QED BY <1>1, <3>1
    <2>. QED BY <2>3 DEF After, StepNames
<1>. QED BY <1>2, <1>4, <1>5

\* A call is looked at in the step that made it; the driver's is not looked at.
CalledInStep == called => pc \in StepNames \ {"driver"}

TypeInv == TypeOK /\ CalledInStep

LEMMA TypeBody == TypeInv /\ RequestTypeOK' /\ Body => TypeInv'
<1>. SUFFICES ASSUME TypeInv, RequestTypeOK', Body PROVE TypeOK' /\ CalledInStep'
    BY DEF TypeInv
<1>. USE DEF TypeInv, TypeOK, CalledInStep, bodyVars, markerVars, mainVars, Statuses, Errors
<1>1. CASE FetchPayload
    BY <1>1 DEF FetchPayload, pipelineVars
<1>2. CASE PayloadFetched
    BY <1>2, StepsInOrder DEF PayloadFetched
<1>3. CASE PayloadFails
    BY <1>3 DEF PayloadFails
<1>4. CASE MergeAndUpload
    BY <1>4, StepsInOrder DEF MergeAndUpload
<1>5. ASSUME NEW step \in StepNames, CallStep(step) PROVE TypeOK' /\ CalledInStep'
    BY <1>5 DEF CallStep
<1>6. ASSUME NEW step \in StepNames, CheckStep(step) PROVE TypeOK' /\ CalledInStep'
    <2>1. After(step) \in StepNames
        BY <1>6, StepsInOrder DEF CheckStep
    <2>2. err # "nil" => Returned(step, err) \subseteq Errors
        BY DEF Returned
    <2>3. called' = FALSE
        BY <1>6 DEF CheckStep
    <2>4. /\ pc' \in StepNames \cup {"deferred"}
          /\ err' \in Errors \cup {"nil"} /\ failure' \in Errors \cup {"none", "panic"}
        BY <1>6, <2>1, <2>2 DEF CheckStep
    <2>5. UNCHANGED <<status, marker, markerBody, overwritten, finalBody, neuron, canceled,
                      server, main, proc>>
        BY <1>6 DEF CheckStep
    <2>6. /\ status' \in Statuses /\ neuron' \in Statuses \cup {"none"}
          /\ markerBody' \in Statuses \cup {"none"} /\ finalBody' \in Statuses \cup {"none"}
        BY <2>5
    <2>7. /\ marker' \in {"none", "marshal", "put", "check", "done"}
          /\ overwritten' \in BOOLEAN /\ canceled' \in BOOLEAN
          /\ server' \in {"up", "down"} /\ main' \in {"select", "grace"}
          /\ proc' \in {"up", "exited", "killed", "fatal", "crashed"}
        BY <2>5
    <2>. QED BY <2>3, <2>4, <2>6, <2>7
<1>7. CASE DriverSetsStatus
    BY <1>7 DEF DriverSetsStatus
<1>8. CASE DriverReturns
    BY <1>8 DEF DriverReturns
<1>9. CASE DriverPanics
    BY <1>9 DEF DriverPanics
<1>. QED BY <1>1, <1>2, <1>3, <1>4, <1>5, <1>6, <1>7, <1>8, <1>9 DEF Body

LEMMA TypeEnd == TypeInv /\ RequestTypeOK' /\ End => TypeInv'
<1>. SUFFICES ASSUME TypeInv, RequestTypeOK', End PROVE TypeOK' /\ CalledInStep'
    BY DEF TypeInv
<1>. USE StepsInOrder DEF TypeInv, TypeOK, CalledInStep, bodyVars, markerVars, mainVars,
        Statuses, Errors
<1>1. CASE Deferred
    BY <1>1 DEF Deferred
<1>2. CASE Classify
    BY <1>2 DEF Classify, StatusOf
<1>3. CASE MarshalFinal
    BY <1>3 DEF MarshalFinal
<1>4. CASE FinalAnswer
    BY <1>4 DEF FinalAnswer
<1>5. CASE PipelineEnds
    BY <1>5 DEF PipelineEnds
<1>. QED BY <1>1, <1>2, <1>3, <1>4, <1>5 DEF End

LEMMA TypeMarker == TypeInv /\ RequestTypeOK' /\ Marker => TypeInv'
<1>. SUFFICES ASSUME TypeInv, RequestTypeOK', Marker PROVE TypeOK' /\ CalledInStep'
    BY DEF TypeInv
<1>. USE DEF TypeInv, TypeOK, CalledInStep, bodyVars, mainVars, Statuses, Errors
<1>1. CASE MarshalMarker
    BY <1>1 DEF MarshalMarker
<1>2. CASE MarkerAnswer
    BY <1>2 DEF MarkerAnswer
<1>3. CASE MarkerCheck
    BY <1>3 DEF MarkerCheck
<1>. QED BY <1>1, <1>2, <1>3 DEF Marker

LEMMA TypeOthers ==
    ASSUME TypeInv, RequestTypeOK',
           \/ Requests \/ Time \/ DriverRequests \/ \E c \in Callers : Record(c)
           \/ ServerStops \/ Interrupt \/ Exit \/ GracefulTimeout
    PROVE  TypeInv'
<1>. USE DEF TypeInv, TypeOK, CalledInStep, bodyVars, markerVars, mainVars, Statuses, Errors
<1>1. CASE Requests \/ Time \/ DriverRequests
    BY <1>1 DEF Requests, Time, DriverRequests, pipelineVars
<1>2. ASSUME NEW c \in Callers, Record(c) PROVE TypeInv'
    BY <1>2 DEF Record
<1>3. CASE ServerStops
    BY <1>3 DEF ServerStops
<1>4. CASE Interrupt
    BY <1>4 DEF Interrupt
<1>5. CASE Exit \/ GracefulTimeout
    BY <1>5 DEF Exit, GracefulTimeout
<1>. QED BY <1>1, <1>2, <1>3, <1>4, <1>5

LEMMA TypeInitInv == Init => TypeInv
    BY RequestInitInv DEF Init, TypeInv, TypeOK, CalledInStep, Statuses, Errors, RequestInv

LEMMA TypeStep == TypeInv /\ RequestInv' /\ [Next]_vars => TypeInv'
<1>. SUFFICES ASSUME TypeInv, RequestInv', [Next]_vars PROVE TypeInv'
    OBVIOUS
<1>1. RequestTypeOK'
    BY DEF RequestInv
<1>2. CASE UNCHANGED vars
    BY <1>1, <1>2 DEF vars, pipelineVars, bodyVars, markerVars, mainVars, TypeInv, TypeOK,
        CalledInStep
<1>3. CASE Next
    BY <1>1, <1>3, TypeBody, TypeEnd, TypeMarker, TypeOthers DEF Next
<1>. QED BY <1>2, <1>3

LEMMA TypeInvariant == Spec => []TypeInv
    BY TypeInitInv, TypeStep, RequestsCorrect, PTL DEF Spec

(* Every variable of the process keeps its range: the status, the error    *)
(* and the requests.                                                       *)
THEOREM TypeCorrect == Spec => []TypeOK
<1>1. TypeInv => TypeOK
    BY DEF TypeInv
<1>. QED BY <1>1, TypeInvariant, PTL

-----------------------------------------------------------------------------
(* The exit.                                                               *)

\* What returned without error stays so.
LEMMA OkStays ==
    ASSUME RequestInv, [RequestNext]_requestVars, NEW c \in Callers, call[c] = "ok"
    PROVE  call'[c] = "ok"
<1>. USE DEF RequestInv, RequestTypeOK, Answered, To
<1>1. CASE UNCHANGED requestVars
    BY <1>1 DEF requestVars
<1>2. CASE LimitExceeded \/ OtherRequest
    BY <1>2 DEF LimitExceeded, OtherRequest
<1>3. ASSUME NEW d \in Callers, BeginRequest(d) \/ RequestStep(d) \/ HandleRequest(d)
      PROVE  call'[c] = "ok"
    BY <1>3 DEF BeginRequest, RequestStep, SendRequest, Answer, NextBackOff, TryAgain,
        HandleRequest
<1>. QED BY <1>1, <1>2, <1>3 DEF RequestNext

\* Start returns, and the process exits, only after the last update succeeded.
ExitInv ==
    /\ pc \in {"returned", "ended"} => call["final"] = "ok"
    /\ proc = "exited" => pc = "coverage" \/ call["final"] = "ok"

LEMMA ExitStep == TypeInv /\ RequestInv /\ ExitInv /\ [Next]_vars => ExitInv'
<1>. SUFFICES ASSUME TypeInv, RequestInv, ExitInv, [Next]_vars PROVE ExitInv'
    OBVIOUS
<1>0. call["final"] = "ok" => call'["final"] = "ok"
    BY OnlyRequestSteps, OkStays, PipelineAssumption
<1>. USE <1>0, StepsInOrder DEF ExitInv
<1>1. CASE UNCHANGED vars
    BY <1>1 DEF vars, pipelineVars
<1>2. CASE proc = "up" /\ Body
    <2>. SUFFICES pc' \notin {"returned", "ended"} /\ (proc' = "exited" => pc' = "coverage")
        OBVIOUS
    <2>1. ASSUME NEW step \in StepNames, CheckStep(step)
          PROVE  pc' \in StepNames \cup {"deferred"} /\ proc' = "up"
        BY <1>2, <2>1 DEF CheckStep, TypeInv, CalledInStep
    <2>2. ASSUME NEW step \in StepNames, CallStep(step)
          PROVE  pc' \in StepNames /\ proc' = "up"
        BY <1>2, <2>2 DEF CallStep
    <2>3. CASE FetchPayload \/ PayloadFetched \/ PayloadFails \/ MergeAndUpload
        BY <1>2, <2>3 DEF FetchPayload, pipelineVars, PayloadFetched, PayloadFails,
            MergeAndUpload
    <2>4. CASE DriverSetsStatus \/ DriverReturns \/ DriverPanics
        BY <1>2, <2>4 DEF DriverSetsStatus, DriverReturns, DriverPanics
    <2>. QED BY <1>2, <2>1, <2>2, <2>3, <2>4 DEF Body
<1>3. CASE proc = "up" /\ End
    BY <1>3 DEF End, Deferred, Classify, MarshalFinal, FinalAnswer, PipelineEnds, Answered
<1>4. CASE proc = "up" /\ Marker
    BY <1>4 DEF Marker, MarshalMarker, MarkerAnswer, MarkerCheck
<1>5. CASE proc = "up" /\ (Requests \/ Time \/ DriverRequests \/ \E c \in Callers : Record(c))
    BY <1>5 DEF Requests, Time, DriverRequests, Record, pipelineVars
<1>6. CASE proc = "up" /\ (ServerStops \/ Interrupt \/ Exit \/ GracefulTimeout)
    BY <1>6 DEF ServerStops, Interrupt, Exit, GracefulTimeout
<1>. QED BY <1>1, <1>2, <1>3, <1>4, <1>5, <1>6 DEF Next

(* A process that ends by itself after a task has had its final status     *)
(* recorded, once.                                                         *)
THEOREM ExitReported == Spec => []ExitMeansReported
<1>1. Init => ExitInv
    BY DEF Init, ExitInv
<1>2. RequestInv /\ ExitInv => ExitMeansReported
    BY PipelineAssumption DEF RequestInv, BodyReadOnce, ExitInv, ExitMeansReported
<1>. QED BY <1>1, <1>2, ExitStep, TypeInvariant, RequestsCorrect, PTL DEF Spec

-----------------------------------------------------------------------------
(* The last status.                                                        *)

\* The status an ending of the body is to be reported with.
Expected ==
    CASE failure = "canceled" -> "aborted"
      [] failure = "failed" -> "failed"
      [] OTHER -> "error"

\* As long as nobody has overwritten it, err is the error of the body, until the
\* status is made of it; then the status is, until the request is made of that.
FailureInv ==
    /\ pc \in StepNames \cup {"payload", "coverage"} => failure = "none"
    /\ pc = "classify" => failure # "panic"
    /\ pc \in {"deferred", "classify"} /\ ~overwritten /\ failure \in Errors => err = failure
    /\ pc = "marshal" /\ ~overwritten /\ failure # "none" => status = Expected
    /\ finalBody # "none" => pc \in {"put", "returned", "ended"}
    /\ finalBody # "none" /\ ~overwritten /\ failure # "none" => finalBody = Expected

LEMMA FailureStep == TypeInv /\ FailureInv /\ [Next]_vars => FailureInv'
<1>. SUFFICES ASSUME TypeInv, FailureInv, [Next]_vars PROVE FailureInv'
    OBVIOUS
<1>0. /\ "payload" \notin StepNames /\ "deferred" \notin StepNames
      /\ "marshal" \notin StepNames /\ "classify" \notin StepNames
      /\ "put" \notin StepNames /\ "returned" \notin StepNames /\ "ended" \notin StepNames
      /\ "driver" \in StepNames
    BY StepsInOrder
<1>. USE <1>0 DEF FailureInv, Expected, bodyVars, markerVars, mainVars
<1>1. CASE UNCHANGED <<pc, failure, err, status, overwritten, finalBody>>
    BY <1>1
<1>2. CASE FetchPayload \/ PayloadFails
    BY <1>1, <1>2 DEF FetchPayload, PayloadFails, pipelineVars
<1>3. CASE PayloadFetched \/ MergeAndUpload
    BY <1>3, StepsInOrder DEF PayloadFetched, MergeAndUpload
<1>4. ASSUME NEW step \in StepNames, CallStep(step) PROVE FailureInv'
    BY <1>4 DEF CallStep, Errors
<1>5. ASSUME NEW step \in StepNames, CheckStep(step) PROVE FailureInv'
    <2>1. After(step) \in StepNames
        BY <1>5, StepsInOrder DEF CheckStep, TypeInv, CalledInStep
    <2>2. UNCHANGED <<status, overwritten, finalBody>> /\ pc = step
        BY <1>5 DEF CheckStep
    <2>3. CASE err = "nil"
        BY <1>5, <2>1, <2>2, <2>3 DEF CheckStep
    <2>4. CASE err # "nil"
        BY <1>5, <2>2, <2>4 DEF CheckStep
    <2>. QED BY <2>3, <2>4
<1>6. CASE DriverSetsStatus \/ DriverReturns \/ DriverPanics
    BY <1>6 DEF DriverSetsStatus, DriverReturns, DriverPanics, Errors
<1>7. CASE Deferred
    BY <1>7 DEF Deferred, TypeInv, TypeOK, Errors
<1>8. CASE Classify
    BY <1>8 DEF Classify, StatusOf, TypeInv, TypeOK, Errors
<1>9. CASE MarshalFinal
    BY <1>9 DEF MarshalFinal
<1>10. CASE FinalAnswer \/ PipelineEnds
    BY <1>10 DEF FinalAnswer, PipelineEnds
<1>11. CASE MarkerAnswer
    BY <1>11 DEF MarkerAnswer, TypeInv, TypeOK, Errors
<1>12. CASE MarshalMarker \/ MarkerCheck
    BY <1>1, <1>12 DEF MarshalMarker, MarkerCheck
<1>13. CASE Requests \/ Time \/ DriverRequests \/ \E c \in Callers : Record(c)
    BY <1>1, <1>13 DEF Requests, Time, DriverRequests, Record, pipelineVars
<1>14. CASE ServerStops \/ Interrupt \/ Exit \/ GracefulTimeout
    BY <1>1, <1>14 DEF ServerStops, Interrupt, Exit, GracefulTimeout
<1>15. CASE UNCHANGED vars
    BY <1>1, <1>15 DEF vars, pipelineVars
<1>. QED BY <1>2, <1>3, <1>4, <1>5, <1>6, <1>7, <1>8, <1>9, <1>10, <1>11, <1>12, <1>13,
            <1>14, <1>15 DEF Next, Body, End, Marker

(* However the body ended, by an error, a cancelled context or a panic, the *)
(* last status says so, unless the goroutine that marks the task as running *)
(* has overwritten the error.                                               *)
THEOREM FailureReported == Spec => []FailureIsReported
<1>1. Init => FailureInv
    BY StepsInOrder DEF Init, FailureInv
<1>2. FailureInv => FailureIsReported
    BY DEF FailureInv, FailureIsReported, Expected
<1>. QED BY <1>1, <1>2, FailureStep, TypeInvariant, PTL DEF Spec
=============================================================================
