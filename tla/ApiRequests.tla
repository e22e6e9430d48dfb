---------------------------- MODULE ApiRequests ----------------------------
(***************************************************************************)
(* MakeAPIRequest of pkg/requestutils/request.go with the retries of the   *)
(* backoff library: the goroutines of a nucleus process share one backoff, *)
(* every call resets it, and a retry sends the request object once more,   *)
(* whose body can be read only once.                                       *)
(*                                                                         *)
(* The elapsed time of the backoff is abstracted to whether the limit is   *)
(* exceeded.  The module has the steps of a request; a module that extends *)
(* it says who calls, and what the server does with the request.           *)
(***************************************************************************)
EXTENDS Naturals

CONSTANTS
    Callers,  \* the requests of the process, each made once
    WithBody  \* those that carry a body

ASSUME RequestAssumption == WithBody \subseteq Callers

VARIABLES
    call,      \* control state of each MakeAPIRequest
    consumed,  \* whether the body of the request has been read
    message,   \* the request as sent last: "none", "sent" or "handled"
    handled,   \* how often the server has handled the request (bound: 2)
    late       \* the elapsed time of the shared backoff exceeds the limit

requestVars == <<call, consumed, message, handled, late>>

Answered == {"ok", "failed"}

RequestTypeOK ==
    /\ call \in [Callers -> {"idle", "send", "wait", "error", "sleep"} \cup Answered]
    /\ consumed \in [Callers -> BOOLEAN]
    /\ message \in [Callers -> {"none", "sent", "handled"}]
    /\ handled \in [Callers -> 0..2]
    /\ late \in BOOLEAN

RequestInit ==
    /\ call = [c \in Callers |-> "idle"]
    /\ consumed = [c \in Callers |-> FALSE]
    /\ message = [c \in Callers |-> "none"]
    /\ handled = [c \in Callers |-> 0]
    /\ late = FALSE

To(c, state) == call' = [call EXCEPT ![c] = state]

\* The call builds its request; Retry resets the backoff of all.
BeginRequest(c) ==
    /\ call[c] = "idle"
    /\ To(c, "send") /\ late' = FALSE
    /\ UNCHANGED <<consumed, message, handled>>

\* Mutant of Sendable: a retry rewinds the body.
AlwaysSendable(c) == TRUE

\* A body that was read is empty, which the transport notices before the request
\* is complete.
Sendable(c) == c \in WithBody => ~consumed[c]

\* client.Do(req): the request is on its way, or the connection fails before it
\* is complete, after the body was read or not.
SendRequest(c) ==
    /\ call[c] = "send"
    /\ \/ /\ Sendable(c)
          /\ consumed' = [consumed EXCEPT ![c] = TRUE]
          /\ message' = [message EXCEPT ![c] = "sent"]
          /\ To(c, "wait")
       \/ /\ \E read \in BOOLEAN : consumed' = [consumed EXCEPT ![c] = @ \/ read]
          /\ To(c, "error") /\ UNCHANGED message
    /\ UNCHANGED <<handled, late>>

\* The server gets the request, however late.
HandleRequest(c) ==
    /\ message[c] = "sent"
    /\ message' = [message EXCEPT ![c] = "handled"]
    /\ handled' = [handled EXCEPT ![c] = IF @ = 2 THEN 2 ELSE @ + 1]
    /\ UNCHANGED <<call, consumed, late>>

\* What comes back: 200, though reading the answer may fail; another status
\* below 500, which is not tried again; a status of 500 and above; or nothing
\* before the timeout.  A request that was refused is not handled any more.
Answer(c) ==
    /\ call[c] = "wait"
    /\ \/ message[c] = "handled" /\ \E r \in Answered : To(c, r) /\ UNCHANGED message
       \/ /\ message[c] = "sent"
          /\ message' = [message EXCEPT ![c] = "none"]
          /\ To(c, "failed") \/ To(c, "error")
       \/ To(c, "error") /\ UNCHANGED message
    /\ UNCHANGED <<consumed, handled, late>>

\* NextBackOff: "retry limit exceeded", or a pause.
NextBackOff(c) ==
    /\ call[c] = "error"
    /\ To(c, IF late THEN "failed" ELSE "sleep")
    /\ UNCHANGED <<consumed, message, handled, late>>

TryAgain(c) ==
    /\ call[c] = "sleep"
    /\ To(c, "send")
    /\ UNCHANGED <<consumed, message, handled, late>>

\* The caller's side of a request.
RequestStep(c) == SendRequest(c) \/ Answer(c) \/ NextBackOff(c) \/ TryAgain(c)

LimitExceeded ==
    /\ ~late
    /\ late' = TRUE
    /\ UNCHANGED <<call, consumed, message, handled>>

\* Any other call of the process resets the backoff.
OtherRequest ==
    /\ late
    /\ late' = FALSE
    /\ UNCHANGED <<call, consumed, message, handled>>

-----------------------------------------------------------------------------
Contract == INSTANCE ApiContract WITH
    Callers <- WithBody,
    state <- [c \in WithBody |->
        IF call[c] \in {"idle"} \cup Answered THEN call[c] ELSE "open"],
    handled <- [c \in WithBody |-> handled[c]]
=============================================================================
