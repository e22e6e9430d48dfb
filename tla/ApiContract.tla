---------------------------- MODULE ApiContract ----------------------------
(***************************************************************************)
(* What a caller of MakeAPIRequest (pkg/requestutils/request.go) may count *)
(* on when its request carries a body: the server handles the request at   *)
(* most once, and has done so when the call returns without error.  A call *)
(* that returns an error promises nothing: the request may have been       *)
(* handled, or may still be.                                               *)
(***************************************************************************)
EXTENDS Naturals

CONSTANT Callers

VARIABLES
    state,   \* "idle", "open", "ok" or "failed"
    handled  \* how often the server has handled the request

contractVars == <<state, handled>>

Init ==
    /\ state = [c \in Callers |-> "idle"]
    /\ handled = [c \in Callers |-> 0]

Begin(c) ==
    /\ state[c] = "idle"
    /\ state' = [state EXCEPT ![c] = "open"]
    /\ UNCHANGED handled

Handle(c) ==
    /\ state[c] # "idle" /\ handled[c] = 0
    /\ handled' = [handled EXCEPT ![c] = 1]
    /\ UNCHANGED state

Return(c) ==
    /\ state[c] = "open"
    /\ \/ handled[c] = 1 /\ state' = [state EXCEPT ![c] = "ok"]
       \/ state' = [state EXCEPT ![c] = "failed"]
    /\ UNCHANGED handled

Next == \E c \in Callers : Begin(c) \/ Handle(c) \/ Return(c)

Spec == Init /\ [][Next]_contractVars
=============================================================================
