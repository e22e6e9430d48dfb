----------------------- MODULE SubmoduleDiscoveryProofs -----------------------
(***************************************************************************)
(* Proofs about SubmoduleDiscovery, for any finite set of submodules: the  *)
(* pre-runs end before the discoveries begin, no result is reported twice, *)
(* a discovery that succeeds has left out no submodule and no result, and  *)
(* neither the error of the block list nor a receiver waits in vain.       *)
(***************************************************************************)
EXTENDS SubmoduleDiscovery, FiniteSetTheorems, TLAPS

\* Nothing is started before its turn, and a failed pre-run stays failed.
PhasesInv ==
    /\ pc \in {"list", "node", "top"} => \A s \in SubModules : pre[s] = "none"
    /\ status = "error" => \E s \in SubModules : pre[s] = "failed"
    /\ (\E s \in SubModules : disc[s] # "none") => pc \in {"discoveries", "ok", "error"}
    /\ pc = "ok" => \A s \in SubModules : disc[s] = "ok"

\* A result is taken by one submodule at most, and reported with that one.
ResultsInv ==
    /\ \A s \in SubModules : got[s] # NoOne => post[got[s]] = "delivered"
    /\ \A s, t \in SubModules : got[s] = got[t] /\ got[s] # NoOne => s = t
    /\ \A s \in SubModules : disc[s] \notin {"send"} \cup Ended => got[s] = NoOne
    /\ \A s \in SubModules : disc[s] \in {"send", "ok"} => got[s] # NoOne
    /\ \A x \in reported : got[x[1]] = x[2]
    /\ \A s \in SubModules : disc[s] = "ok" => <<s, got[s]>> \in reported

DiscoveryInv == TypeOK /\ PhasesInv /\ PreRunsComeFirst /\ ResultsInv

LEMMA DiscoveryInitial == Init => DiscoveryInv
<1>. USE SubModulesAssumption DEF Init
<1>. SUFFICES ASSUME Init PROVE TypeOK /\ PhasesInv /\ PreRunsComeFirst /\ ResultsInv
    BY DEF DiscoveryInv
<1>1. TypeOK
    <2>1. /\ pre \in [SubModules -> {"none", "block", "preRun", "runners"} \cup Ended]
          /\ disc \in [SubModules -> {"none", "env", "writing", "written", "reading", "command",
                                      "receive", "send"} \cup Ended]
        BY ZenonT(20)
    <2>2. /\ post \in [SubModules -> {"none", "sending", "delivered"}]
          /\ got \in [SubModules -> SubModules \cup {NoOne}]
        BY ZenonT(20)
    <2>3. /\ pc \in {"list", "node", "top", "preRuns", "cache", "discoveries", "ok", "error"}
          /\ status \in {"passed", "error"}
          /\ blockErrs \in 0 .. 1
        OBVIOUS
    <2>4. /\ blockList \in SubModules \cup {NoOne}
          /\ sharedEnv \in BOOLEAN /\ crashed \in BOOLEAN
          /\ reported \subseteq SubModules \X SubModules
        BY Zenon
    <2>. HIDE DEF Init
    <2>. QED BY <2>1, <2>2, <2>3, <2>4 DEF TypeOK
<1>2. PhasesInv /\ PreRunsComeFirst
    BY DEF PhasesInv, PreRunsComeFirst
<1>3. ResultsInv
    BY DEF ResultsInv, Ended
<1>. QED BY <1>1, <1>2, <1>3

\* runDiscoveryHelper.
LEMMA HelperKeeps ==
    ASSUME DiscoveryInv, Helper, UNCHANGED crashed
    PROVE  DiscoveryInv'
<1>. USE SubModulesAssumption DEF Ended, preVars, discVars
<1>1. ResultsInv'
    <2>1. UNCHANGED <<post, got, reported>> /\ disc' \in {disc, [s \in SubModules |-> "env"]}
        BY DEF Helper, Preliminaries, Preliminary, JoinPreRuns, CacheWorkspace, JoinDiscoveries
    <2>2. disc' # disc => \A s \in SubModules : disc[s] = "none"
        BY DEF Helper, Preliminaries, Preliminary, JoinPreRuns, CacheWorkspace, JoinDiscoveries,
            DiscoveryInv, PhasesInv
    <2>. QED BY <2>1, <2>2 DEF DiscoveryInv, ResultsInv
<1>2. CASE Preliminaries
    BY <1>1, <1>2 DEF Preliminaries, Preliminary, DiscoveryInv, TypeOK, PhasesInv,
        PreRunsComeFirst
<1>3. CASE JoinPreRuns
    BY <1>1, <1>3 DEF JoinPreRuns, DiscoveryInv, TypeOK, PhasesInv, PreRunsComeFirst
<1>4. CASE CacheWorkspace
    BY <1>1, <1>4 DEF CacheWorkspace, DiscoveryInv, TypeOK, PhasesInv, PreRunsComeFirst
<1>5. CASE JoinDiscoveries
    BY <1>1, <1>5 DEF JoinDiscoveries, DiscoveryInv, TypeOK, PhasesInv, PreRunsComeFirst
<1>. QED BY <1>2, <1>3, <1>4, <1>5 DEF Helper

\* The pre-run of a submodule: it has not ended, so nothing waits on it yet.
LEMMA PreRunKeeps ==
    ASSUME DiscoveryInv, NEW s \in SubModules, PreRun(s), UNCHANGED crashed
    PROVE  DiscoveryInv'
<1>. USE SubModulesAssumption DEF PreRun, BlockOnce, BlockSelect, PreRunCommands, PreRunEnds,
        Ended, discVars, DiscoveryInv
<1>1. TypeOK'
    BY DEF TypeOK
<1>2. PhasesInv'
    BY DEF TypeOK, PhasesInv
<1>3. PreRunsComeFirst'
    BY DEF TypeOK, PreRunsComeFirst
<1>4. ResultsInv'
    BY DEF ResultsInv
<1>. QED BY <1>1, <1>2, <1>3, <1>4

\* The steps that only take a discovery from one state to another.
LEMMA DiscoveryMoves ==
    ASSUME DiscoveryInv, NEW s \in SubModules, UNCHANGED crashed,
           \/ GetEnv(s) \/ EnvWritten(s) \/ GetEnvVariables(s)
           \/ StartCommand(s) \/ CommandEnds(s)
    PROVE  DiscoveryInv'
<1>. USE SubModulesAssumption DEF GetEnv, EnvWritten, GetEnvVariables, StartCommand, CommandEnds,
        Goto, Ended, preVars, DiscoveryInv
<1>1. TypeOK'
    BY DEF TypeOK
<1>2. PhasesInv' /\ PreRunsComeFirst'
    BY DEF TypeOK, PhasesInv, PreRunsComeFirst
<1>3. ResultsInv'
    BY DEF TypeOK, ResultsInv
<1>. QED BY <1>1, <1>2, <1>3

LEMMA HandlerKeeps ==
    ASSUME DiscoveryInv, NEW s \in SubModules, Handler(s), UNCHANGED crashed
    PROVE  DiscoveryInv'
    BY SubModulesAssumption DEF Handler, DiscoveryInv, TypeOK, PhasesInv, PreRunsComeFirst,
        ResultsInv, Ended, preVars

\* The receiver has taken nothing before, and no one has taken what it takes.
LEMMA ReceiveKeeps ==
    ASSUME DiscoveryInv, NEW s \in SubModules, Receive(s), UNCHANGED crashed
    PROVE  DiscoveryInv'
<1>. USE SubModulesAssumption DEF Receive, Goto, Ended, preVars, DiscoveryInv
<1>1. TypeOK'
    BY DEF TypeOK
<1>2. PhasesInv' /\ PreRunsComeFirst'
    BY DEF TypeOK, PhasesInv, PreRunsComeFirst
<1>3. ResultsInv'
    <2>1. PICK r \in SubModules : /\ post[r] = "sending"
                                  /\ post' = [post EXCEPT ![r] = "delivered"]
                                  /\ got' = [got EXCEPT ![s] = r]
        OBVIOUS
    <2>2. \A t \in SubModules : got[t] # r
        BY <2>1 DEF ResultsInv
    <2>3. got[s] = NoOne /\ \A x \in reported : x[1] # s
        BY DEF ResultsInv, TypeOK
    <2>. QED BY <2>1, <2>2, <2>3 DEF ResultsInv, TypeOK
<1>. QED BY <1>1, <1>2, <1>3

LEMMA SendResultKeeps ==
    ASSUME DiscoveryInv, NEW s \in SubModules, SendResult(s), UNCHANGED crashed
    PROVE  DiscoveryInv'
<1>. USE SubModulesAssumption DEF SendResult, Goto, Ended, preVars, DiscoveryInv
<1>1. got[s] \in SubModules
    BY DEF TypeOK, ResultsInv
<1>2. TypeOK'
    BY <1>1 DEF TypeOK
<1>3. PhasesInv' /\ PreRunsComeFirst'
    BY DEF TypeOK, PhasesInv, PreRunsComeFirst
<1>4. ResultsInv'
    <2>1. disc[s] = "send" /\ got' = got /\ post' = post
        OBVIOUS
    <2>2. \A t \in SubModules \ {s} : disc'[t] = disc[t]
        BY DEF TypeOK
    <2>3. disc'[s] \in Ended /\ (disc'[s] = "ok" => <<s, got[s]>> \in reported')
        BY DEF TypeOK
    <2>4. reported \subseteq reported' /\ reported' \subseteq reported \cup {<<s, got[s]>>}
        OBVIOUS
    <2>5. \A x \in reported' : got[x[1]] = x[2]
        BY <2>4 DEF ResultsInv
    <2>. QED BY <1>1, <2>1, <2>2, <2>3, <2>4, <2>5 DEF ResultsInv
<1>. QED BY <1>2, <1>3, <1>4

LEMMA DiscoveryInductive == DiscoveryInv /\ [Next]_vars => DiscoveryInv'
<1>. SUFFICES ASSUME DiscoveryInv, [Next]_vars PROVE DiscoveryInv'
    OBVIOUS
<1>1. CASE UNCHANGED vars \/ Crash
    <2>1. UNCHANGED <<pc, preVars, discVars, sharedEnv>> /\ crashed' \in {crashed, TRUE}
        BY <1>1 DEF vars, Crash
    <2>2. TypeOK'
        BY <2>1 DEF preVars, discVars, DiscoveryInv, TypeOK
    <2>3. PhasesInv' /\ PreRunsComeFirst' /\ ResultsInv'
        BY <2>1 DEF preVars, discVars, DiscoveryInv, PhasesInv, PreRunsComeFirst, ResultsInv
    <2>. QED BY <2>2, <2>3 DEF DiscoveryInv
<1>2. CASE Step /\ UNCHANGED crashed
    <2>1. CASE Helper
        BY <1>2, <2>1, HelperKeeps
    <2>2. ASSUME NEW s \in SubModules, PreRun(s) \/ Handler(s) \/ Discovery(s)
          PROVE  DiscoveryInv'
        BY <1>2, <2>2, PreRunKeeps, HandlerKeeps, DiscoveryMoves, ReceiveKeeps, SendResultKeeps
            DEF Discovery
    <2>. QED BY <1>2, <2>1, <2>2 DEF Step
<1>. QED BY <1>1, <1>2 DEF Next

LEMMA DiscoveryInvariant == Spec => []DiscoveryInv
    BY DiscoveryInitial, DiscoveryInductive, PTL DEF Spec

(* The variables of a discovery stay in their ranges: every state of the   *)
(* helper, of the goroutines and of what they post and report is one that  *)
(* driver_v2.go has.                                                       *)
THEOREM TypeCorrect == Spec => []TypeOK
    BY DiscoveryInvariant, PTL DEF DiscoveryInv

(* runDiscoveryHelper starts no discovery and caches no workspace before   *)
(* every submodule's pre-run, its block list included, has ended well.     *)
THEOREM PreRunsFirst == Spec => []PreRunsComeFirst
    BY DiscoveryInvariant, PTL DEF DiscoveryInv

(* Discover takes a result from the channel once and SendResult sends what *)
(* it was given: no result reaches neuron under two names.                 *)
THEOREM ReportedOnce == Spec => []ResultsReportedOnce
<1>1. DiscoveryInv => ResultsReportedOnce
    <2>. SUFFICES ASSUME DiscoveryInv, NEW x \in reported, NEW y \in reported, x[2] = y[2]
                  PROVE  x = y
        BY DEF ResultsReportedOnce
    <2>1. /\ x \in SubModules \X SubModules /\ y \in SubModules \X SubModules
          /\ got[x[1]] = x[2] /\ got[y[1]] = y[2]
        BY DEF DiscoveryInv, TypeOK, ResultsInv
    <2>2. x[1] = y[1]
        BY <2>1, SubModulesAssumption DEF DiscoveryInv, ResultsInv
    <2>. QED BY <2>1, <2>2
<1>. QED BY <1>1, DiscoveryInvariant, PTL

(* Every submodule takes one result and no two take the same, and there    *)
(* are as many results as submodules: when all discoveries end well every  *)
(* result has been reported, whichever submodule it was reported with.     *)
THEOREM NothingIsMissing == Spec => []SuccessReportsAll
<1>1. DiscoveryInv => SuccessReportsAll
    <2>. SUFFICES ASSUME DiscoveryInv, pc = "ok"
                  PROVE  /\ {x[1] : x \in reported} = SubModules
                         /\ {x[2] : x \in reported} = SubModules
        BY DEF SuccessReportsAll
    <2>1. /\ \A s \in SubModules : got[s] # NoOne /\ <<s, got[s]>> \in reported
          /\ \A s, t \in SubModules : got[s] = got[t] => s = t
          /\ reported \subseteq SubModules \X SubModules
        BY DEF DiscoveryInv, TypeOK, PhasesInv, ResultsInv
    <2>2. got \in Injection(SubModules, SubModules)
        BY <2>1, SubModulesAssumption DEF DiscoveryInv, TypeOK, Injection, IsInjective
    <2>3. got \in Surjection(SubModules, SubModules)
        BY <2>2, FS_Injection, SubModulesAssumption
    <2>4. \A r \in SubModules : \E s \in SubModules : got[s] = r
        BY <2>3 DEF Surjection
    <2>5. \A s \in SubModules : s \in {x[1] : x \in reported}
        BY <2>1
    <2>6. \A r \in SubModules : r \in {x[2] : x \in reported}
        BY <2>1, <2>4, ZenonT(60)
    <2>. QED BY <2>1, <2>5, <2>6
<1>. QED BY <1>1, DiscoveryInvariant, PTL

-----------------------------------------------------------------------------
(* What the liveness properties rest on: nobody waits in vain.             *)

\* The error of the block list waits for the caller that has made the list, if
\* no other takes it; what was delivered is with the submodule that took it.
WaitingInv ==
    /\ blockErrs = 1 => blockList \in SubModules /\ pre[blockList] = "block"
    /\ \A r \in SubModules : post[r] = "delivered" => \E s \in SubModules : got[s] = r

LEMMA WaitingStep == ASSUME DiscoveryInv, WaitingInv, [Next]_vars PROVE WaitingInv'
<1>. USE SubModulesAssumption DEF WaitingInv, DiscoveryInv, TypeOK
<1>1. CASE UNCHANGED vars \/ Crash
    BY <1>1 DEF vars, Crash, preVars, discVars
<1>2. CASE Helper
    <2>1. /\ UNCHANGED <<blockList, blockErrs, post, got>>
          /\ pre' # pre => pc \in {"list", "node", "top"}
        BY <1>2 DEF Helper, Preliminaries, Preliminary, JoinPreRuns, CacheWorkspace,
            JoinDiscoveries, preVars, discVars
    <2>2. pre' # pre => blockErrs # 1
        BY <2>1 DEF PhasesInv
    <2>. QED BY <2>1, <2>2
<1>3. ASSUME NEW s \in SubModules, PreRun(s) PROVE WaitingInv'
    <2>1. UNCHANGED <<post, got>>
        BY <1>3 DEF PreRun, BlockOnce, BlockSelect, PreRunCommands, discVars
    <2>2. blockErrs' = 1 => blockList' \in SubModules /\ pre'[blockList'] = "block"
        BY <1>3 DEF PreRun, BlockOnce, BlockSelect, PreRunCommands, PreRunEnds
    <2>. QED BY <2>1, <2>2
<1>4. ASSUME NEW s \in SubModules, Handler(s) PROVE WaitingInv'
    BY <1>4 DEF Handler, preVars
<1>5. ASSUME NEW s \in SubModules, Receive(s) PROVE WaitingInv'
    <2>1. PICK r \in SubModules : /\ post' = [post EXCEPT ![r] = "delivered"]
                                  /\ got' = [got EXCEPT ![s] = r]
        BY <1>5 DEF Receive
    <2>2. got[s] = NoOne
        BY <1>5 DEF Receive, ResultsInv, Ended
    <2>3. UNCHANGED preVars
        BY <1>5 DEF Receive
    <2>. QED BY <2>1, <2>2, <2>3 DEF preVars
<1>6. ASSUME NEW s \in SubModules, Discovery(s), ~Receive(s) PROVE WaitingInv'
    BY <1>6 DEF Discovery, GetEnv, EnvWritten, GetEnvVariables, StartCommand, CommandEnds,
        SendResult, preVars
<1>. QED BY <1>1, <1>2, <1>3, <1>4, <1>5, <1>6 DEF Next, Step

LEMMA WaitingInvariant == Spec => []WaitingInv
<1>1. Init => WaitingInv
    BY DEF Init, WaitingInv
<1>. QED BY <1>1, DiscoveryInvariant, WaitingStep, PTL DEF Spec

\* As long as the error of the block list has not been read, a pre-run is yet to
\* come to the select that reads it, and the pre-runs have not been joined.
ErrorHasAReader ==
    blockErrs = 1 => pc = "preRuns" /\ \E s \in SubModules : pre[s] = "block"

(* The buffered errChan of the block test service never keeps an error     *)
(* that nobody reads: the discovery cannot go on without it, which is what *)
(* BlockListErrorEndsDiscovery needs besides fairness.                     *)
THEOREM ErrorIsRead == Spec => []ErrorHasAReader
<1>. DEFINE Joined == \A s \in SubModules : pre[s] = "block" => pc = "preRuns"
<1>1. Init => Joined
    BY DEF Init
<1>2. ASSUME DiscoveryInv, Joined, [Next]_vars PROVE Joined'
    <2>1. CASE UNCHANGED vars \/ Crash
        BY <1>2, <2>1 DEF vars, Crash, preVars
    <2>2. CASE Helper
        BY <1>2, <2>2 DEF Helper, Preliminaries, Preliminary, JoinPreRuns, CacheWorkspace,
            JoinDiscoveries, preVars, Ended, DiscoveryInv, PhasesInv
    <2>3. ASSUME NEW s \in SubModules, PreRun(s) PROVE Joined'
        BY <1>2, <2>3 DEF PreRun, BlockOnce, BlockSelect, PreRunCommands, PreRunEnds, DiscoveryInv,
            TypeOK
    <2>4. ASSUME NEW s \in SubModules, Handler(s) \/ Discovery(s) PROVE Joined'
        BY <1>2, <2>4 DEF Handler, Discovery, GetEnv, EnvWritten, GetEnvVariables, StartCommand,
            CommandEnds, Receive, SendResult, preVars
    <2>. QED BY <1>2, <2>1, <2>2, <2>3, <2>4 DEF Next, Step
<1>3. WaitingInv /\ Joined => ErrorHasAReader
    BY DEF WaitingInv, ErrorHasAReader
<1>. HIDE DEF Joined
<1>. QED BY <1>1, <1>2, <1>3, DiscoveryInvariant, WaitingInvariant, PTL DEF Spec

\* If every submodule whose Discover has come to the channel has had a result
\* posted by its own command, a result is there for whoever is waiting.
NoReceiverStarves ==
    /\ \A s \in SubModules : disc[s] = "receive" \/ got[s] # NoOne => post[s] # "none"
    /\ \E s \in SubModules : disc[s] = "receive"
    => \E r \in SubModules : post[r] = "sending"

(* Discover may take the result of another submodule, but has then left    *)
(* its own: the submodules that took one are as many as the results that   *)
(* were taken, so that no Discover waits at an empty channel for ever.     *)
(* This is what DiscoveryEnds needs besides fairness.                      *)
THEOREM ResultForEveryReceiver == Spec => []NoReceiverStarves
<1>1. ASSUME DiscoveryInv, WaitingInv PROVE NoReceiverStarves
    <2>. DEFINE posted == {r \in SubModules : post[r] # "none"}
                served == {s \in SubModules : got[s] # NoOne}
                result == [s \in served |-> got[s]]
    <2>. SUFFICES ASSUME served \subseteq posted, NEW s \in posted, disc[s] = "receive",
                         \A r \in SubModules : post[r] # "sending"
                  PROVE  FALSE
        BY DEF NoReceiverStarves
    <2>1. IsFiniteSet(posted) /\ IsFiniteSet(served)
        BY FS_Subset, SubModulesAssumption
    <2>2. result \in Surjection(served, posted)
        <3>1. \A t \in served : got[t] \in posted
            BY <1>1 DEF DiscoveryInv, TypeOK, ResultsInv
        <3>2. \A r \in posted : post[r] = "delivered"
            BY <1>1 DEF DiscoveryInv, TypeOK
        <3>3. \A r \in posted : \E t \in served : got[t] = r
            BY <1>1, <3>2, SubModulesAssumption DEF WaitingInv
        <3>. QED BY <3>1, <3>3 DEF Surjection
    <2>. HIDE DEF result
    <2>3. Cardinality(posted) <= Cardinality(served)
        BY <2>1, <2>2, FS_Surjection
    <2>4. Cardinality(served) <= Cardinality(posted)
          /\ (Cardinality(posted) = Cardinality(served) => posted = served)
        BY <2>1, FS_Subset
    <2>5. Cardinality(posted) \in Nat /\ Cardinality(served) \in Nat
        BY <2>1, FS_CardinalityType
    <2>6. s \in served
        BY <2>3, <2>4, <2>5
    <2>. QED BY <1>1, <2>6 DEF DiscoveryInv, ResultsInv, Ended
<1>. QED BY <1>1, DiscoveryInvariant, WaitingInvariant, PTL
=============================================================================
