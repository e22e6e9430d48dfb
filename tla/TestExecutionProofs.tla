-------------------------- MODULE TestExecutionProofs --------------------------
(***************************************************************************)
(* Proofs about TestExecution, for any number of consecutive runs: no      *)
(* sampler is left behind, the sampler Run waits for is there, and a       *)
(* posted result is in one place.                                          *)
(***************************************************************************)
EXTENDS TestExecution, FiniteSetTheorems, TLAPS

Waiting == {"none", "sampling", "poll"}   \* a sampler that has not polled yet

\* A sampler belongs to the run of the moment, from the success of
\* CaptureTestStats to the receive; those of later runs are not started.
SamplersInv ==
    /\ \A k \in Runs : k > run => sampler[k] = "none"
    /\ pc \in {"start", "capture"} => sampler[run] = "none"
    /\ pc \in {"wait", "receive"} => sampler[run] \notin {"none", "done"}
    /\ \A k \in Runs : sampler[k] \in Waiting => sample[k] = Nil

\* Sampler k holds the results that run i posted.
Holds(k, i) == sampler[k] = "put" /\ sample[k] = i

\* A delivered result has one place, one that was not delivered has none.
PlacesInv ==
    /\ \A m, n \in 1 .. Len(results) : results[m] = results[n] => m = n
    /\ \A n \in 1 .. Len(results) : sender[results[n]] = "delivered"
    /\ \A i, k \in Runs : Holds(k, i) => sender[i] = "delivered"
    /\ \A i, k \in Runs : Holds(k, i) => \A n \in 1 .. Len(results) : results[n] # i
    /\ \A i \in Runs : sender[i] = "delivered" =>
          (\E n \in 1 .. Len(results) : results[n] = i) \/ (\E k \in Runs : Holds(k, i))

ExecutionInv == TypeOK /\ SamplersInv /\ NoStaleSampler /\ PlacesInv

LEMMA ExecutionInitial == Init => ExecutionInv
<1>. SUFFICES ASSUME Init PROVE TypeOK /\ SamplersInv /\ NoStaleSampler /\ PlacesInv
    BY DEF ExecutionInv
<1>. USE ConsecutiveRunsAssumption DEF Init
<1>1. <<>> \in Seq(Runs)
    OBVIOUS
<1>2. /\ process \in [Runs -> {"none", "running", "zero", "nonzero", "reaped"}]
      /\ sender \in [Runs -> {"none", "spawned", "sending", "delivered"}]
      /\ sampler \in [Runs -> {"none", "sampling", "poll", "put", "done"}]
      /\ sample \in [Runs -> Runs \cup {Nil}]
    BY ZenonT(20)
<1>3. TypeOK
    <2>1. pc \in {"setup", "start", "capture", "wait", "receive", "ok", "error"}
        OBVIOUS
    <2>2. /\ run \in 0 .. ConsecutiveRuns
          /\ pc \notin {"start", "capture", "wait", "receive"}
        OBVIOUS
    <2>3. waitErr \in BOOLEAN /\ logFailed \in BOOLEAN
        BY Zenon
    <2>4. results \in Seq(Runs)
        BY <1>1
    <2>. QED BY <1>2, <2>1, <2>2, <2>3, <2>4 DEF TypeOK
<1>4. SamplersInv /\ NoStaleSampler /\ PlacesInv
    BY DEF SamplersInv, NoStaleSampler, PlacesInv, Holds, Runs, Nil, Waiting
<1>. QED BY <1>3, <1>4

\* Run, but for the receive.
LEMMA RunKeeps ==
    ASSUME ExecutionInv,
           SetUp \/ StartSucceeds \/ StartFails \/ CaptureSucceeds \/ CaptureFails \/ Wait
    PROVE  ExecutionInv'
<1>. USE ConsecutiveRunsAssumption DEF SetUp, StartSucceeds, StartFails, CaptureSucceeds,
        CaptureFails, Wait, NextRun, Return, Exited, ExecutionInv
<1>1. TypeOK'
    <2>1. /\ run' \in 0 .. ConsecutiveRuns
          /\ pc' \in {"start", "capture", "wait", "receive"} => run' \in Runs
          /\ pc' \in {"setup", "start", "capture", "wait", "receive", "ok", "error"}
        BY DEF TypeOK, Runs
    <2>2. /\ process' \in [Runs -> {"none", "running", "zero", "nonzero", "reaped"}]
          /\ sampler' \in [Runs -> {"none", "sampling", "poll", "put", "done"}]
          /\ UNCHANGED <<results, sender, sample, logFailed>>
        BY DEF TypeOK
    <2>3. waitErr' \in BOOLEAN
        BY DEF TypeOK
    <2>. QED BY <2>1, <2>2, <2>3 DEF TypeOK
<1>2. SamplersInv' /\ NoStaleSampler'
    BY DEF TypeOK, Runs, SamplersInv, NoStaleSampler, Waiting
<1>3. PlacesInv'
    <2>1. UNCHANGED <<results, sender, sample>>
        OBVIOUS
    <2>2. sampler' = sampler \/ (sampler[run] = "none" /\ run \in Runs
                                 /\ sampler' = [sampler EXCEPT ![run] = "sampling"])
        BY DEF SamplersInv, TypeOK
    <2>3. \A k, i \in Runs : Holds(k, i)' <=> Holds(k, i)
        BY <2>1, <2>2 DEF TypeOK, Holds
    <2>. QED BY <2>1, <2>3 DEF PlacesInv
<1>. QED BY <1>1, <1>2, <1>3

\* The receive meets the sampler of this run; what it holds moves to the results.
LEMMA ReceiveKeeps == ASSUME ExecutionInv, Receive PROVE ExecutionInv'
<1>. USE ConsecutiveRunsAssumption DEF NextRun, Return, ExecutionInv
<1>1. PICK k \in Runs :
        /\ pc = "receive" /\ sampler[k] = "put"
        /\ sampler' = [sampler EXCEPT ![k] = "done"]
        /\ results' = IF sample[k] = Nil THEN results ELSE Append(results, sample[k])
        /\ IF waitErr /\ sample[k] = Nil THEN Return("error") /\ UNCHANGED run
                                         ELSE NextRun
        /\ UNCHANGED <<waitErr, process, sender, sample, logFailed>>
    BY DEF Receive
<1>2. k = run /\ \A j \in Runs \ {k} : sampler[j] \in {"none", "done"}
    BY <1>1 DEF NoStaleSampler
<1>3. results' \in Seq(Runs)
    BY <1>1 DEF TypeOK
<1>4. TypeOK'
    BY <1>1, <1>3 DEF TypeOK, Runs
<1>5. SamplersInv' /\ NoStaleSampler'
    BY <1>1, <1>2 DEF TypeOK, Runs, SamplersInv, NoStaleSampler, Waiting
<1>6. \A j, i \in Runs : ~Holds(j, i)'
    BY <1>1, <1>2 DEF TypeOK, Holds
<1>7. CASE sample[k] = Nil
    <2>1. results' = results /\ sender' = sender
        BY <1>1, <1>7
    <2>2. \A j, i \in Runs : ~Holds(j, i)
        BY <1>2, <1>7, ConsecutiveRunsAssumption DEF Holds, Runs, Nil
    <2>. QED BY <1>4, <1>5, <1>6, <2>1, <2>2 DEF PlacesInv
<1>8. CASE sample[k] # Nil
    <2>1. sample[k] \in Runs /\ Holds(k, sample[k])
        BY <1>1, <1>8 DEF TypeOK, Holds
    <2>2. /\ Len(results') = Len(results) + 1 /\ Len(results) \in Nat
          /\ \A n \in 1 .. Len(results) : results'[n] = results[n]
          /\ results'[Len(results) + 1] = sample[k]
        BY <1>1, <1>8, <2>1 DEF TypeOK
    <2>3. \A n \in 1 .. Len(results) : results[n] # sample[k]
        BY <2>1 DEF PlacesInv
    <2>4. sender[sample[k]] = "delivered" /\ sender' = sender
        BY <1>1, <2>1 DEF PlacesInv
    <2>5. \A i, j \in Runs : Holds(j, i) => i = sample[k]
        BY <1>2 DEF Holds
    <2>6. 1 .. Len(results') = 1 .. Len(results) \cup {Len(results) + 1}
        BY <2>2
    <2>7. \A m, n \in 1 .. Len(results') : results'[m] = results'[n] => m = n
        BY <2>2, <2>3, <2>6 DEF PlacesInv
    <2>8. \A n \in 1 .. Len(results') : sender'[results'[n]] = "delivered"
        BY <2>2, <2>4, <2>6 DEF PlacesInv
    <2>9. \A i \in Runs : sender'[i] = "delivered" =>
              \E n \in 1 .. Len(results') : results'[n] = i
        BY <2>2, <2>4, <2>5, <2>6 DEF PlacesInv
    <2>. QED BY <1>4, <1>5, <1>6, <2>7, <2>8, <2>9 DEF PlacesInv
<1>. QED BY <1>7, <1>8

\* The processes, the goroutines of the handler and the failing upload.
LEMMA ProcessKeeps ==
    ASSUME ExecutionInv, NEW i \in Runs,
           Handler(i) \/ SenderBlocks(i) \/ ProcessExits(i) \/ LogUploadFails
    PROVE  ExecutionInv'
<1>. USE DEF Handler, SenderBlocks, ProcessExits, LogUploadFails, execVars, ExecutionInv
<1>1. TypeOK'
    BY DEF TypeOK
<1>2. SamplersInv' /\ NoStaleSampler'
    BY DEF SamplersInv, NoStaleSampler
<1>3. PlacesInv'
    <2>1. UNCHANGED <<results, sampler, sample>>
        OBVIOUS
    <2>2. \A j \in Runs : sender'[j] = "delivered" <=> sender[j] = "delivered"
        BY DEF TypeOK
    <2>3. \A n \in 1 .. Len(results) : results[n] \in Runs
        BY DEF TypeOK
    <2>. QED BY <2>1, <2>2, <2>3 DEF PlacesInv, Holds
<1>. QED BY <1>1, <1>2, <1>3

LEMMA SamplerKeeps ==
    ASSUME ExecutionInv, NEW i \in Runs, SamplingEnds(i) \/ PollFindsNothing(i)
    PROVE  ExecutionInv'
<1>. USE ConsecutiveRunsAssumption
        DEF SamplingEnds, PollFindsNothing, execVars, ExecutionInv
<1>1. TypeOK'
    BY DEF TypeOK
<1>2. SamplersInv' /\ NoStaleSampler'
    BY SMTT(30) DEF TypeOK, Runs, SamplersInv, NoStaleSampler, Waiting
<1>3. PlacesInv'
    <2>1. UNCHANGED <<results, sender, sample>> /\ sample[i] = Nil
        BY DEF SamplersInv, Waiting
    <2>2. \A k, j \in Runs : Holds(k, j)' <=> Holds(k, j)
        BY <2>1 DEF TypeOK, Holds, Runs, Nil
    <2>. QED BY <2>1, <2>2 DEF PlacesInv
<1>. QED BY <1>1, <1>2, <1>3

\* A sender is released: its results had no place before and have one now.
LEMMA PollTakesKeeps ==
    ASSUME ExecutionInv, NEW i \in Runs, PollTakes(i)
    PROVE  ExecutionInv'
<1>. USE ConsecutiveRunsAssumption DEF execVars, ExecutionInv
<1>1. PICK j \in Runs : /\ sender[j] = "sending"
                        /\ sender' = [sender EXCEPT ![j] = "delivered"]
                        /\ sample' = [sample EXCEPT ![i] = j]
    BY DEF PollTakes
<1>2. /\ sampler[i] = "poll" /\ sampler' = [sampler EXCEPT ![i] = "put"]
      /\ UNCHANGED <<execVars, process>>
    BY DEF PollTakes
<1>3. TypeOK'
    BY <1>1, <1>2 DEF TypeOK
<1>4. SamplersInv' /\ NoStaleSampler'
    BY <1>1, <1>2 DEF TypeOK, Runs, SamplersInv, NoStaleSampler, Waiting
<1>5. \A k, m \in Runs : Holds(k, m)' <=> (Holds(k, m) \/ (k = i /\ m = j))
    BY <1>1, <1>2 DEF TypeOK, Holds
<1>6. \A m \in Runs : sender'[m] = "delivered" <=> (sender[m] = "delivered" \/ m = j)
    BY <1>1 DEF TypeOK
<1>7. results' = results /\ \A n \in 1 .. Len(results) : results[n] \in Runs /\ results[n] # j
    BY <1>1, <1>2 DEF TypeOK, PlacesInv
<1>8. PlacesInv'
    BY <1>5, <1>6, <1>7 DEF PlacesInv
<1>. QED BY <1>3, <1>4, <1>8

LEMMA ExecutionInductive == ExecutionInv /\ [Next]_vars => ExecutionInv'
<1>. SUFFICES ASSUME ExecutionInv, [Next]_vars PROVE ExecutionInv'
    OBVIOUS
<1>1. CASE UNCHANGED vars
    BY <1>1 DEF vars, ExecutionInv, TypeOK, SamplersInv, NoStaleSampler, PlacesInv, Holds
<1>2. CASE RunStep
    BY <1>2, RunKeeps, ReceiveKeeps DEF RunStep
<1>3. CASE LogUploadFails
    <2>1. UNCHANGED <<pc, run, waitErr, results, process, sender, sampler, sample>>
          /\ logFailed' \in BOOLEAN
        BY <1>3 DEF LogUploadFails
    <2>. QED BY <2>1 DEF ExecutionInv, TypeOK, SamplersInv, NoStaleSampler, PlacesInv, Holds
<1>4. ASSUME NEW i \in Runs,
             Handler(i) \/ SenderBlocks(i) \/ ProcessExits(i) \/ SamplingEnds(i) \/ Poll(i)
      PROVE  ExecutionInv'
    BY <1>4, ProcessKeeps, SamplerKeeps, PollTakesKeeps DEF Poll
<1>. QED BY <1>1, <1>2, <1>3, <1>4 DEF Next

LEMMA ExecutionInvariant == Spec => []ExecutionInv
    BY ExecutionInitial, ExecutionInductive, PTL DEF Spec

(* The variables of an execution stay in their ranges; in particular the   *)
(* loop of Run never goes beyond the configured number of runs.            *)
THEOREM TypeCorrect == Spec => []TypeOK
    BY ExecutionInvariant, PTL DEF ExecutionInv

(* No sampler that CaptureTestStats started outlives the receive of its    *)
(* run, whatever ends Run.                                                 *)
THEOREM SamplersEnd == Spec => []NoStaleSampler
    BY ExecutionInvariant, PTL DEF ExecutionInv

\* Whoever waits at the output channel waits for a sampler that is alive.
ReceiverHasSampler == pc \in {"wait", "receive"} => sampler[run] \in {"sampling", "poll", "put"}

(* Run reaches the output channel only when its own sampler is there to    *)
(* meet it: a receive with no sender, which would block for ever, is not   *)
(* possible.                                                               *)
THEOREM ReceiveIsMet == Spec => []ReceiverHasSampler
<1>1. ExecutionInv => ReceiverHasSampler
    BY DEF ExecutionInv, TypeOK, SamplersInv, ReceiverHasSampler, Runs
<1>. QED BY <1>1, ExecutionInvariant, PTL

(* What a runner posts is with its sender, with one sampler or once in     *)
(* executionResults.                                                       *)
THEOREM ResultsHaveOnePlace == Spec => []PostedResultsOnce
<1>1. ASSUME ExecutionInv, NEW i \in Runs
      PROVE  Cardinality({n \in 1 .. Len(results) : results[n] = i})
               + Cardinality({k \in Runs : sampler[k] = "put" /\ sample[k] = i})
             = IF sender[i] = "delivered" THEN 1 ELSE 0
    <2>. DEFINE inResults == {n \in 1 .. Len(results) : results[n] = i}
                held == {k \in Runs : sampler[k] = "put" /\ sample[k] = i}
    <2>1. sender[i] # "delivered" => inResults = {} /\ held = {}
        BY <1>1 DEF ExecutionInv, PlacesInv, Holds
    <2>2. held # {} => held = {run} /\ inResults = {}
        BY <1>1 DEF ExecutionInv, PlacesInv, NoStaleSampler, Holds
    <2>3. \A n \in inResults : inResults = {n}
        BY <1>1 DEF ExecutionInv, PlacesInv
    <2>4. sender[i] = "delivered" => inResults # {} \/ held # {}
        BY <1>1 DEF ExecutionInv, PlacesInv, Holds
    <2>5. Cardinality({}) = 0 /\ \A x : Cardinality({x}) = 1
        BY FS_EmptySet, FS_Singleton
    <2>6. held # {} \/ inResults # {} => sender[i] = "delivered"
        BY <2>1
    <2>. HIDE DEF inResults, held
    <2>. SUFFICES Cardinality(inResults) + Cardinality(held)
                    = IF sender[i] = "delivered" THEN 1 ELSE 0
        BY DEF inResults, held
    <2>7. CASE held # {}
        <3>1. Cardinality(held) = 1 /\ Cardinality(inResults) = 0
            BY <2>2, <2>5, <2>7
        <3>. QED BY <2>6, <2>7, <3>1
    <2>8. CASE held = {} /\ inResults # {}
        <3>1. \E x : inResults = {x}
            BY <2>3, <2>8
        <3>2. Cardinality(held) = 0 /\ Cardinality(inResults) = 1
            BY <2>5, <2>8, <3>1
        <3>. QED BY <2>6, <2>8, <3>2
    <2>9. CASE held = {} /\ inResults = {}
        <3>1. Cardinality(held) = 0 /\ Cardinality(inResults) = 0
            BY <2>5, <2>9
        <3>. QED BY <2>4, <2>9, <3>1
    <2>. QED BY <2>7, <2>8, <2>9
<1>2. ExecutionInv => PostedResultsOnce
    BY <1>1 DEF PostedResultsOnce
<1>. QED BY <1>2, ExecutionInvariant, PTL

=============================================================================
