---------------------- MODULE SynapseConnectionProofs ----------------------
(***************************************************************************)
(* Proofs about SynapseConnection, for every number of connections,        *)
(* reports and capacity: type correctness, that a connection is dialled    *)
(* only after the earlier ones are closed, that the writers that outlive   *)
(* their connections never outnumber the tokens meant for them, that no    *)
(* message is lost or doubled, and that first writes are in order.         *)
(***************************************************************************)
EXTENDS SynapseConnection, FiniteSetTheorems, TLAPS

\* Which channel the field holds, by the handler's state.
ChanOfConn ==
    /\ handler \in {"login", "serve", "rejected", "clearLogout", "broken", "finished"}
        => conn \in Conns /\ MsgErrChan = conn
    /\ handler = "dial" => MsgErrChan = conn + 1

\* The bound on the reports, and what a writer holds.
MessageBounds ==
    /\ accepted <= MaxReports + Logins
    /\ \A c \in Conns : writer[c] = "write" => held[c] \in Messages

\* The inductive invariant behind type correctness.
TypeInv == TypeOK /\ ChanOfConn /\ MessageBounds

USE ConnectionAssumption

\* The initial state satisfies the inductive invariant.
LEMMA TypeInit == Init => TypeInv
<1> SUFFICES ASSUME Init PROVE TypeInv
    OBVIOUS
<1> USE DEF Init
<1>1. TypeOK
  <2>1. MsgChan \in Seq(Messages)
        BY DEF Messages
  <2>2. sock \in [Conns -> {"none"}] /\ reader \in [Conns -> {"off"}]
           /\ writer \in [Conns -> {"off"}] /\ held \in [Conns -> {NoMsg}]
        OBVIOUS
  <2>3. conn \in 0..MaxConns /\ MsgErrChan \in Chans
           /\ ConnectionAborted \in 0..AbortedCap /\ accepted \in 0..(MaxConns + MaxReports)
        BY DEF Chans
  <2>4. QED
        BY <2>1, <2>2, <2>3 DEF TypeOK
<1>2. ChanOfConn
      BY DEF ChanOfConn
<1>3. MessageBounds
      BY DEF MessageBounds, Logins
<1>4. QED
      BY <1>1, <1>2, <1>3 DEF TypeInv

\* A step of the connection handler preserves it.
LEMMA TypeHandler == TypeInv /\ HandlerStep => TypeInv'
<1> SUFFICES ASSUME TypeInv, HandlerStep PROVE TypeInv'
    OBVIOUS
<1> USE DEF TypeInv, TypeOK, ChanOfConn, MessageBounds, Conns, Chans, Messages,
            Procs, NoMsg, Logins, mainVars, connVars, breakVars, readerVars,
            writerVars, msgVars
<1>1. CASE DialSucceeds
      BY <1>1 DEF DialSucceeds
<1>2. CASE DialFails
      BY <1>2 DEF DialFails, NextAttempt
<1>3. CASE Login
      BY <1>3, SMTT(30) DEF Login, Enqueue, Put
<1>4. CASE SendConnectionFailed
      BY <1>4 DEF SendConnectionFailed
<1>5. CASE ClearLogoutRequired
      BY <1>5 DEF ClearLogoutRequired
<1>6. CASE Select
      BY <1>6, ZenonT(60) DEF Select, SelectContextDone, SelectClosedChan,
                  SelectNormalCloser, SelectInvalid, LeaveSelect
<1>7. CASE AbortWriter
  <2>1. CASE handler = "broken"
        BY <1>7, <2>1 DEF AbortWriter, PutToken, NextAttempt
  <2>2. CASE handler = "finished"
        BY <1>7, <2>2 DEF AbortWriter, PutToken
  <2>3. QED
        BY <1>7, <2>1, <2>2 DEF AbortWriter
<1>8. QED
      BY <1>1, <1>2, <1>3, <1>4, <1>5, <1>6, <1>7 DEF HandlerStep

\* A goroutine that begins to report a break does so on a channel.
LEMMA BeginBreakType ==
    ASSUME TypeInv, NEW c \in Conns, NEW k \in {"reader", "writer"}, BeginBreak(<<k, c>>)
    PROVE  sending' \subseteq Procs \X Chans
<1>1. <<k, c>> \in Procs /\ MsgErrChan \in Chans /\ sending \subseteq Procs \X Chans
      BY DEF Procs, TypeInv, TypeOK
<1>2. QED
      BY <1>1 DEF BeginBreak

\* The send and the close of MsgErrChan preserve it.
LEMMA TypeBreak == ASSUME TypeInv, NEW p \in Procs, BreakStep(p) PROVE TypeInv'
<1> USE DEF TypeInv, TypeOK, ChanOfConn, MessageBounds, Logins, connVars, mainVars,
            readerVars, writerVars, msgVars
<1>1. CASE CloseMsgErrChan(p)
      BY <1>1 DEF BreakStep, CloseMsgErrChan
<1>2. ASSUME NEW ch \in Chans, SendBreak(p, ch) PROVE TypeInv'
      BY <1>2 DEF BreakStep, SendBreak, LeaveSelect
<1>3. QED
      BY <1>1, <1>2 DEF BreakStep

\* A step of a reader preserves it.
LEMMA TypeReader == ASSUME TypeInv, NEW c \in Conns, ReaderStep(c) PROVE TypeInv'
<1> USE DEF TypeInv, TypeOK, ChanOfConn, MessageBounds, Logins, connVars, mainVars,
            writerVars, msgVars
<1>1. CASE ReadFails(c) \/ WakeUp(c)
  <2>1. sending' \subseteq Procs \X Chans
        BY <1>1, BeginBreakType DEF ReadFails, WakeUp
  <2>2. QED
        BY <1>1, <2>1 DEF ReaderStep, ReadFails, WakeUp
<1>2. CASE ReadNormalClosure(c)
      BY <1>2 DEF ReaderStep, ReadNormalClosure
<1>3. CASE ReadAuthenticationFailed(c)
      BY <1>3 DEF ReaderStep, ReadAuthenticationFailed
<1>4. CASE ReadDuplicateConnection(c) \/ SleepAsDuplicate(c)
      BY <1>4 DEF ReaderStep, ReadDuplicateConnection, SleepAsDuplicate
<1>5. CASE PongDuringWrite(c)
      BY <1>5 DEF ReaderStep, PongDuringWrite, readerVars
<1>6. QED
      BY <1>1, <1>2, <1>3, <1>4, <1>5 DEF ReaderStep

\* A step of a writer preserves it.
LEMMA TypeWriter == ASSUME TypeInv, NEW c \in Conns, WriterStep(c) PROVE TypeInv'
<1> USE DEF TypeInv, TypeOK, ChanOfConn, MessageBounds, Logins, connVars, mainVars,
            readerVars, msgVars, NoMsg
<1>1. CASE WriterAborted(c)
      BY <1>1 DEF WriterStep, WriterAborted
<1>2. CASE WriterTakes(c)
      BY <1>2 DEF WriterStep, WriterTakes
<1>3. CASE WriteSucceeds(c)
      BY <1>3 DEF WriterStep, WriteSucceeds
<1>4. CASE WriteFails(c)
  <2>1. sending' \subseteq Procs \X Chans
        BY <1>4, BeginBreakType DEF WriteFails
  <2>2. MsgChan' \in Seq(Messages) /\ requeued' \subseteq Messages
        BY <1>4 DEF WriteFails, Put
  <2>3. QED
        BY <1>4, <2>1, <2>2 DEF WriterStep, WriteFails
<1>5. QED
      BY <1>1, <1>2, <1>3, <1>4 DEF WriterStep

\* The steps of InitiateConnection, main, the jobs and the peer preserve it.
LEMMA TypeOthers ==
    ASSUME TypeInv, InitiateStep \/ Interrupt \/ Report \/ \E c \in Conns : PeerLeaves(c)
    PROVE  TypeInv'
<1> USE DEF TypeInv, TypeOK, ChanOfConn, MessageBounds, Logins, connVars, mainVars,
            readerVars, writerVars, breakVars
<1>1. CASE InitiateStep
      BY <1>1 DEF InitiateStep, ContextDone, Logout, LogoutPanics, msgVars
<1>2. CASE Interrupt
      BY <1>2 DEF Interrupt, msgVars
<1>3. CASE Report
      BY <1>3 DEF Report, Enqueue, Put, Messages
<1>4. ASSUME NEW c \in Conns, PeerLeaves(c) PROVE TypeInv'
      BY <1>4 DEF PeerLeaves, msgVars
<1>5. QED
      BY <1>1, <1>2, <1>3, <1>4

\* The typing invariant holds throughout.
LEMMA TypeInvariant == Spec => []TypeInv
<1>1. TypeInv /\ [Next]_vars => TypeInv'
  <2> SUFFICES ASSUME TypeInv, [Next]_vars PROVE TypeInv'
      OBVIOUS
  <2>1. CASE Next
        BY <2>1, TypeHandler, TypeBreak, TypeReader, TypeWriter, TypeOthers DEF Next
  <2>2. CASE UNCHANGED vars
        BY <2>2 DEF TypeInv, TypeOK, ChanOfConn, MessageBounds, Logins, vars
  <2>3. QED
        BY <2>1, <2>2
<1>2. QED
      BY TypeInit, <1>1, PTL DEF Spec

\* Type correctness, for every value of the constants: in particular no more
\* tokens are ever in ConnectionAborted than the channel holds, and the field
\* MsgErrChan is replaced at most once a connection.
THEOREM TypeCorrect == Spec => []TypeOK
BY TypeInvariant, PTL DEF TypeInv

-----------------------------------------------------------------------------
(* Earlier connections are closed.                                         *)

\* Every connection up to the last one is closed before the handler dials, and
\* the connections to come are untouched.
ClosedInv ==
    /\ EarlierConnectionsClosed
    /\ handler \in {"dial", "broken"} /\ conn # 0 => sock[conn] = "closed"

\* One step preserves it: only LeaveSelect("broken") leads back to a dial, and
\* it closes the connection.
LEMMA ClosedStep == TypeInv /\ ClosedInv /\ [Next]_vars => ClosedInv'
<1> SUFFICES ASSUME TypeInv, ClosedInv, [Next]_vars PROVE ClosedInv'
    OBVIOUS
<1> USE DEF ClosedInv, EarlierConnectionsClosed, TypeInv, TypeOK, ChanOfConn,
            Conns, connVars
<1>1. CASE HandlerStep
  <2>1. CASE DialSucceeds
        BY <2>1 DEF DialSucceeds
  <2>2. CASE DialFails \/ Login \/ SendConnectionFailed
        BY <2>2 DEF DialFails, NextAttempt, Login, SendConnectionFailed
  <2>3. CASE ClearLogoutRequired
        BY <2>3 DEF ClearLogoutRequired
  <2>4. CASE Select
        BY <2>4 DEF Select, SelectContextDone, SelectClosedChan,
                    SelectNormalCloser, SelectInvalid, LeaveSelect
  <2>5. CASE AbortWriter
        BY <2>5 DEF AbortWriter, NextAttempt
  <2>6. QED
        BY <1>1, <2>1, <2>2, <2>3, <2>4, <2>5 DEF HandlerStep
<1>2. ASSUME NEW p \in Procs, BreakStep(p) PROVE ClosedInv'
  <2>1. CASE UNCHANGED <<handler, connVars>>
        BY <2>1
  <2>2. CASE LeaveSelect("broken")
        BY <2>2 DEF LeaveSelect
  <2>3. QED
        BY <1>2, <2>1, <2>2 DEF BreakStep, SendBreak, CloseMsgErrChan
<1>3. ASSUME NEW c \in Conns, ReaderStep(c) \/ WriterStep(c) PROVE ClosedInv'
      BY <1>3 DEF ReaderStep, WriterStep
<1>4. ASSUME NEW c \in Conns, PeerLeaves(c) PROVE ClosedInv'
      BY <1>4 DEF PeerLeaves
<1>5. CASE InitiateStep \/ Interrupt \/ Report
      BY <1>5 DEF InitiateStep, Interrupt, Report
<1>6. CASE UNCHANGED vars
      BY <1>6 DEF vars
<1>7. QED
      BY <1>1, <1>2, <1>3, <1>4, <1>5, <1>6 DEF Next

\* A connection is dialled only after every earlier one has been closed, however
\* many breaks are reported and for whichever connection (EarlierConnectionsClosed,
\* connectionHandler's deferred conn.Close).
THEOREM EarlierClosed == Spec => []EarlierConnectionsClosed
<1>1. Init => ClosedInv
      BY DEF Init, ClosedInv, EarlierConnectionsClosed, Conns
<1>2. QED
      BY <1>1, TypeInvariant, ClosedStep, PTL DEF Spec, ClosedInv

-----------------------------------------------------------------------------
(* Tokens for the writers that outlive their connections.                  *)

Writers == {c \in Conns : Running(c)}

\* A set of connections has a cardinality.
LEMMA WritersFinite == IsFiniteSet(Writers) /\ Cardinality(Writers) \in Nat
<1>1. IsFiniteSet(Conns)
      BY FS_Interval DEF Conns
<1>2. Writers \subseteq Conns
      BY DEF Writers
<1>3. QED
      BY <1>1, <1>2, FS_Subset, FS_CardinalityType

\* An element more adds at most one to the cardinality of a set.
LEMMA AddOne ==
    ASSUME NEW S, IsFiniteSet(S), NEW x
    PROVE  IsFiniteSet(S \cup {x}) /\ Cardinality(S \cup {x}) <= Cardinality(S) + 1
<1>1. Cardinality(S) \in Nat /\ IsFiniteSet(S \cup {x})
      BY FS_AddElement, FS_CardinalityType
<1>2. Cardinality(S \cup {x}) = Cardinality(S) \/ Cardinality(S \cup {x}) = Cardinality(S) + 1
      BY FS_AddElement
<1>3. QED
      BY <1>1, <1>2

\* One step preserves the account: a started writer adds one on both sides, a
\* token moves one from "attached" to the channel, and taking a token takes a
\* writer.
LEMMA TokensStep == TypeInv /\ StaleWritersCanStop /\ [Next]_vars => StaleWritersCanStop'
<1> SUFFICES ASSUME TypeInv, StaleWritersCanStop, [Next]_vars
             PROVE  StaleWritersCanStop'
    OBVIOUS
<1> DEFINE Bound == ConnectionAborted + (IF Attached THEN 1 ELSE 0)
<1>a. /\ Cardinality(Writers) <= Bound
      /\ Cardinality(Writers) \in Nat /\ Bound \in Int
      BY WritersFinite DEF StaleWritersCanStop, Writers, TypeInv, TypeOK
<1>b. Cardinality(Writers') \in Nat /\ IsFiniteSet(Writers) /\ IsFiniteSet(Writers')
  <2>1. IsFiniteSet(Conns)
        BY FS_Interval DEF Conns
  <2>2. Writers \subseteq Conns /\ Writers' \subseteq Conns
        BY DEF Writers
  <2>3. QED
        BY <2>1, <2>2, FS_Subset, FS_CardinalityType
<1>c. SUFFICES Cardinality(Writers') <= Bound'
      BY DEF StaleWritersCanStop, Writers
<1>d. ASSUME Writers' \subseteq Writers, Bound' = Bound PROVE Cardinality(Writers') <= Bound'
      BY <1>a, <1>b, <1>d, FS_Subset
<1> USE DEF Writers, Running, Attached
<1>1. CASE Login
  <2>1. Writers' \subseteq Writers \cup {conn}
        BY <1>1 DEF Login, TypeInv, TypeOK
  <2>2. Cardinality(Writers \cup {conn}) <= Cardinality(Writers) + 1
           /\ IsFiniteSet(Writers \cup {conn})
        BY <1>b, AddOne
  <2>3. Cardinality(Writers') <= Cardinality(Writers \cup {conn})
        BY <2>1, <2>2, FS_Subset
  <2>4. Bound' = Bound + 1
        BY <1>1 DEF Login, TypeInv, TypeOK
  <2>5. Cardinality(Writers \cup {conn}) \in Nat
        BY <2>2, FS_CardinalityType
  <2>6. QED
        BY <2>2, <2>3, <2>4, <2>5, <1>a, <1>b
<1>2. CASE AbortWriter
  <2>1. Writers' = Writers /\ Bound' = Bound
        BY <1>2 DEF AbortWriter, PutToken, NextAttempt, TypeInv, TypeOK, writerVars
  <2>2. QED
        BY <2>1, <1>d
<1>3. CASE DialSucceeds \/ DialFails \/ SendConnectionFailed \/ ClearLogoutRequired \/ Select
  <2>1. Writers' = Writers /\ Bound' = Bound
        BY <1>3 DEF DialSucceeds, DialFails, NextAttempt, SendConnectionFailed,
                    ClearLogoutRequired, Select, SelectContextDone,
                    SelectClosedChan, SelectNormalCloser, SelectInvalid,
                    LeaveSelect, writerVars
  <2>2. QED
        BY <2>1, <1>d
<1>4. ASSUME NEW p \in Procs, BreakStep(p) PROVE Cardinality(Writers') <= Bound'
  <2>1. Writers' = Writers /\ Bound' = Bound
        BY <1>4 DEF BreakStep, SendBreak, CloseMsgErrChan, LeaveSelect, writerVars
  <2>2. QED
        BY <2>1, <1>d
<1>5. ASSUME NEW c \in Conns, WriterStep(c) PROVE Cardinality(Writers') <= Bound'
  <2>1. CASE WriterAborted(c)
    <3>1. Writers' = Writers \ {c} /\ c \in Writers
          BY <1>5, <2>1 DEF WriterAborted, TypeInv, TypeOK
    <3>2. Bound' = Bound - 1
          BY <1>5, <2>1 DEF WriterAborted, WriterStep, TypeInv, TypeOK
    <3>3. Cardinality(Writers') = Cardinality(Writers) - 1
          BY <3>1, <1>b, FS_RemoveElement, SMTT(30)
    <3>4. QED
          BY <3>2, <3>3, <1>a
  <2>2. CASE WriterTakes(c) \/ WriteSucceeds(c) \/ WriteFails(c)
    <3>1. Writers' \subseteq Writers /\ Bound' = Bound
          BY <1>5, <2>2 DEF WriterTakes, WriteSucceeds, WriteFails, WriterStep,
                            TypeInv, TypeOK
    <3>2. QED
          BY <3>1, <1>d
  <2>3. QED
        BY <1>5, <2>1, <2>2 DEF WriterStep
<1>6. CASE \/ \E c \in Conns : ReaderStep(c) \/ PeerLeaves(c)
           \/ InitiateStep \/ Interrupt \/ Report \/ UNCHANGED vars
  <2>1. Writers' = Writers /\ Bound' = Bound
        BY <1>6 DEF ReaderStep, PeerLeaves, InitiateStep, Interrupt, Report,
                    writerVars, vars
  <2>2. QED
        BY <2>1, <1>d
<1>7. QED
      BY <1>1, <1>2, <1>3, <1>4, <1>5, <1>6 DEF Next, HandlerStep

\* Whenever k writers outlive their connections, at least k tokens wait in
\* ConnectionAborted (StaleWritersCanStop, messageWriter and the deferred send
\* of connectionHandler).
THEOREM TokensForStaleWriters == Spec => []StaleWritersCanStop
<1>1. Init => StaleWritersCanStop
  <2> SUFFICES ASSUME Init PROVE StaleWritersCanStop
      OBVIOUS
  <2>1. {c \in Conns : Running(c)} = {}
        BY DEF Init, Running
  <2>2. Cardinality({c \in Conns : Running(c)}) = 0
        BY <2>1, FS_EmptySet
  <2>3. QED
        BY <2>2 DEF StaleWritersCanStop, Init, Attached
<1>2. QED
      BY <1>1, TypeInvariant, TokensStep, PTL DEF Spec

-----------------------------------------------------------------------------
(* Messages are conserved.                                                 *)

Queued(n) == \E i \in DOMAIN MsgChan : MsgChan[i] = n
Taken(n) == \E c \in Conns : held[c] = n

\* A writer holds a message only while it writes, and is started by the login of
\* its connection.
WriterInv ==
    /\ \A c \in Conns : held[c] # NoMsg => writer[c] = "write"
    /\ \A c \in Conns : c > Logins => writer[c] = "off"

\* A message is in no place twice,
OncePerPlace ==
    /\ \A i, j \in DOMAIN MsgChan : MsgChan[i] = MsgChan[j] => i = j
    /\ \A c, d \in Conns : held[c] = held[d] /\ held[c] # NoMsg => c = d

\* nor in two places,
OnePlace ==
    /\ \A i \in DOMAIN MsgChan : MsgChan[i] \notin written /\ ~Taken(MsgChan[i])
    /\ \A c \in Conns : held[c] \notin written

\* and every message that was accepted, no other one, has a place.
HaveAPlace ==
    /\ \A n \in 1..accepted : Queued(n) \/ Taken(n) \/ n \in written
    /\ \A i \in DOMAIN MsgChan : MsgChan[i] <= accepted
    /\ \A c \in Conns : held[c] <= accepted
    /\ \A n \in written : n <= accepted

MessageInv == WriterInv /\ OncePerPlace /\ OnePlace /\ HaveAPlace

msgState == <<MsgChan, held, accepted, written>>

\* The elements of a channel after a put and after a receive.
LEMMA AfterPut ==
    ASSUME TypeInv, NEW n, Put(n)
    PROVE  /\ \A i \in DOMAIN MsgChan' :
                 \/ i \in DOMAIN MsgChan /\ MsgChan'[i] = MsgChan[i]
                 \/ i = Len(MsgChan) + 1 /\ MsgChan'[i] = n
           /\ \A i \in DOMAIN MsgChan : i \in DOMAIN MsgChan' /\ MsgChan'[i] = MsgChan[i]
           /\ Len(MsgChan) + 1 \in DOMAIN MsgChan' /\ MsgChan'[Len(MsgChan) + 1] = n
           /\ \A i \in DOMAIN MsgChan : i \in Int /\ i < Len(MsgChan) + 1
    BY DEF TypeInv, TypeOK, Put

LEMMA AfterReceive ==
    ASSUME TypeInv, MsgChan # <<>>, MsgChan' = Tail(MsgChan)
    PROVE  /\ 1 \in DOMAIN MsgChan /\ Head(MsgChan) = MsgChan[1]
           /\ \A i \in DOMAIN MsgChan' : /\ i + 1 \in DOMAIN MsgChan /\ i \in Nat /\ i >= 1
                                         /\ MsgChan'[i] = MsgChan[i + 1]
           /\ \A i \in DOMAIN MsgChan :
                 i # 1 => i - 1 \in DOMAIN MsgChan' /\ MsgChan'[i - 1] = MsgChan[i]
    BY DEF TypeInv, TypeOK

\* What does not touch a message.
LEMMA MessageUntouched ==
    ASSUME MessageInv, WriterInv', UNCHANGED msgState PROVE MessageInv'
    BY DEF MessageInv, OncePerPlace, OnePlace, HaveAPlace, Queued, Taken, msgState

\* A new message enters the channel.
LEMMA MessageEnters ==
    ASSUME TypeInv, MessageInv, WriterInv', Enqueue, UNCHANGED held PROVE MessageInv'
<1>0. /\ accepted \in Nat /\ MsgChan \in Seq(Nat) /\ \A c \in Conns : held[c] \in Nat
      /\ written \subseteq Nat
    BY DEF TypeInv, TypeOK, Messages, NoMsg
<1>1. /\ Put(accepted + 1) /\ accepted' = accepted + 1 /\ UNCHANGED <<held, written>>
    BY DEF Enqueue
<1>2. /\ \A i \in DOMAIN MsgChan : MsgChan[i] \in Nat /\ MsgChan[i] <= accepted
      /\ \A c \in Conns : held[c] <= accepted
      /\ \A n \in written : n <= accepted
    BY <1>0 DEF MessageInv, HaveAPlace
<1>3. OncePerPlace'
    BY <1>0, <1>1, <1>2, AfterPut DEF MessageInv, OncePerPlace
<1>4. OnePlace'
    BY <1>0, <1>1, <1>2, AfterPut DEF MessageInv, OnePlace, Taken
<1>5. HaveAPlace'
    <2>1. \A n \in 1..accepted' : n \in 1..accepted \/ n = accepted + 1
        BY <1>0, <1>1
    <2>2. \A n \in 1..accepted' : Queued(n)' \/ Taken(n)' \/ n \in written'
        BY <1>1, <2>1, AfterPut DEF MessageInv, HaveAPlace, Queued, Taken
    <2>3. \A i \in DOMAIN MsgChan' : MsgChan'[i] <= accepted'
        BY <1>0, <1>1, <1>2, AfterPut
    <2>. QED BY <1>0, <1>1, <1>2, <2>2, <2>3 DEF HaveAPlace
<1>. QED BY <1>3, <1>4, <1>5 DEF MessageInv

\* A writer receives one.
LEMMA MessageTaken ==
    ASSUME TypeInv, MessageInv, WriterInv', NEW c \in Conns, WriterTakes(c) PROVE MessageInv'
<1>0. /\ held \in [Conns -> Messages \cup {NoMsg}] /\ NoMsg \notin Messages
      /\ \A i \in DOMAIN MsgChan : MsgChan[i] \in Messages
    BY DEF TypeInv, TypeOK, Messages, NoMsg
<1>1. /\ MsgChan # <<>> /\ MsgChan' = Tail(MsgChan)
      /\ held' = [held EXCEPT ![c] = MsgChan[1]] /\ held[c] = NoMsg
      /\ UNCHANGED <<accepted, written>>
    BY AfterReceive DEF WriterTakes, MessageInv, WriterInv
<1>2. /\ 1 \in DOMAIN MsgChan /\ held'[c] = MsgChan[1]
      /\ \A d \in Conns : d # c => held'[d] = held[d]
    BY <1>0, <1>1, AfterReceive
<1>3. /\ \A i \in DOMAIN MsgChan' : /\ i + 1 \in DOMAIN MsgChan /\ i + 1 # 1
                                    /\ MsgChan'[i] = MsgChan[i + 1]
      /\ \A i, j \in DOMAIN MsgChan' : i + 1 = j + 1 => i = j
      /\ \A i \in DOMAIN MsgChan :
            i # 1 => i - 1 \in DOMAIN MsgChan' /\ MsgChan'[i - 1] = MsgChan[i]
    BY <1>1, AfterReceive
<1>4. OncePerPlace'
    <2>1. \A i, j \in DOMAIN MsgChan' : MsgChan'[i] = MsgChan'[j] => i = j
        BY <1>3 DEF MessageInv, OncePerPlace
    <2>2. \A d, e \in Conns : held'[d] = held'[e] /\ held'[d] # NoMsg => d = e
        BY <1>2 DEF MessageInv, OncePerPlace, OnePlace, Taken
    <2>. QED BY <2>1, <2>2 DEF OncePerPlace
<1>5. OnePlace'
    <2>1. \A i \in DOMAIN MsgChan' : MsgChan'[i] \notin written' /\ MsgChan'[i] # MsgChan[1]
        BY <1>1, <1>2, <1>3 DEF MessageInv, OncePerPlace, OnePlace
    <2>2. \A i \in DOMAIN MsgChan' : \A d \in Conns : held'[d] # MsgChan'[i]
        BY <1>2, <1>3, <2>1 DEF MessageInv, OnePlace, Taken
    <2>3. \A d \in Conns : held'[d] \notin written'
        BY <1>1, <1>2 DEF MessageInv, OnePlace
    <2>. QED BY <2>1, <2>2, <2>3 DEF OnePlace, Taken
<1>6. HaveAPlace'
    <2>1. ASSUME NEW n \in 1..accepted PROVE Queued(n)' \/ Taken(n)' \/ n \in written'
        <3>1. CASE Queued(n)
            BY <1>2, <1>3, <3>1 DEF Queued, Taken
        <3>2. CASE Taken(n)
            <4>1. n # NoMsg
                BY DEF NoMsg
            <4>. QED BY <1>1, <1>2, <3>2, <4>1 DEF Taken
        <3>. QED BY <1>1, <3>1, <3>2 DEF MessageInv, HaveAPlace
    <2>. QED BY <1>1, <1>2, <1>3, <2>1 DEF MessageInv, HaveAPlace
<1>. QED BY <1>4, <1>5, <1>6 DEF MessageInv

\* It is written.
LEMMA MessageWritten ==
    ASSUME TypeInv, MessageInv, WriterInv', NEW c \in Conns, WriteSucceeds(c) PROVE MessageInv'
<1>1. /\ held \in [Conns -> Messages \cup {NoMsg}] /\ held[c] # NoMsg
      /\ \A i \in DOMAIN MsgChan : MsgChan[i] # NoMsg
      /\ NoMsg \notin written
    BY DEF TypeInv, TypeOK, MessageBounds, WriteSucceeds, Messages, NoMsg
<1>2. /\ held' = [held EXCEPT ![c] = NoMsg] /\ written' = written \cup {held[c]}
      /\ UNCHANGED <<MsgChan, accepted>>
    BY DEF WriteSucceeds
<1>3. held'[c] = NoMsg /\ \A d \in Conns : d # c => held'[d] = held[d]
    BY <1>1, <1>2
<1>4. OncePerPlace'
    BY <1>2, <1>3 DEF MessageInv, OncePerPlace
<1>5. OnePlace'
    <2>1. \A i \in DOMAIN MsgChan : MsgChan[i] \notin written' /\ ~Taken(MsgChan[i])'
        BY <1>1, <1>2, <1>3 DEF MessageInv, OnePlace, Taken
    <2>2. \A d \in Conns : held'[d] \notin written'
        BY <1>1, <1>2, <1>3 DEF MessageInv, OnePlace, OncePerPlace
    <2>. QED BY <1>2, <2>1, <2>2 DEF OnePlace, Taken
<1>6. HaveAPlace'
    <2>1. \A n \in 1..accepted : Queued(n)' \/ Taken(n)' \/ n \in written'
        BY <1>2, <1>3 DEF MessageInv, HaveAPlace, Queued, Taken
    <2>2. /\ \A d \in Conns : held'[d] <= accepted
          /\ \A n \in written' : n <= accepted
        BY <1>2, <1>3 DEF MessageInv, HaveAPlace, TypeInv, TypeOK, NoMsg
    <2>. QED BY <1>2, <2>1, <2>2 DEF MessageInv, HaveAPlace
<1>. QED BY <1>4, <1>5, <1>6 DEF MessageInv

\* It goes back to the channel.
LEMMA MessageBack ==
    ASSUME TypeInv, MessageInv, WriterInv', NEW c \in Conns, WriteFails(c) PROVE MessageInv'
<1>1. /\ held \in [Conns -> Messages \cup {NoMsg}] /\ held[c] # NoMsg
      /\ \A i \in DOMAIN MsgChan : MsgChan[i] # NoMsg
      /\ NoMsg \notin written
    BY DEF TypeInv, TypeOK, MessageBounds, WriteFails, Messages, NoMsg
<1>2. /\ held' = [held EXCEPT ![c] = NoMsg] /\ Put(held[c])
      /\ UNCHANGED <<accepted, written>>
    BY DEF WriteFails
<1>3. held'[c] = NoMsg /\ \A d \in Conns : d # c => held'[d] = held[d]
    BY <1>1, <1>2
<1>4. OncePerPlace'
    <2>1. \A i \in DOMAIN MsgChan : MsgChan[i] # held[c]
        BY DEF MessageInv, OnePlace, Taken
    <2>2. \A i, j \in DOMAIN MsgChan' : MsgChan'[i] = MsgChan'[j] => i = j
        BY <1>2, <2>1, AfterPut DEF MessageInv, OncePerPlace
    <2>3. \A d, e \in Conns : held'[d] = held'[e] /\ held'[d] # NoMsg => d = e
        BY <1>3 DEF MessageInv, OncePerPlace
    <2>. QED BY <2>2, <2>3 DEF OncePerPlace
<1>5. OnePlace'
    <2>1. \A i \in DOMAIN MsgChan' : MsgChan'[i] \notin written
        BY <1>2, AfterPut DEF MessageInv, OnePlace
    <2>2. \A i \in DOMAIN MsgChan' : \A d \in Conns : held'[d] # MsgChan'[i]
        BY <1>1, <1>2, <1>3, AfterPut DEF MessageInv, OncePerPlace, OnePlace, Taken
    <2>3. \A d \in Conns : held'[d] \notin written
        BY <1>1, <1>3 DEF MessageInv, OnePlace
    <2>. QED BY <1>2, <2>1, <2>2, <2>3 DEF OnePlace, Taken
<1>6. HaveAPlace'
    <2>1. \A n \in 1..accepted : Queued(n)' \/ Taken(n)' \/ n \in written
        BY <1>2, <1>3, AfterPut DEF MessageInv, HaveAPlace, Queued, Taken
    <2>2. NoMsg <= accepted
        BY DEF TypeInv, TypeOK, NoMsg
    <2>3. \A i \in DOMAIN MsgChan' : MsgChan'[i] <= accepted
        BY <1>2, AfterPut DEF MessageInv, HaveAPlace
    <2>. QED BY <1>2, <1>3, <2>1, <2>2, <2>3 DEF MessageInv, HaveAPlace
<1>. QED BY <1>4, <1>5, <1>6 DEF MessageInv

\* Writers are started by logins, and hold a message only between a receive and
\* the end of the write.
LEMMA WriterStays == ASSUME TypeInv, WriterInv, [Next]_vars PROVE WriterInv'
<1>. USE DEF WriterInv, TypeInv, TypeOK, ChanOfConn, Logins, Conns
<1>1. CASE Login
    <2>1. /\ handler = "login" /\ handler' = "serve" /\ conn' = conn /\ held' = held
          /\ writer' = [writer EXCEPT ![conn] = "select"] /\ conn \in Conns
        BY <1>1 DEF Login, connVars
    <2>2. held[conn] = NoMsg
        BY <2>1
    <2>3. \A c \in Conns : c # conn => writer'[c] = writer[c]
        BY <2>1
    <2>4. \A c \in Conns : c > conn => writer[c] = "off"
        BY <2>1
    <2>. QED BY <2>1, <2>2, <2>3, <2>4
<1>2. CASE DialSucceeds
    BY <1>2 DEF DialSucceeds, writerVars
<1>3. CASE DialFails \/ SendConnectionFailed \/ ClearLogoutRequired \/ Select \/ AbortWriter
    <2>1. UNCHANGED <<writer, held, conn>> /\ handler # "login" /\ handler' # "login"
        BY <1>3 DEF DialFails, NextAttempt, SendConnectionFailed, ClearLogoutRequired, Select,
            SelectContextDone, SelectClosedChan, SelectNormalCloser, SelectInvalid, LeaveSelect,
            AbortWriter, writerVars, connVars
    <2>. QED BY <2>1
<1>4. ASSUME NEW p \in Procs, BreakStep(p) PROVE WriterInv'
    <2>1. UNCHANGED <<writer, held, conn>> /\ (handler' = "login" <=> handler = "login")
        BY <1>4 DEF BreakStep, CloseMsgErrChan, SendBreak, LeaveSelect, writerVars, connVars
    <2>. QED BY <2>1
<1>5. ASSUME NEW c \in Conns, WriterStep(c) PROVE WriterInv'
    <2>1. UNCHANGED <<handler, conn>> /\ writer[c] # "off"
        BY <1>5 DEF WriterStep, WriterAborted, WriterTakes, WriteSucceeds, WriteFails, connVars
    <2>2. \/ writer' = [writer EXCEPT ![c] = "write"]
          \/ /\ \E s \in {"done", "select"} : writer' = [writer EXCEPT ![c] = s]
             /\ (held' = held /\ held[c] = NoMsg) \/ held' = [held EXCEPT ![c] = NoMsg]
        BY <1>5 DEF WriterStep, WriterAborted, WriterTakes, WriteSucceeds, WriteFails
    <2>3. \A d \in Conns : d # c => held'[d] = held[d] /\ writer'[d] = writer[d]
        BY <1>5 DEF WriterStep, WriterAborted, WriterTakes, WriteSucceeds, WriteFails
    <2>. QED BY <2>1, <2>2, <2>3
<1>6. CASE \/ \E c \in Conns : ReaderStep(c) \/ PeerLeaves(c)
           \/ InitiateStep \/ Interrupt \/ Report \/ UNCHANGED vars
    <2>1. UNCHANGED <<writer, held, conn, handler>>
        BY <1>6 DEF ReaderStep, PeerLeaves, InitiateStep, Interrupt, Report, writerVars, connVars,
            vars
    <2>. QED BY <2>1
<1>. QED BY <1>1, <1>2, <1>3, <1>4, <1>5, <1>6 DEF Next, HandlerStep

LEMMA MessageStep == ASSUME TypeInv, MessageInv, [Next]_vars PROVE MessageInv'
<1>0. WriterInv'
    BY WriterStays DEF MessageInv
<1>1. CASE Login \/ Report
    <2>1. Enqueue /\ UNCHANGED held
        BY <1>1 DEF Login, Report, writerVars
    <2>. QED BY <1>0, <2>1, MessageEnters
<1>2. ASSUME NEW c \in Conns, WriterStep(c) PROVE MessageInv'
    <2>1. CASE WriterAborted(c)
        BY <1>0, <2>1, MessageUntouched DEF WriterAborted, msgVars, msgState
    <2>. QED BY <1>0, <1>2, <2>1, MessageTaken, MessageWritten, MessageBack DEF WriterStep
<1>3. CASE \/ DialSucceeds \/ DialFails \/ SendConnectionFailed \/ ClearLogoutRequired
           \/ Select \/ AbortWriter
    <2>1. UNCHANGED msgState
        BY <1>3 DEF DialSucceeds, DialFails, SendConnectionFailed, ClearLogoutRequired, Select,
            AbortWriter, writerVars, msgVars, msgState
    <2>. QED BY <1>0, <2>1, MessageUntouched
<1>4. CASE \/ \E p \in Procs : BreakStep(p)
           \/ \E c \in Conns : ReaderStep(c) \/ PeerLeaves(c)
           \/ InitiateStep \/ Interrupt \/ UNCHANGED vars
    <2>1. UNCHANGED msgState
        BY <1>4 DEF BreakStep, ReaderStep, PeerLeaves, InitiateStep, Interrupt, writerVars, msgVars,
            msgState, vars
    <2>. QED BY <1>0, <2>1, MessageUntouched
<1>. QED BY <1>1, <1>2, <1>3, <1>4 DEF Next, HandlerStep

LEMMA MessageInvariant == Spec => []MessageInv
<1>1. ASSUME Init PROVE MessageInv
    <2>1. WriterInv /\ OncePerPlace /\ OnePlace
        BY <1>1 DEF Init, WriterInv, OncePerPlace, OnePlace, Taken, NoMsg
    <2>2. HaveAPlace
        <3>1. 1..accepted = {} /\ DOMAIN MsgChan = {} /\ written = {} /\ accepted = 0
            BY <1>1 DEF Init
        <3>2. \A c \in Conns : held[c] <= accepted
            BY <1>1 DEF Init, NoMsg
        <3>. QED BY <3>1, <3>2 DEF HaveAPlace
    <2>. QED BY <2>1, <2>2 DEF MessageInv
<1>. QED BY <1>1, TypeInvariant, MessageStep, PTL DEF Spec

\* Whatever breaks and requeues there are, and however many writers drain the
\* channel: an accepted message is in one place, once (MessagesConserved,
\* writeMessageToBuffer and messageWriter).
THEOREM MessagesAreConserved == Spec => []MessagesConserved
<1>1. ASSUME TypeInv, MessageInv PROVE MessagesConserved
    <2>. SUFFICES ASSUME NEW n \in 1..accepted
                  PROVE  Cardinality({i \in DOMAIN MsgChan : MsgChan[i] = n})
                            + Cardinality({c \in Conns : held[c] = n})
                            + (IF n \in written THEN 1 ELSE 0) = 1
        BY DEF MessagesConserved
    <2>. DEFINE queued == {i \in DOMAIN MsgChan : MsgChan[i] = n}
                taken == {c \in Conns : held[c] = n}
    <2>0. n # NoMsg
        BY DEF NoMsg
    <2>1. queued # {} => Cardinality(queued) = 1 /\ taken = {} /\ n \notin written
        <3>1. ASSUME NEW i \in queued PROVE queued = {i} /\ taken = {} /\ n \notin written
            BY <1>1 DEF MessageInv, OncePerPlace, OnePlace, Taken
        <3>. QED BY <3>1, FS_Singleton
    <2>2. taken # {} => Cardinality(taken) = 1 /\ n \notin written
        <3>1. ASSUME NEW c \in taken PROVE taken = {c} /\ n \notin written
            BY <1>1, <2>0 DEF MessageInv, OncePerPlace, OnePlace
        <3>. QED BY <3>1, FS_Singleton
    <2>3. queued # {} \/ taken # {} \/ n \in written
        BY <1>1 DEF MessageInv, HaveAPlace, Queued, Taken
    <2>4. Cardinality({}) = 0
        BY FS_EmptySet
    <2>. HIDE DEF queued, taken
    <2>5. Cardinality(queued) + Cardinality(taken) + (IF n \in written THEN 1 ELSE 0) = 1
        BY <2>1, <2>2, <2>3, <2>4
    <2>. QED BY <2>5 DEF queued, taken
<1>. QED BY <1>1, TypeInvariant, MessageInvariant, PTL

-----------------------------------------------------------------------------
(* First writes are in order.                                              *)

\* Among the messages no writer has put back: the channel is in order,
QueuedInOrder ==
    \A i, j \in DOMAIN MsgChan :
        i < j /\ MsgChan[i] \notin requeued /\ MsgChan[j] \notin requeued => MsgChan[i] < MsgChan[j]

\* what was written or is held precedes what is in it,
AheadOfQueue ==
    \A i \in DOMAIN MsgChan : MsgChan[i] \notin requeued =>
        /\ \A n \in written \ requeued : n < MsgChan[i]
        /\ \A c \in Conns : held[c] \notin requeued => held[c] < MsgChan[i]

\* and what can still be written follows what was.
HeldIsNext ==
    \A c \in Conns : held[c] # NoMsg /\ held[c] \notin requeued /\ sock[c] # "closed" =>
        \A n \in written \ requeued : n < held[c]

OrderInv == QueuedInOrder /\ AheadOfQueue /\ HeldIsNext

\* The connections that are closed stay so, and no message is held for one that
\* is yet to be dialled.
SocksClosed ==
    \A c \in Conns : held[c] # NoMsg /\ sock[c] = "closed" => sock'[c] = "closed"

\* Of all writers that hold a message only that of the last connection can write.
LEMMA OneWrites ==
    ASSUME TypeInv, ClosedInv, WriterInv, NEW c \in Conns, NEW d \in Conns, c # d,
           held[c] # NoMsg, held[d] # NoMsg, sock[c] # "closed"
    PROVE  sock[d] = "closed"
<1>1. c <= conn /\ d <= conn
    BY DEF WriterInv, Logins, TypeInv, TypeOK, Conns
<1>2. ~(c < conn)
    BY DEF ClosedInv, EarlierConnectionsClosed
<1>3. d < conn
    BY <1>1, <1>2 DEF Conns, TypeInv, TypeOK
<1>. QED BY <1>3 DEF ClosedInv, EarlierConnectionsClosed

LEMMA OrderUntouched ==
    ASSUME OrderInv, SocksClosed, UNCHANGED <<msgState, requeued>> PROVE OrderInv'
    BY DEF OrderInv, QueuedInOrder, AheadOfQueue, HeldIsNext, SocksClosed, msgState

LEMMA OrderEnters ==
    ASSUME TypeInv, MessageInv, OrderInv, Enqueue, UNCHANGED <<held, sock>> PROVE OrderInv'
<1>0. /\ accepted \in Nat /\ MsgChan \in Seq(Nat) /\ \A c \in Conns : held[c] \in Nat
      /\ written \subseteq Nat
    BY DEF TypeInv, TypeOK, Messages, NoMsg
<1>1. Put(accepted + 1) /\ UNCHANGED <<written, requeued>>
    BY DEF Enqueue
<1>2. /\ \A i \in DOMAIN MsgChan : MsgChan[i] \in Nat /\ MsgChan[i] < accepted + 1
      /\ \A c \in Conns : held[c] < accepted + 1
      /\ \A n \in written : n < accepted + 1
    BY <1>0 DEF MessageInv, HaveAPlace
<1>3. QueuedInOrder'
    BY <1>0, <1>1, <1>2, AfterPut DEF OrderInv, QueuedInOrder
<1>4. AheadOfQueue'
    BY <1>1, <1>2, AfterPut DEF OrderInv, AheadOfQueue
<1>5. HeldIsNext'
    BY <1>1 DEF OrderInv, HeldIsNext
<1>. QED BY <1>3, <1>4, <1>5 DEF OrderInv

LEMMA OrderTaken ==
    ASSUME TypeInv, MessageInv, OrderInv, NEW c \in Conns, WriterTakes(c), UNCHANGED sock
    PROVE  OrderInv'
<1>1. /\ MsgChan # <<>> /\ MsgChan' = Tail(MsgChan)
      /\ held' = [held EXCEPT ![c] = MsgChan[1]] /\ UNCHANGED <<written, requeued>>
    BY AfterReceive DEF WriterTakes
<1>2. /\ 1 \in DOMAIN MsgChan /\ held'[c] = MsgChan[1]
      /\ \A d \in Conns : d # c => held'[d] = held[d]
    BY <1>1, AfterReceive DEF TypeInv, TypeOK
<1>3. /\ \A i \in DOMAIN MsgChan' : /\ i + 1 \in DOMAIN MsgChan /\ 1 < i + 1
                                    /\ MsgChan'[i] = MsgChan[i + 1]
      /\ \A i, j \in DOMAIN MsgChan' : i < j => i + 1 < j + 1
    BY <1>1, AfterReceive
<1>4. QueuedInOrder'
    BY <1>1, <1>3 DEF OrderInv, QueuedInOrder
<1>5. AheadOfQueue'
    BY <1>1, <1>2, <1>3 DEF OrderInv, QueuedInOrder, AheadOfQueue
<1>6. HeldIsNext'
    BY <1>1, <1>2 DEF OrderInv, AheadOfQueue, HeldIsNext
<1>. QED BY <1>4, <1>5, <1>6 DEF OrderInv

LEMMA OrderWritten ==
    ASSUME TypeInv, ClosedInv, MessageInv, OrderInv, NEW c \in Conns, WriteSucceeds(c),
           UNCHANGED sock
    PROVE  OrderInv'
<1>1. /\ held \in [Conns -> Messages \cup {NoMsg}] /\ held[c] # NoMsg
      /\ \A i \in DOMAIN MsgChan : NoMsg < MsgChan[i]
    BY DEF TypeInv, TypeOK, MessageBounds, WriteSucceeds, Messages, NoMsg
<1>2. /\ held' = [held EXCEPT ![c] = NoMsg] /\ written' = written \cup {held[c]}
      /\ UNCHANGED <<MsgChan, requeued>> /\ sock[c] # "closed"
    BY DEF WriteSucceeds
<1>3. held'[c] = NoMsg /\ \A d \in Conns : d # c => held'[d] = held[d]
    BY <1>1, <1>2
<1>4. QueuedInOrder'
    BY <1>2 DEF OrderInv, QueuedInOrder
<1>5. AheadOfQueue'
    BY <1>1, <1>2, <1>3 DEF OrderInv, AheadOfQueue
<1>6. HeldIsNext'
    <2>1. \A d \in Conns : held'[d] # NoMsg => sock[d] = "closed"
        BY <1>1, <1>2, <1>3, OneWrites DEF MessageInv
    <2>. QED BY <2>1 DEF HeldIsNext
<1>. QED BY <1>4, <1>5, <1>6 DEF OrderInv

LEMMA OrderBack ==
    ASSUME TypeInv, OrderInv, NEW c \in Conns, WriteFails(c), UNCHANGED sock PROVE OrderInv'
<1>1. /\ held \in [Conns -> Messages \cup {NoMsg}]
      /\ \A i \in DOMAIN MsgChan : NoMsg < MsgChan[i]
    BY DEF TypeInv, TypeOK, Messages, NoMsg
<1>2. /\ held' = [held EXCEPT ![c] = NoMsg] /\ Put(held[c])
      /\ requeued' = requeued \cup {held[c]} /\ UNCHANGED written
    BY DEF WriteFails
<1>3. held'[c] = NoMsg /\ \A d \in Conns : d # c => held'[d] = held[d]
    BY <1>1, <1>2
<1>4. \A i \in DOMAIN MsgChan' : MsgChan'[i] \notin requeued' =>
          i \in DOMAIN MsgChan /\ MsgChan'[i] = MsgChan[i] /\ MsgChan[i] \notin requeued
    BY <1>2, AfterPut
<1>5. QueuedInOrder'
    BY <1>4 DEF OrderInv, QueuedInOrder
<1>6. AheadOfQueue'
    BY <1>1, <1>2, <1>3, <1>4 DEF OrderInv, AheadOfQueue
<1>7. HeldIsNext'
    BY <1>2, <1>3 DEF OrderInv, HeldIsNext
<1>. QED BY <1>5, <1>6, <1>7 DEF OrderInv

\* A connection is opened once, when nobody writes on it yet.
LEMMA SocksStay == ASSUME TypeInv, WriterInv, [Next]_vars PROVE SocksClosed
<1>. USE DEF SocksClosed, TypeInv, TypeOK, ChanOfConn, Conns
<1>1. CASE DialSucceeds
    <2>1. sock' = [sock EXCEPT ![conn + 1] = "open"] /\ conn + 1 \in Conns /\ handler = "dial"
        BY <1>1 DEF DialSucceeds
    <2>2. held[conn + 1] = NoMsg
        BY <2>1 DEF WriterInv, Logins
    <2>. QED BY <2>1, <2>2
<1>2. CASE sock' = sock \/ (conn \in Conns /\ sock' = [sock EXCEPT ![conn] = "closed"])
    BY <1>2
<1>3. CASE DialFails \/ Login \/ SendConnectionFailed \/ ClearLogoutRequired \/ Select \/ AbortWriter
    <2>1. sock' = sock \/ (conn \in Conns /\ sock' = [sock EXCEPT ![conn] = "closed"])
        BY <1>3 DEF DialFails, Login, SendConnectionFailed, ClearLogoutRequired, Select,
            SelectContextDone, SelectClosedChan, SelectNormalCloser, SelectInvalid, LeaveSelect,
            AbortWriter, connVars
    <2>. QED BY <1>2, <2>1
<1>4. ASSUME NEW p \in Procs, BreakStep(p) PROVE SocksClosed
    <2>1. sock' = sock \/ (conn \in Conns /\ sock' = [sock EXCEPT ![conn] = "closed"])
        BY <1>4 DEF BreakStep, CloseMsgErrChan, SendBreak, LeaveSelect, connVars
    <2>. QED BY <1>2, <2>1
<1>5. ASSUME NEW c \in Conns, PeerLeaves(c) PROVE SocksClosed
    BY <1>5 DEF PeerLeaves
<1>6. CASE \/ \E c \in Conns : ReaderStep(c) \/ WriterStep(c)
           \/ InitiateStep \/ Interrupt \/ Report \/ UNCHANGED vars
    BY <1>6 DEF ReaderStep, WriterStep, InitiateStep, Interrupt, Report, connVars, vars
<1>. QED BY <1>1, <1>3, <1>4, <1>5, <1>6 DEF Next, HandlerStep

LEMMA OrderStep ==
    ASSUME TypeInv, ClosedInv, MessageInv, OrderInv, [Next]_vars PROVE OrderInv'
<1>0. SocksClosed
    BY SocksStay DEF MessageInv
<1>1. CASE Login \/ Report
    <2>1. Enqueue /\ UNCHANGED <<held, sock>>
        BY <1>1 DEF Login, Report, writerVars, connVars
    <2>. QED BY <2>1, OrderEnters
<1>2. ASSUME NEW c \in Conns, WriterStep(c) PROVE OrderInv'
    <2>1. UNCHANGED sock
        BY <1>2 DEF WriterStep, connVars
    <2>2. CASE WriterAborted(c)
        BY <1>0, <2>2, OrderUntouched DEF WriterAborted, msgVars, msgState
    <2>. QED BY <1>2, <2>1, <2>2, OrderTaken, OrderWritten, OrderBack DEF WriterStep
<1>3. CASE \/ DialSucceeds \/ DialFails \/ SendConnectionFailed \/ ClearLogoutRequired
           \/ Select \/ AbortWriter
    <2>1. UNCHANGED <<msgState, requeued>>
        BY <1>3 DEF DialSucceeds, DialFails, SendConnectionFailed, ClearLogoutRequired, Select,
            AbortWriter, writerVars, msgVars, msgState
    <2>. QED BY <1>0, <2>1, OrderUntouched
<1>4. CASE \/ \E p \in Procs : BreakStep(p)
           \/ \E c \in Conns : ReaderStep(c) \/ PeerLeaves(c)
           \/ InitiateStep \/ Interrupt \/ UNCHANGED vars
    <2>1. UNCHANGED <<msgState, requeued>>
        BY <1>4 DEF BreakStep, ReaderStep, PeerLeaves, InitiateStep, Interrupt, writerVars, msgVars,
            msgState, vars
    <2>. QED BY <1>0, <2>1, OrderUntouched
<1>. QED BY <1>1, <1>2, <1>3, <1>4 DEF Next, HandlerStep

LEMMA OrderInvariant == Spec => [](ClosedInv /\ OrderInv)
<1>1. Init => ClosedInv /\ OrderInv
    BY DEF Init, ClosedInv, EarlierConnectionsClosed, Conns, OrderInv, QueuedInOrder, AheadOfQueue,
        HeldIsNext
<1>. QED BY <1>1, TypeInvariant, MessageInvariant, ClosedStep, OrderStep, PTL DEF Spec

\* Only a write that succeeds adds to what was written.
LEMMA WrittenBy ==
    ASSUME [Next]_vars, written' # written
    PROVE  \E c \in Conns : WriteSucceeds(c)
<1>1. CASE HandlerStep
    BY <1>1 DEF HandlerStep, DialSucceeds, DialFails, Login, Enqueue, SendConnectionFailed,
        ClearLogoutRequired, Select, AbortWriter, msgVars
<1>2. CASE \/ \E p \in Procs : BreakStep(p)
           \/ \E c \in Conns : ReaderStep(c) \/ PeerLeaves(c)
           \/ InitiateStep \/ Interrupt \/ Report \/ UNCHANGED vars
    BY <1>2 DEF BreakStep, ReaderStep, PeerLeaves, InitiateStep, Interrupt, Report, Enqueue,
        msgVars, vars
<1>3. ASSUME NEW c \in Conns, WriterStep(c) PROVE WriteSucceeds(c)
    BY <1>3 DEF WriterStep, WriterAborted, WriterTakes, WriteFails, msgVars
<1>. QED BY <1>1, <1>2, <1>3 DEF Next

\* However many writers drain the channel together: the messages none of them
\* had to put back are written in the order they were accepted
\* (FirstWritesInOrder, messageWriter).
THEOREM FirstWritesAreInOrder == Spec => FirstWritesInOrder
<1>1. ASSUME TypeInv, MessageInv, OrderInv, [Next]_vars
      PROVE  [\A m \in written' \ written : m \notin requeued =>
                  \A n \in written \ requeued : n < m]_vars
    <2>1. CASE written' = written
        BY <2>1
    <2>2. ASSUME NEW c \in Conns, WriteSucceeds(c)
          PROVE  \A m \in written' \ written : m \notin requeued =>
                    \A n \in written \ requeued : n < m
        <3>1. written' = written \cup {held[c]} /\ sock[c] # "closed" /\ held[c] # NoMsg
            BY <1>1, <2>2 DEF WriteSucceeds, TypeInv, MessageBounds, Messages, NoMsg
        <3>. QED BY <1>1, <3>1 DEF OrderInv, HeldIsNext
    <2>. QED BY <1>1, <2>1, <2>2, WrittenBy
<1>. QED BY <1>1, TypeInvariant, MessageInvariant, OrderInvariant, PTL DEF Spec, FirstWritesInOrder
=============================================================================
