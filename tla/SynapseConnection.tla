------------------------- MODULE SynapseConnection -------------------------
(***************************************************************************)
(* The websocket between synapse and the TAS server: the goroutines that   *)
(* pkg/synapse/synapse.go runs for it, and the channels they share.        *)
(*                                                                         *)
(*   handler      openAndMaintainConnection and connectionHandler, one     *)
(*                live at a time (each ends before the next one starts)    *)
(*   reader[c]    messageReader of the c-th connection                     *)
(*   writer[c]    messageWriter of the c-th connection                     *)
(*   initiate     InitiateConnection, which waits for the context          *)
(*                                                                         *)
(* A break of the connection is told to the handler over MsgErrChan, an    *)
(* unbuffered channel that is a FIELD of the synapse: the handler replaces *)
(* it after each break, readers and writers look it up each time they use  *)
(* it, once to send on it and once more to close it.  The end of a         *)
(* connection is told to its writer by a token in ConnectionAborted, which *)
(* all writers share.                                                      *)
(*                                                                         *)
(* A message is the number of its turn to enter MsgChan.  A step no other  *)
(* goroutine can see (a local close after a receive, the look at the       *)
(* context before a dial) is joined with the step before it.  A Go panic   *)
(* ends the process: nothing is enabled after it.                          *)
(***************************************************************************)
EXTENDS Integers, Sequences, FiniteSets

CONSTANTS
    MaxConns,     \* bound: connections the server accepts
    MaxReports,   \* bound: messages of the jobs
    MsgCap,       \* capacity of MsgChan (1024 in the code)
    AbortedCap,   \* capacity of ConnectionAborted (10 in the code)
    Events        \* bound: which of the rarer events happen

ASSUME ConnectionAssumption ==
    /\ MaxConns \in Nat \ {0}
    /\ MaxReports \in Nat
    /\ MsgCap \in Nat \ {0}
    /\ AbortedCap \in Nat \ {0}
    /\ Events \subseteq {"interrupt", "rejected", "duplicate"}

Conns == 1..MaxConns
Chans == 1..(MaxConns + 1)
Messages == 1..(MaxConns + MaxReports)
NoMsg == 0
Procs == {"reader", "writer"} \X Conns

VARIABLES
    ctxDone,            \* main has cancelled the context
    LogoutRequired,
    initiate,           \* control state of InitiateConnection
    handler,            \* control state of the connection handler
    conn,               \* s.conn: number of the last connection dialled, 0 for nil
    sock,               \* sock[c]: state of the c-th connection
    MsgErrChan,         \* number of the channel the field holds
    closedChans,        \* the channels that have been closed
    sending,            \* <<p, ch>>: p is sending on MsgErrChan, which was ch
    closing,            \* goroutines between that send and the close
    panic,              \* what ended the process
    ConnectionAborted,  \* tokens in the channel
    MsgChan,            \* messages in the channel
    reader,             \* control states of messageReader
    invalid,            \* connections with a goroutine sending InvalidConnectionRequest
    writer,             \* control states of messageWriter
    held,               \* the message a writer has taken from MsgChan
    accepted,           \* history: how many messages have entered MsgChan
    written,            \* history: messages WriteMessage took
    requeued            \* history: messages a writer put back

mainVars == <<ctxDone, LogoutRequired, initiate>>
connVars == <<conn, sock>>
breakVars == <<closedChans, sending, closing, panic>>
readerVars == <<reader, invalid>>
writerVars == <<writer, held>>
msgVars == <<MsgChan, accepted, written, requeued>>
vars == <<ctxDone, LogoutRequired, initiate, handler, conn, sock, MsgErrChan,
          closedChans, sending, closing, panic, ConnectionAborted, MsgChan,
          reader, invalid, writer, held, accepted, written, requeued>>

TypeOK ==
    /\ ctxDone \in BOOLEAN
    /\ LogoutRequired \in BOOLEAN
    /\ initiate \in {"wait", "logout", "exited"}
    /\ handler \in {"dial", "login", "serve", "rejected", "clearLogout", "broken",
                    "finished", "gaveUp", "gaveUpClear", "done"}
    /\ conn \in 0..MaxConns
    /\ sock \in [Conns -> {"none", "open", "gone", "normal", "closed"}]
    /\ MsgErrChan \in Chans
    /\ closedChans \subseteq Chans
    /\ sending \subseteq Procs \X Chans
    /\ closing \subseteq Procs
    /\ panic \in {"no", "sendOnClosed", "closeOfClosed", "nilConn", "concurrentWrite"}
    /\ ConnectionAborted \in 0..AbortedCap
    /\ MsgChan \in Seq(Messages)
    /\ reader \in [Conns -> {"off", "reading", "warned", "sleep", "normal", "done"}]
    /\ invalid \subseteq Conns
    /\ writer \in [Conns -> {"off", "select", "write", "done"}]
    /\ held \in [Conns -> Messages \cup {NoMsg}]
    /\ accepted \in 0..(MaxConns + MaxReports)
    /\ written \subseteq Messages
    /\ requeued \subseteq Messages

Init ==
    /\ ctxDone = FALSE /\ LogoutRequired = TRUE /\ initiate = "wait"
    /\ handler = "dial" /\ conn = 0 /\ sock = [c \in Conns |-> "none"]
    /\ MsgErrChan = 1 /\ closedChans = {}
    /\ sending = {} /\ closing = {} /\ panic = "no"
    /\ ConnectionAborted = 0
    /\ reader = [c \in Conns |-> "off"] /\ invalid = {}
    /\ writer = [c \in Conns |-> "off"] /\ held = [c \in Conns |-> NoMsg]
    /\ MsgChan = <<>> /\ accepted = 0 /\ written = {} /\ requeued = {}

\* The process lives until a goroutine panics or InitiateConnection, which
\* main waits for, returns.
Alive == panic = "no" /\ initiate # "exited"

\* Connections that have put their login message on MsgChan.
Logins == IF handler = "login" THEN conn - 1 ELSE conn

\* Mutant of Put: the message goes to the front.
PutFirst(n) == Len(MsgChan) < MsgCap /\ MsgChan' = <<n>> \o MsgChan

\* Mutant of Put: the message is dropped.
PutNothing(n) == Len(MsgChan) < MsgCap /\ UNCHANGED MsgChan

\* A put on MsgChan blocks while the channel is full.
Put(n) == Len(MsgChan) < MsgCap /\ MsgChan' = Append(MsgChan, n)

Enqueue ==
    /\ accepted' = accepted + 1
    /\ Put(accepted + 1)
    /\ UNCHANGED <<written, requeued>>

-----------------------------------------------------------------------------
(* openAndMaintainConnection.                                              *)

\* An attempt of backoff.Retry starts by looking at the context.
NextAttempt == IF ctxDone THEN "done" ELSE "dial"

DialSucceeds ==
    /\ handler = "dial" /\ conn < MaxConns
    /\ conn' = conn + 1
    /\ sock' = [sock EXCEPT ![conn + 1] = "open"]
    /\ handler' = "login"
    /\ UNCHANGED <<MsgErrChan, ConnectionAborted, mainVars, breakVars, msgVars,
                   readerVars, writerVars>>

\* The backoff tries again after a failure, until its ten minutes are over.
DialFails ==
    /\ handler = "dial"
    /\ handler' \in {NextAttempt, "gaveUp"}
    /\ UNCHANGED <<MsgErrChan, ConnectionAborted, mainVars, connVars, breakVars,
                   msgVars, readerVars, writerVars>>

\* login waits for room in MsgChan BEFORE connectionHandler starts the writer.
Login ==
    /\ handler = "login"
    /\ Enqueue
    /\ handler' = "serve"
    /\ reader' = [reader EXCEPT ![conn] = "reading"]
    /\ writer' = [writer EXCEPT ![conn] = "select"]
    /\ UNCHANGED <<MsgErrChan, ConnectionAborted, invalid, held, mainVars,
                   connVars, breakVars>>

\* connectionFailed is unbuffered: main takes it only while it has not begun
\* to shut down, and cancels the context.
SendConnectionFailed ==
    /\ handler \in {"rejected", "gaveUp"}
    /\ ~ctxDone
    /\ ctxDone' = TRUE
    /\ handler' = IF handler = "rejected" THEN "clearLogout" ELSE "gaveUpClear"
    /\ UNCHANGED <<LogoutRequired, initiate, MsgErrChan, ConnectionAborted,
                   connVars, breakVars, msgVars, readerVars, writerVars>>

ClearLogoutRequired ==
    /\ handler \in {"clearLogout", "gaveUpClear"}
    /\ LogoutRequired' = FALSE
    /\ IF handler = "clearLogout"
       THEN handler' = "finished" /\ sock' = [sock EXCEPT ![conn] = "closed"]
       ELSE handler' = "done" /\ UNCHANGED sock
    /\ UNCHANGED <<ctxDone, initiate, conn, MsgErrChan, ConnectionAborted,
                   breakVars, msgVars, readerVars, writerVars>>

-----------------------------------------------------------------------------
(* connectionHandler.                                                      *)

\* Mutant of LeaveSelect: the connection is left open.
LeaveSelectOpen(next) == handler = "serve" /\ handler' = next /\ UNCHANGED connVars

\* It leaves its select and closes the connection.
LeaveSelect(next) ==
    /\ handler = "serve"
    /\ handler' = next
    /\ sock' = [sock EXCEPT ![conn] = "closed"]
    /\ UNCHANGED conn

\* The connection is left open, for logout.
SelectContextDone ==
    /\ handler = "serve" /\ ctxDone
    /\ handler' = "finished"
    /\ UNCHANGED <<connVars, readerVars>>

\* A receive on a closed channel returns at once.
SelectClosedChan ==
    /\ MsgErrChan \in closedChans
    /\ LeaveSelect("broken")
    /\ UNCHANGED readerVars

SelectNormalCloser ==
    /\ LeaveSelect("finished")
    /\ reader[conn] = "normal"
    /\ reader' = [reader EXCEPT ![conn] = "done"]
    /\ UNCHANGED invalid

\* InvalidConnectionRequest is a field: the goroutine that sends may have been
\* started for an earlier connection.
SelectInvalid ==
    /\ handler = "serve"
    /\ handler' = "rejected"
    /\ \E c \in invalid : invalid' = invalid \ {c}
    /\ UNCHANGED <<reader, connVars>>

Select ==
    /\ SelectContextDone \/ SelectClosedChan \/ SelectNormalCloser \/ SelectInvalid
    /\ UNCHANGED <<mainVars, MsgErrChan, breakVars, ConnectionAborted, msgVars, writerVars>>

\* Mutants of PutToken: the channel has no limit; no token is put.
PutTokenUnbounded == ConnectionAborted' = ConnectionAborted + 1
PutNoToken == UNCHANGED ConnectionAborted

\* The deferred send blocks when ConnectionAborted is full.
PutToken ==
    /\ ConnectionAborted < AbortedCap
    /\ ConnectionAborted' = ConnectionAborted + 1

\* After a break the handler replaces MsgErrChan and starts over in a new
\* goroutine.
AbortWriter ==
    /\ handler \in {"broken", "finished"}
    /\ PutToken
    /\ IF handler = "broken"
       THEN MsgErrChan' = MsgErrChan + 1 /\ handler' = NextAttempt
       ELSE handler' = "done" /\ UNCHANGED MsgErrChan
    /\ UNCHANGED <<mainVars, connVars, breakVars, msgVars, readerVars, writerVars>>

HandlerStep ==
    \/ DialSucceeds \/ DialFails \/ Login \/ SendConnectionFailed
    \/ ClearLogoutRequired \/ Select \/ AbortWriter

-----------------------------------------------------------------------------
(* How a reader or a writer ends on an error:                              *)
(*     s.MsgErrChan <- struct{}{}; close(s.MsgErrChan)                     *)

\* Mutant of BeginBreak: the goroutine ends without a word.
EndSilently(p) == UNCHANGED sending

BeginBreak(p) == sending' = sending \cup {<<p, MsgErrChan>>}

\* The send panics if its channel is closed, and otherwise waits for a handler
\* that selects on that channel.
SendBreak(p, ch) ==
    /\ <<p, ch>> \in sending
    /\ sending' = sending \ {<<p, ch>>}
    /\ IF ch \in closedChans
       THEN panic' = "sendOnClosed" /\ UNCHANGED <<handler, connVars, closing>>
       ELSE /\ ch = MsgErrChan
            /\ LeaveSelect("broken")
            /\ closing' = closing \cup {p}
            /\ UNCHANGED panic
    /\ UNCHANGED closedChans

\* The close looks the field up again: it may hold the next channel by now.
CloseMsgErrChan(p) ==
    /\ p \in closing
    /\ closing' = closing \ {p}
    /\ IF MsgErrChan \in closedChans
       THEN panic' = "closeOfClosed" /\ UNCHANGED closedChans
       ELSE closedChans' = closedChans \cup {MsgErrChan} /\ UNCHANGED panic
    /\ UNCHANGED <<handler, connVars, sending>>

BreakStep(p) ==
    /\ CloseMsgErrChan(p) \/ \E ch \in Chans : SendBreak(p, ch)
    /\ UNCHANGED <<mainVars, MsgErrChan, ConnectionAborted, msgVars, readerVars,
                   writerVars>>

-----------------------------------------------------------------------------
(* messageReader and the goroutines processMessage starts.                 *)

Reading(c) == reader[c] \in {"reading", "warned"}

\* The peer or the handler closed the connection, or no ping came in time.
ReadFails(c) ==
    /\ Reading(c) /\ sock[c] # "normal"
    /\ reader' = [reader EXCEPT ![c] = "done"]
    /\ BeginBreak(<<"reader", c>>)
    /\ UNCHANGED <<invalid, panic>>

ReadNormalClosure(c) ==
    /\ Reading(c) /\ sock[c] = "normal"
    /\ reader' = [reader EXCEPT ![c] = "normal"]
    /\ UNCHANGED <<invalid, sending, panic>>

ReadAuthenticationFailed(c) ==
    /\ "rejected" \in Events
    /\ Reading(c) /\ sock[c] = "open"
    /\ invalid' = invalid \cup {c}
    /\ UNCHANGED <<reader, sending, panic>>

\* A goroutine begins to tell the reader so.  (Bound: once a connection.)
ReadDuplicateConnection(c) ==
    /\ "duplicate" \in Events
    /\ reader[c] = "reading" /\ sock[c] = "open"
    /\ reader' = [reader EXCEPT ![c] = "warned"]
    /\ UNCHANGED <<invalid, sending, panic>>

\* The reader polls for that after each message, this one or a later one.
SleepAsDuplicate(c) ==
    /\ reader[c] = "warned" /\ sock[c] = "open"
    /\ reader' = [reader EXCEPT ![c] = "sleep"]
    /\ UNCHANGED <<invalid, sending, panic>>

WakeUp(c) ==
    /\ reader[c] = "sleep"
    /\ reader' = [reader EXCEPT ![c] = "done"]
    /\ BeginBreak(<<"reader", c>>)
    /\ UNCHANGED <<invalid, panic>>

\* The ping handler writes from the reader's goroutine, and the websocket
\* takes one writer at a time: it may panic if messageWriter is writing.
PongDuringWrite(c) ==
    /\ Reading(c) /\ sock[c] = "open"
    /\ writer[c] = "write"
    /\ panic' = "concurrentWrite"
    /\ UNCHANGED <<readerVars, sending>>

ReaderStep(c) ==
    /\ \/ ReadFails(c) \/ ReadNormalClosure(c) \/ ReadAuthenticationFailed(c)
       \/ ReadDuplicateConnection(c) \/ SleepAsDuplicate(c) \/ WakeUp(c)
       \/ PongDuringWrite(c)
    /\ UNCHANGED <<mainVars, handler, connVars, MsgErrChan, closedChans, closing,
                   ConnectionAborted, msgVars, writerVars>>

-----------------------------------------------------------------------------
(* messageWriter.                                                          *)

\* Any writer may take any token.
WriterAborted(c) ==
    /\ writer[c] = "select" /\ ConnectionAborted > 0
    /\ ConnectionAborted' = ConnectionAborted - 1
    /\ writer' = [writer EXCEPT ![c] = "done"]
    /\ UNCHANGED <<held, msgVars, sending>>

WriterTakes(c) ==
    /\ writer[c] = "select" /\ MsgChan # <<>>
    /\ held' = [held EXCEPT ![c] = Head(MsgChan)]
    /\ MsgChan' = Tail(MsgChan)
    /\ writer' = [writer EXCEPT ![c] = "write"]
    /\ UNCHANGED <<ConnectionAborted, accepted, written, requeued, sending>>

\* A connection the peer has left may still take a message.
WriteSucceeds(c) ==
    /\ writer[c] = "write" /\ sock[c] # "closed"
    /\ written' = written \cup {held[c]}
    /\ held' = [held EXCEPT ![c] = NoMsg]
    /\ writer' = [writer EXCEPT ![c] = "select"]
    /\ UNCHANGED <<ConnectionAborted, MsgChan, accepted, requeued, sending>>

\* Mutant of WriteFails: the break is reported before the message goes back.
WriteFailsAndReports(c) ==
    /\ writer[c] = "write" /\ sock[c] # "open" /\ handler = "serve"
    /\ Put(held[c])
    /\ requeued' = requeued \cup {held[c]}
    /\ held' = [held EXCEPT ![c] = NoMsg]
    /\ writer' = [writer EXCEPT ![c] = "done"]
    /\ BeginBreak(<<"writer", c>>)
    /\ UNCHANGED <<ConnectionAborted, accepted, written>>

\* The message goes back, to the tail, which waits while MsgChan is full.
WriteFails(c) ==
    /\ writer[c] = "write" /\ sock[c] # "open"
    /\ Put(held[c])
    /\ requeued' = requeued \cup {held[c]}
    /\ held' = [held EXCEPT ![c] = NoMsg]
    /\ writer' = [writer EXCEPT ![c] = "done"]
    /\ BeginBreak(<<"writer", c>>)
    /\ UNCHANGED <<ConnectionAborted, accepted, written>>

WriterStep(c) ==
    /\ WriterAborted(c) \/ WriterTakes(c) \/ WriteSucceeds(c) \/ WriteFails(c)
    /\ UNCHANGED <<mainVars, handler, connVars, MsgErrChan, closedChans, closing,
                   panic, readerVars>>

-----------------------------------------------------------------------------
(* InitiateConnection, and the rest of the program around it.              *)

\* It reads LogoutRequired; without logout, only KillRunningDocker is left.
ContextDone ==
    /\ initiate = "wait" /\ ctxDone
    /\ initiate' = IF LogoutRequired THEN "logout" ELSE "exited"
    /\ UNCHANGED panic

\* logout writes on s.conn, whatever that is by now, beside messageWriter.
Logout ==
    /\ initiate = "logout" /\ conn # 0
    /\ initiate' = "exited"
    /\ UNCHANGED panic

LogoutPanics ==
    /\ initiate = "logout"
    /\ \/ conn = 0 /\ panic' = "nilConn"
       \/ conn # 0 /\ writer[conn] = "write" /\ panic' = "concurrentWrite"
    /\ UNCHANGED initiate

InitiateStep ==
    /\ ContextDone \/ Logout \/ LogoutPanics
    /\ UNCHANGED <<ctxDone, LogoutRequired, handler, connVars, MsgErrChan,
                   closedChans, sending, closing, ConnectionAborted, msgVars,
                   readerVars, writerVars>>

\* main: an operating system interrupt cancels the context.
Interrupt ==
    /\ "interrupt" \in Events
    /\ ~ctxDone
    /\ ctxDone' = TRUE
    /\ UNCHANGED <<LogoutRequired, initiate, handler, connVars, MsgErrChan,
                   breakVars, ConnectionAborted, msgVars, readerVars, writerVars>>

\* A job's goroutine reports: writeMessageToBuffer.
Report ==
    /\ accepted - Logins < MaxReports
    /\ Enqueue
    /\ UNCHANGED <<mainVars, handler, connVars, MsgErrChan, breakVars,
                   ConnectionAborted, readerVars, writerVars>>

\* The server, or the network, ends the connection.
PeerLeaves(c) ==
    /\ sock[c] = "open"
    /\ \E s \in {"gone", "normal"} : sock' = [sock EXCEPT ![c] = s]
    /\ UNCHANGED <<mainVars, handler, conn, MsgErrChan, breakVars,
                   ConnectionAborted, msgVars, readerVars, writerVars>>

Next ==
    /\ Alive
    /\ \/ HandlerStep
       \/ \E p \in Procs : BreakStep(p)
       \/ \E c \in Conns : ReaderStep(c) \/ WriterStep(c) \/ PeerLeaves(c)
       \/ InitiateStep
       \/ Interrupt
       \/ Report

Spec == Init /\ [][Next]_vars

\* Go runs every goroutine that can move.  The server owes nothing, and a
\* select may pick any ready case: only a dead connection makes a reader end.
Fairness ==
    /\ WF_vars(Alive /\ (Login \/ Select \/ AbortWriter))
    /\ \A p \in Procs : WF_vars(Alive /\ BreakStep(p))
    /\ \A c \in Conns :
        /\ WF_vars(Alive /\ (sock[c] # "open" \/ reader[c] = "sleep") /\ ReaderStep(c))
        /\ WF_vars(Alive /\ WriterStep(c))

FairSpec == Spec /\ Fairness

-----------------------------------------------------------------------------
(* What the connection promises.                                           *)

\* A connection is dialled only after every earlier one has been closed, also
\* when two breaks are reported for one connection or a break is reported for
\* a connection that is gone: the server never sees two of this synapse.
EarlierConnectionsClosed == \A c \in Conns : c < conn => sock[c] = "closed"

\* Between the start of a connection's goroutines and the deferred send.
Attached == handler \in {"serve", "rejected", "clearLogout", "broken", "finished"}
Running(c) == writer[c] \in {"select", "write"}

\* The writers share ConnectionAborted, so a token may stop the wrong one; but
\* whenever k writers outlive their connections at least k tokens are waiting,
\* so the old writers cannot pile up.  (Which writer a token stops is open: it
\* may be the new one, and then nobody writes to the open connection.)
StaleWritersCanStop ==
    Cardinality({c \in Conns : Running(c)}) <= ConnectionAborted + (IF Attached THEN 1 ELSE 0)

\* Every message put on MsgChan is in the channel, or in the hands of one
\* writer, or written: breaks, requeues and replaced connections neither lose
\* it nor write it twice.
MessagesConserved ==
    \A n \in 1..accepted :
        LET queued == {i \in DOMAIN MsgChan : MsgChan[i] = n}
            taken == {c \in Conns : held[c] = n}
        IN  Cardinality(queued) + Cardinality(taken) + (IF n \in written THEN 1 ELSE 0) = 1

\* Messages whose first write succeeds are written in the order they entered
\* MsgChan, although an old and a new writer may drain the channel together.
\* (A requeued message may be overtaken: its put is at the tail.)
FirstWritesInOrder ==
    [][\A m \in written' \ written : m \notin requeued =>
            \A n \in written \ requeued : n < m]_vars

\* A connection the peer has left is noticed: the handler gets out of its
\* select, even when the reader of an earlier connection reports late.
BreakIsNoticed ==
    (handler = "serve" /\ sock[conn] \in {"gone", "normal"}) ~> (handler # "serve" \/ ~Alive)

\* A message a writer has taken is written or put back, whatever becomes of the
\* connection meanwhile.  (Where MsgChan has room: a full channel blocks the
\* writer, and then the login of the next connection too.)
TakenMessageComesBack ==
    \A c \in Conns : held[c] # NoMsg ~> (held[c] = NoMsg \/ ~Alive)

\* synapse.go:82, "tries to create and mantain connection": a break leads to a
\* new attempt and not to the end of the process.  The code breaks this: the
\* reader and the writer may both report a break on one channel.
BreakIsSurvived == panic \notin {"sendOnClosed", "closeOfClosed"}

=============================================================================
