----------------------------- MODULE CodexClient -----------------------------
(***************************************************************************)
(* The Codex adapter (internal/agent/codex) between the goroutines that    *)
(* call it and the process it talks to.  The state of the turn and the     *)
(* state of the notice are under two mutexes; one step is one critical     *)
(* section of either, or one operation on a pipe or a channel.             *)
(*                                                                         *)
(*   exec     the goroutine of Send, SendNotice, Interrupt and Stop        *)
(*   keeper   the goroutine of KeepAlive                                   *)
(*   rd       readCodexOutWorker, which alone reads the process's stdout   *)
(*   buf      what messageBufferWorker holds for Read                      *)
(*   asks     what approvalBufferWorker holds for approvalLoopWorker       *)
(*                                                                         *)
(* Turns are numbered in the order their requests are written.  A          *)
(* notification carries the number of its turn, which the adapter does not *)
(* use: the real ones do not tell which kind of turn they belong to.       *)
(***************************************************************************)
EXTENDS Naturals, Sequences, FiniteSets, Functions

CONSTANTS
    MaxTurns,        \* bound: turns requested
    MaxItems,        \* bound: notifications of content and approval requests
    StopBy,          \* bound: the turns requested when Stop comes
    MaxStdout,       \* bound: notifications not yet read by the worker
    MaxBuffer        \* bound: messages not yet returned by Read

\* The end of a turn can be three messages.
ASSUME CodexAssumption ==
    /\ {MaxTurns, MaxItems, StopBy} \subseteq Nat
    /\ MaxStdout \in Nat \ {0}
    /\ MaxBuffer \in Nat \ (0 .. 2)

Turns   == 1 .. MaxTurns
None    == 0
Callers == {"exec", "keeper"}

VARIABLES
    turn,        \* turn.state, guarded by turn.mu
    notice,      \* notice.state, kind and toolViolationReported, under notice.mu
    call,        \* the call each caller is in
    rd,          \* the worker that reads stdout
    buf, bufw,   \* messages on their way to Read, and the worker that holds them
    reading,     \* readLoop of the session still calls Read
    asks, asking, apl,  \* approvals buffered and being decided; the loop's state
    stop,        \* how far Stop is; from "cancelled" on the context is done
    closedMessages,
    \* the process
    alive, phase, stdout, answered, cut, items,
    \* history
    last, kindOf,    \* turns requested, and the call that requested each
    told,            \* turn -> the closing message emitted at its end
    relayed,         \* the relay stream of notices is open
    torn             \* a notice was marked while the end of a turn was handled

flight  == <<turn, notice>>
channel == <<buf, bufw, reading, closedMessages>>
approve == <<asks, asking, apl>>
server  == <<alive, phase, stdout, items>>
answers == <<answered, cut>>
ghosts  == <<last, kindOf, told, relayed, torn>>
vars    == <<flight, call, rd, channel, approve, stop, server, answers, ghosts>>

-----------------------------------------------------------------------------
(* State *)

Kinds        == {"turn", "notice", "keepalive"}
NoticeStates == {"idle", "pending", "active", "buffering", "relaying"}
Content      == {"text", "brace", "reason", "tool"}
Endings      == {"completed", "failed"}
Notifications == [what : Content \cup Endings \cup {"started", "ask"}, n : Turns]
Messages == [what : Kinds \cup {"output", "item", "relay", "relayEnd"}, n : Turns]
                \cup [what : {"error"}, n : Turns \cup {None}]

CallPCs == {"idle", "mark", "write", "undoTurn", "undoNotice"}
NoCall  == [pc |-> "idle", op |-> "turn", n |-> None]
NoNote  == [what |-> "started", n |-> None]
Active  == {"asked", "running", "approval"}

Cancelled == stop # "no"
InFlight  == {n \in Turns : phase[n] \in Active}

Init ==
    /\ turn = [kind |-> "idle", id |-> None]
    /\ notice = [state |-> "idle", kind |-> "none", reported |-> FALSE]
    /\ call = [c \in Callers |-> NoCall]
    /\ rd = [pc |-> "read", note |-> NoNote, kind |-> "none"]
    /\ buf = <<>>
    /\ bufw = "run"
    /\ reading = TRUE
    /\ closedMessages = FALSE
    /\ asks = <<>>
    /\ asking = None
    /\ apl = "run"
    /\ stop = "no"
    /\ alive = TRUE
    /\ phase = [n \in Turns |-> "none"]
    /\ stdout = <<>>
    /\ items = 0
    /\ answered = {}
    /\ cut = {}
    /\ last = 0
    /\ kindOf = [n \in Turns |-> "none"]
    /\ told = [n \in Turns |-> "none"]
    /\ relayed = FALSE
    /\ torn = FALSE

-----------------------------------------------------------------------------
(* Send, SendNotice and KeepAlive *)

CallGo(c, from, to) ==
    /\ call[c].pc = from
    /\ call' = [call EXCEPT ![c].pc = to]

HandlesEnding == rd.pc \in {"capture", "act"} /\ rd.note.what \in Endings

\* Faulty variant: a turn in flight is not looked for.
BeginAnyway(c, op) ==
    /\ call[c].pc = "idle"
    /\ last < MaxTurns
    /\ turn' = [kind |-> "unknown", id |-> None]
    /\ call' = [call EXCEPT ![c] = [pc |-> IF op = "turn" THEN "write" ELSE "mark",
                                    op |-> op, n |-> None]]
    /\ UNCHANGED <<notice, rd, channel, approve, stop, server, answers, ghosts>>

\* The first critical section: ErrTurnInProgress changes nothing, otherwise
\* the turn is claimed before its request is written.  The session layers a
\* notice on a turn that is ending; it pings only a participant that was told of
\* the end, and sends nothing to one it pings.
Begin(c, op) ==
    /\ call[c].pc = "idle"
    /\ last < MaxTurns
    /\ turn.kind = "idle"
    /\ HandlesEnding => c = "exec" /\ kindOf[rd.note.n] # "keepalive"
    /\ turn' = [kind |-> "unknown", id |-> None]
    /\ call' = [call EXCEPT ![c] = [pc |-> IF op = "turn" THEN "write" ELSE "mark",
                                    op |-> op, n |-> None]]
    /\ UNCHANGED <<notice, rd, channel, approve, stop, server, answers, ghosts>>

\* startNoticeTurn, under notice.mu.
Mark(c) ==
    /\ CallGo(c, "mark", "write")
    /\ notice' = [state |-> "pending", kind |-> call[c].op, reported |-> FALSE]
    /\ torn' = (torn \/ HandlesEnding)
    /\ UNCHANGED <<turn, rd, channel, approve, stop, server, answers, last, kindOf, told, relayed>>

StdinOpen == alive /\ stop \in {"no", "cancelled"}

\* rpcWrite of turn/start.
Write(c) ==
    /\ CallGo(c, "write", "idle")
    /\ StdinOpen
    /\ last < MaxTurns
    /\ last' = last + 1
    /\ kindOf' = [kindOf EXCEPT ![last + 1] = call[c].op]
    /\ phase' = [phase EXCEPT ![last + 1] = "asked"]
    /\ UNCHANGED <<flight, rd, channel, approve, stop, alive, stdout, items,
                   answers, told, relayed, torn>>

WriteFails(c) ==
    /\ ~ StdinOpen
    /\ CallGo(c, "write", "undoTurn")
    /\ UNCHANGED <<flight, rd, channel, approve, stop, server, answers, ghosts>>

UndoTurn(c) ==
    /\ CallGo(c, "undoTurn", IF call[c].op = "turn" THEN "idle" ELSE "undoNotice")
    /\ turn' = [kind |-> "idle", id |-> None]
    /\ UNCHANGED <<notice, rd, channel, approve, stop, server, answers, ghosts>>

UndoNotice(c) ==
    /\ CallGo(c, "undoNotice", "idle")
    /\ notice' = [state |-> "idle", kind |-> "none", reported |-> FALSE]
    /\ UNCHANGED <<turn, rd, channel, approve, stop, server, answers, ghosts>>

\* turn/interrupt and the answer to an approval mean something to the process
\* only while the turn runs.
Cut(ns)    == cut' = cut \cup {n \in ns : StdinOpen /\ phase[n] \in Active}
Answer(ns) == answered' = answered \cup {n \in ns : StdinOpen /\ phase[n] \in Active}

\* Interrupt names the turn whose id is known, and leaves alone one that is being
\* established.  It writes after the lock is released; a turn that is over by
\* then ignores it, so the two are one step.
Interrupt ==
    /\ call["exec"].pc = "idle"
    /\ turn.kind = "known"
    /\ Cut({turn.id})
    /\ UNCHANGED <<flight, call, rd, channel, approve, stop, server, answered, ghosts>>

CallStep(c) ==
    \/ Mark(c) \/ Write(c) \/ WriteFails(c) \/ UndoTurn(c) \/ UndoNotice(c)

UserCall ==
    \/ ~ Cancelled /\ \E op \in {"turn", "notice"} : Begin("exec", op)
    \/ Begin("keeper", "keepalive")
    \/ Interrupt

-----------------------------------------------------------------------------
(* The process *)

Tell(what, n) ==
    /\ Len(stdout) < MaxStdout
    /\ stdout' = Append(stdout, [what |-> what, n |-> n])

Reach(n, from, to) ==
    /\ alive
    /\ phase[n] = from
    /\ phase' = [phase EXCEPT ![n] = to]

ServerStart(n) ==
    /\ Reach(n, "asked", "running")
    /\ Tell("started", n)
    /\ UNCHANGED <<flight, call, rd, channel, approve, stop, alive, items,
                   answers, ghosts>>

ServerContent(n) ==
    /\ alive
    /\ phase[n] = "running"
    /\ items < MaxItems
    /\ items' = items + 1
    /\ \E what \in Content : Tell(what, n)
    /\ UNCHANGED <<flight, call, rd, channel, approve, stop, alive, phase,
                   answers, ghosts>>

\* At most one approval of a turn.
ServerAsk(n) ==
    /\ Reach(n, "running", "approval")
    /\ items < MaxItems
    /\ items' = items + 1
    /\ Tell("ask", n)
    /\ UNCHANGED <<flight, call, rd, channel, approve, stop, alive, answers, ghosts>>

ServerResume(n) ==
    /\ n \in answered
    /\ Reach(n, "approval", "running")
    /\ UNCHANGED <<flight, call, rd, channel, approve, stop, alive, stdout, items, answers, ghosts>>

\* The turn ends by itself or, also while an approval is awaited, because it
\* was interrupted.
ServerEnd(n) ==
    /\ \/ Reach(n, "running", "done")
       \/ n \in cut /\ Reach(n, "approval", "done")
    /\ \E what \in Endings : Tell(what, n)
    /\ answered' = answered \ {n}
    /\ cut' = cut \ {n}
    /\ UNCHANGED <<flight, call, rd, channel, approve, stop, alive, items, ghosts>>

\* The process exits: by itself, because stdin was closed, or killed.
ServerExit ==
    /\ alive
    /\ alive' = FALSE
    /\ phase' = [n \in Turns |-> IF phase[n] \in Active THEN "done" ELSE phase[n]]
    /\ answered' = {}
    /\ cut' = {}
    /\ UNCHANGED <<flight, call, rd, channel, approve, stop, stdout, items, ghosts>>

-----------------------------------------------------------------------------
(* readCodexOutWorker *)

ToRead == [pc |-> "read", note |-> NoNote, kind |-> "none"]
ToDead == [pc |-> "dead", note |-> NoNote, kind |-> "none"]

\* What the messages sent so far change: the end of a turn is told, the relay
\* stream is opened or closed.
Sent(msgs) ==
    /\ buf' = buf \o msgs
    /\ told' = [n \in Turns |->
                   LET ends == {m \in Range(msgs) : m.n = n /\ m.what \in Kinds} IN
                   IF ends = {} THEN told[n] ELSE (CHOOSE m \in ends : TRUE).what]
    /\ relayed' = LET whats == {m.what : m \in Range(msgs)} IN
                  "relayEnd" \notin whats /\ (relayed \/ "relay" \in whats)

\* Faulty variant: sent without a look at the context.
EmitBlocking(msgs, next) ==
    /\ msgs # <<>> => bufw = "run"
    /\ Len(buf) + Len(msgs) <= MaxBuffer
    /\ Sent(msgs)
    /\ rd' = next

\* sendBufMessage for each of the messages: once the context is done it may
\* give up at any of them, and then the worker exits.
Emit(msgs, next) ==
    \E k \in 0 .. Len(msgs) :
        /\ k > 0 => bufw = "run"
        /\ k < Len(msgs) => Cancelled
        /\ Len(buf) + k <= MaxBuffer
        /\ Sent(SubSeq(msgs, 1, k))
        /\ rd' = IF k < Len(msgs) THEN ToDead ELSE next

Msg(what, n) == <<[what |-> what, n |-> n]>>

\* updateTurnState
TurnAfter(note) ==
    CASE note.what = "started"  -> [kind |-> "known", id |-> note.n]
      [] note.what \in Endings  -> [kind |-> "idle", id |-> None]
      [] OTHER                  -> turn

\* Every notification but an approval request.
ReaderTake ==
    /\ rd.pc = "read"
    /\ stdout # <<>>
    /\ Head(stdout).what # "ask"
    /\ stdout' = Tail(stdout)
    /\ turn' = TurnAfter(Head(stdout))
    /\ rd' = [pc |-> "capture", note |-> Head(stdout), kind |-> "none"]
    /\ UNCHANGED <<notice, call, channel, approve, stop, alive, phase, items,
                   answers, ghosts>>

\* markToolViolationReported, and Interrupt for the first violation.
Report ==
    /\ notice' = [notice EXCEPT !.reported = TRUE]
    /\ Cut(IF notice.reported \/ turn.kind # "known" THEN {} ELSE {turn.id})

\* Faulty variant: the kind of the turn is not looked at.
ReaderAskAlways ==
    LET n == Head(stdout).n IN
    /\ rd.pc = "read"
    /\ stdout # <<>>
    /\ Head(stdout).what = "ask"
    /\ stdout' = Tail(stdout)
    /\ asks' = Append(asks, n)
    /\ UNCHANGED <<flight, answers, call, rd, channel, asking, apl, stop, alive, phase,
                   items, ghosts>>

\* An approval request: declined when it comes in a keepalive turn, or when it
\* cannot be parsed; else on its way to the listener.
ReaderAsk ==
    LET n == Head(stdout).n IN
    /\ rd.pc = "read"
    /\ stdout # <<>>
    /\ Head(stdout).what = "ask"
    /\ stdout' = Tail(stdout)
    /\ \/ /\ notice.kind = "keepalive"
          /\ Report
          /\ Answer({n})
          /\ UNCHANGED asks
       \/ /\ notice.kind # "keepalive"
          /\ Answer({n})
          /\ UNCHANGED <<notice, cut, asks>>
       \/ /\ notice.kind # "keepalive"
          /\ asks' = Append(asks, n)
          /\ UNCHANGED <<notice, answered, cut>>
    /\ UNCHANGED <<turn, call, rd, channel, asking, apl, stop, alive, phase, items, ghosts>>

\* messageFromEnvelope, for what no notice handling took.
Deliver(note) ==
    CASE note.what = "started"              -> Emit(<<>>, ToRead)
      [] note.what \in {"text", "brace"}    -> Emit(Msg("output", note.n), ToRead)
      [] note.what \in {"reason", "tool"}   -> Emit(Msg("item", note.n), ToRead)
      [] note.what = "completed"            -> Emit(Msg("turn", note.n), ToRead)
      [] note.what = "failed"               -> Emit(Msg("error", note.n), ToDead)

\* interceptNotice: state and kind are read under the lock, and acted on
\* after it.
ReaderCapture ==
    /\ rd.pc = "capture"
    /\ IF notice.state = "idle"
       THEN Deliver(rd.note)
       ELSE /\ rd' = [rd EXCEPT !.pc = "act", !.kind = notice.kind]
            /\ UNCHANGED <<buf, told, relayed>>
    /\ UNCHANGED <<flight, call, bufw, reading, closedMessages, approve, stop, server,
                   answers, last, kindOf, torn>>

\* Faulty variant: the notice is not reset at the end of its turn.
NoticeOverKept ==
    notice' = [notice EXCEPT !.state = "active"]

NoticeOver ==
    notice' = [notice EXCEPT !.state = "idle", !.kind = "none"]

\* interceptKeepalive: nothing of the turn is shown, and its end is the
\* KeepAlive message.
KeepaliveAct(note) ==
    \/ /\ note.what \in Endings
       /\ notice' = [state |-> "idle", kind |-> "none", reported |-> FALSE]
       /\ Emit(Msg("keepalive", note.n), ToRead)
       /\ UNCHANGED cut
    \/ /\ note.what = "tool"
       /\ Report
       /\ Emit(<<>>, ToRead)
    \/ /\ note.what \notin Endings \cup {"tool"}
       /\ Emit(<<>>, ToRead)
       /\ UNCHANGED <<notice, cut>>

\* handleNoticeDelta: the first delta decides between buffering and relaying.
NoticeDelta(note) ==
    \/ /\ notice.state = "active"
       /\ notice' = [notice EXCEPT !.state =
                        IF note.what = "brace" THEN "buffering" ELSE "relaying"]
       /\ Emit(IF note.what = "brace" THEN <<>> ELSE Msg("relay", note.n), ToRead)
    \/ /\ notice.state = "buffering"
       /\ Emit(<<>>, ToRead)
       /\ UNCHANGED notice
    \/ /\ notice.state = "relaying"
       /\ Emit(Msg("relay", note.n), ToRead)
       /\ UNCHANGED notice
    \/ /\ notice.state \in {"idle", "pending"}
       /\ Deliver(note)
       /\ UNCHANGED notice

RelayAndFlush(n) == Msg("relayEnd", n) \o Msg("notice", n)

\* handleNoticeCompleted: whether the buffered answer is an acknowledgement
\* is up to the model behind the process.
NoticeCompleted(note) ==
    /\ NoticeOver
    /\ \/ /\ notice.state \in {"active", "buffering"}
          /\ Emit(Msg("notice", note.n), ToRead)
       \/ /\ notice.state = "buffering"
          /\ Emit(Msg("relay", note.n) \o RelayAndFlush(note.n), ToRead)
       \/ /\ notice.state = "relaying"
          /\ Emit(RelayAndFlush(note.n), ToRead)
       \/ /\ notice.state \in {"idle", "pending"}
          /\ Deliver(note)

\* Faulty variant: a failed notice that said nothing ends without a message.
NoticeFailedSilent(note) ==
    /\ NoticeOver
    /\ Emit(IF notice.state = "relaying" THEN RelayAndFlush(note.n) ELSE <<>>, ToRead)

\* handleNoticeFailed
NoticeFailed(note) ==
    /\ NoticeOver
    /\ Emit(IF notice.state = "relaying" THEN RelayAndFlush(note.n)
            ELSE Msg("notice", note.n), ToRead)

\* interceptActiveNotice for a delivery.
DeliveryAct(note) ==
    /\ UNCHANGED cut
    /\ \/ /\ note.what = "started"
          /\ notice' = IF notice.state = "pending"
                       THEN [notice EXCEPT !.state = "active"] ELSE notice
          /\ Emit(<<>>, ToRead)
       \/ note.what \in {"text", "brace"} /\ NoticeDelta(note)
       \/ note.what = "reason" /\ Emit(<<>>, ToRead) /\ UNCHANGED notice
       \/ note.what = "tool" /\ Deliver(note) /\ UNCHANGED notice
       \/ note.what = "completed" /\ NoticeCompleted(note)
       \/ note.what = "failed" /\ NoticeFailed(note)

ReaderAct ==
    /\ rd.pc = "act"
    /\ IF rd.kind = "keepalive" THEN KeepaliveAct(rd.note) ELSE DeliveryAct(rd.note)
    /\ UNCHANGED <<turn, call, bufw, reading, closedMessages, approve, stop, server,
                   answered, last, kindOf, torn>>

\* The end of stdout; Wait closes the pipe, and may do so with output in it.
ReaderEOF ==
    /\ rd.pc = "read"
    /\ ~ alive
    /\ stdout = <<>> \/ stop \in {"waiting", "returned"}
    /\ Emit(Msg("error", None), ToDead)
    /\ UNCHANGED <<flight, call, bufw, reading, closedMessages, approve, stop, server,
                   answers, last, kindOf, torn>>

ReaderStep == ReaderTake \/ ReaderAsk \/ ReaderCapture \/ ReaderAct \/ ReaderEOF

-----------------------------------------------------------------------------
(* messageBufferWorker and Read *)

BufferStop ==
    /\ bufw = "run"
    /\ Cancelled
    /\ bufw' = "drain"
    /\ UNCHANGED <<flight, call, rd, buf, reading, closedMessages, approve, stop,
                   server, answers, ghosts>>

\* drainMessageBuffer drops what nobody is waiting for.
BufferDrain ==
    /\ bufw = "drain"
    /\ IF buf = <<>> THEN bufw' = "gone" /\ UNCHANGED buf
       ELSE buf' = Tail(buf) /\ UNCHANGED bufw
    /\ UNCHANGED <<flight, call, rd, reading, closedMessages, approve, stop, server,
                   answers, ghosts>>

\* Read: readLoop ends with the first error.
Read ==
    /\ reading
    /\ buf # <<>>
    /\ buf' = Tail(buf)
    /\ reading' = (Head(buf).what # "error")
    /\ UNCHANGED <<flight, call, rd, bufw, closedMessages, approve, stop, server,
                   answers, ghosts>>

ReadClosed ==
    /\ reading
    /\ buf = <<>>
    /\ closedMessages
    /\ reading' = FALSE
    /\ UNCHANGED <<flight, call, rd, buf, bufw, closedMessages, approve, stop, server,
                   answers, ghosts>>

-----------------------------------------------------------------------------
(* approvalLoopWorker, fed by approvalBufferWorker *)

ApprovalTake ==
    /\ apl = "run"
    /\ asking = None
    /\ asks # <<>>
    /\ asking' = Head(asks)
    /\ asks' = Tail(asks)
    /\ UNCHANGED <<flight, call, rd, channel, apl, stop, server, answers, ghosts>>

\* The listener decides, or the context is done and the request is declined;
\* the result is written if the process is there to read it.
Decide ==
    /\ asking # None
    /\ asking' = None
    /\ Answer({asking})
    /\ UNCHANGED <<flight, call, rd, channel, asks, apl, stop, server, cut, ghosts>>

ApprovalStop ==
    /\ apl = "run"
    /\ Cancelled
    /\ asking = None
    /\ apl' = "gone"
    /\ UNCHANGED <<flight, call, rd, channel, asks, asking, stop, server, answers,
                   ghosts>>

-----------------------------------------------------------------------------
(* Stop *)

StopGo(from, to) == stop = from /\ stop' = to

StopCancel ==
    /\ call["exec"].pc = "idle"
    /\ last <= StopBy
    /\ StopGo("no", "cancelled")
    /\ UNCHANGED <<flight, call, rd, channel, approve, server, answers, ghosts>>

StopStdin ==
    /\ StopGo("cancelled", "waiting")
    /\ UNCHANGED <<flight, call, rd, channel, approve, server, answers, ghosts>>

\* The process is gone, killed after stopGracePeriod if need be.
StopReturn ==
    /\ ~ alive
    /\ StopGo("waiting", "returned")
    /\ UNCHANGED <<flight, call, rd, channel, approve, server, answers, ghosts>>

\* The goroutine that waits for the workers and closes the channels of Read.
CloseMessages ==
    /\ stop \in {"waiting", "returned"}
    /\ ~ alive
    /\ rd.pc = "dead"
    /\ bufw = "gone"
    /\ apl = "gone"
    /\ ~ closedMessages
    /\ closedMessages' = TRUE
    /\ UNCHANGED <<flight, call, rd, buf, bufw, reading, approve, stop, server, answers,
                   ghosts>>

-----------------------------------------------------------------------------

ServerStep == \E n \in Turns : ServerStart(n) \/ ServerResume(n) \/ ServerEnd(n)
StopStep   == StopStdin \/ StopReturn \/ CloseMessages

Next ==
    \/ UserCall \/ \E c \in Callers : CallStep(c)
    \/ ServerStep \/ \E n \in Turns : ServerContent(n) \/ ServerAsk(n)
    \/ ServerExit
    \/ ReaderStep
    \/ BufferStop \/ BufferDrain \/ Read \/ ReadClosed
    \/ ApprovalTake \/ Decide \/ ApprovalStop
    \/ StopCancel \/ StopStep

Spec == Init /\ [][Next]_vars

\* The workers run when they can, the process ends the turns it began and
\* exits, killed if need be, when Stop wants it to.  Whether the user decides
\* an approval is not assumed.
Fairness ==
    /\ \A c \in Callers : WF_vars(CallStep(c))
    /\ WF_vars(ServerStep)
    /\ WF_vars(stop = "waiting" /\ ServerExit)
    /\ WF_vars(ReaderStep)
    /\ WF_vars(BufferStop \/ BufferDrain)
    /\ WF_vars(Read \/ ReadClosed)
    /\ WF_vars(ApprovalTake)
    /\ WF_vars(Cancelled /\ Decide)
    /\ WF_vars(ApprovalStop)
    /\ WF_vars(StopStep)

FairSpec == Spec /\ Fairness

-----------------------------------------------------------------------------
(* Properties *)

TypeOK ==
    /\ turn \in [kind : {"idle", "unknown", "known"}, id : Turns \cup {None}]
    /\ notice \in [state : NoticeStates, kind : {"none", "notice", "keepalive"},
                   reported : BOOLEAN]
    /\ call \in [Callers -> [pc : CallPCs, op : Kinds, n : Turns \cup {None}]]
    /\ rd \in [pc : {"read", "capture", "act", "dead"},
               note : Notifications \cup {NoNote},
               kind : {"none", "notice", "keepalive"}]
    /\ buf \in Seq(Messages)
    /\ bufw \in {"run", "drain", "gone"}
    /\ reading \in BOOLEAN
    /\ closedMessages \in BOOLEAN
    /\ asks \in Seq(Turns)
    /\ asking \in Turns \cup {None}
    /\ apl \in {"run", "gone"}
    /\ stop \in {"no", "cancelled", "waiting", "returned"}
    /\ alive \in BOOLEAN
    /\ phase \in [Turns -> {"none", "done"} \cup Active]
    /\ stdout \in Seq(Notifications)
    /\ items \in 0 .. MaxItems
    /\ answered \subseteq Turns
    /\ cut \subseteq Turns
    /\ last \in 0 .. MaxTurns
    /\ kindOf \in [Turns -> Kinds \cup {"none"}]
    /\ told \in [Turns -> Kinds \cup {"none"}]
    /\ {relayed, torn} \subseteq BOOLEAN

\* The adapter can do nothing any more: it is being stopped, its process is
\* gone, or its reader has ended with an error.
Over == Cancelled \/ ~ alive \/ rd.pc = "dead"

\* One turn at a time: a request is written only to a process without a turn,
\* and the turn counts as idle only when none is in flight.  (Send,
\* startNoticeTurn, updateTurnState.)
OneTurnAtATime ==
    /\ Cardinality(InFlight) <= 1
    /\ \A c \in Callers : call[c].pc = "write" => InFlight = {}
    /\ turn.kind = "idle" => InFlight = {}

\* Every turn ends with the message of its own kind, which is what the session
\* waits for, unless a notice was marked while the end of a turn was handled
\* (startNoticeTurn and interceptNotice; NoticeEndsAsNotice is about those).
EndsInKind == torn \/ \A n \in Turns : told[n] \in {"none", kindOf[n]}

\* Maintenance is silent and asks the user for nothing, and the answer to a
\* notice, but for the same exception, is never shown as output of the
\* participant.  (interceptNotice, isKeepaliveTurn.)
NoticesStayQuiet ==
    /\ \A n \in {asks[k] : k \in DOMAIN asks} \cup {asking} :
          n # None => kindOf[n] # "keepalive"
    /\ \A k \in DOMAIN buf :
          LET m == buf[k] IN
          m.n # None =>
              /\ kindOf[m.n] = "keepalive" => m.what = "keepalive"
              /\ kindOf[m.n] = "notice" => m.what # "output" \/ torn

\* The end of every turn is told, unless the user has an approval to decide;
\* maintenance needs no user, whatever tools and approvals it runs into.
TurnsAreTold ==
    \A n \in Turns :
        (kindOf[n] # "none")
            ~> \/ told[n] # "none" \/ Over
               \/ /\ kindOf[n] # "keepalive"
                  /\ phase[n] = "approval"
                  /\ asking # None

\* Stop returns, every worker exits and the session's reader is released.
StopCompletes ==
    Cancelled ~> (stop = "returned" /\ closedMessages /\ ~ reading)

-----------------------------------------------------------------------------
(* A claim of the repository that the code does not keep *)

\* pkg-agent-codex.md: a notice ends with a flush of its own anchor,
\* acknowledged or not.
NoticeEndsAsNotice ==
    \A n \in Turns : kindOf[n] = "notice" => told[n] \in {"none", "notice"}
=============================================================================
