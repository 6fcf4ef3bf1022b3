------------------------------- MODULE Executor -------------------------------
(***************************************************************************)
(* The life of the interpreter's executor (internal/interpreter): who may  *)
(* put an operation in its queue, what the callers that wait for an answer *)
(* get, and how it shuts down, with the goroutines around it: callers of   *)
(* the public methods, the session's observers, shells, the watcher of the *)
(* lifetime, the event dispatcher with the terminal interface behind it,   *)
(* and main.  What an operation does to the model is in module Workflows;  *)
(* here it is counted.                                                     *)
(***************************************************************************)
EXTENDS Queue, Integers, FiniteSets, SequencesExt

CONSTANTS
    Users,          \* goroutines that call the interpreter
    Observing,      \* the one of them that is an observer calling back
    Notifiers,      \* goroutines of the session that notify the executor
    Keepalive,      \* the one of them that Session.Shutdown waits for
    Shells,         \* goroutines that run shell programs
    Scenarios,      \* bound: what each user calls, and what happens meanwhile
    MaxEvents       \* bound: session events

Main    == "main"
Watcher == "watcher"
Exec    == "executor"
Disp    == "dispatcher"
Procs  == Users \cup Notifiers \cup Shells \cup {Main, Watcher, Exec, Disp}
Nobody == "nobody"

Submissions == {"line", "shell", "quit"}
Asks        == {"snapshot", "resolve", "stage"}
Calls       == Submissions \cup Asks \cup {"close"}

\* A scenario: the calls of each user, in order; the session events; whether
\* the program's context may be cancelled, and the interface may end by itself.
Scenario(calls, events, signal, leaves) ==
    [calls |-> calls, events |-> events, signal |-> signal, leaves |-> leaves]

Times(calls, c) == Cardinality({k \in DOMAIN calls : calls[k] = c})

ASSUME ExecutorAssumption ==
    /\ Observing \in Users /\ Keepalive \in Notifiers
    /\ Users \cap (Notifiers \cup Shells) = {} /\ Notifiers \cap Shells = {}
    /\ {Main, Watcher, Exec, Disp} \cap (Users \cup Notifiers \cup Shells) = {}
    /\ Nobody \notin Procs
    /\ MaxEvents \in Nat
    /\ Scenarios \subseteq [calls : [Users -> Seq(Calls)], events : 0..MaxEvents,
                            signal : BOOLEAN, leaves : BOOLEAN]
    /\ \A s \in Scenarios :
           SumFunction([u \in Users |-> Times(s.calls[u], "shell")]) <= Cardinality(Shells)
    \* OnEvent must return: an observer that called Close would wait for itself.
    /\ \A s \in Scenarios : Times(s.calls[Observing], "close") = 0

VARIABLES
    pc,             \* where each goroutine is
    call,           \* the operation it is to enqueue, or waits for
    todo,           \* user -> the calls it still makes
    scene,          \* what is left of the scenario besides
    \* interpreterExecutor
    mutex,          \* who holds enqueueMu
    closed, once,   \* closed and closeOnce
    ops,            \* operations
    op,             \* the one the executor is at
    cancelled,      \* the lifetime is over
    sessionDown, done,
    \* sessionEventInbox: the number of events
    inbox, drainPending,
    \* the model and the snapshot cache: events and submissions they show
    room, cached,
    \* eventDispatcher: its queue, the barrier of Close, and done
    dispatch, reached, stopped,
    front,          \* the queue of ui.Observer: requests to exit
    result,         \* goroutine -> what the channel of its request holds
    \* history, for the checks
    answer,         \* goroutine -> what its last call returned
    seen,           \* goroutine -> what its call must at least show
    accepted,       \* submissions, in the order of acceptance
    answered,       \* their terminal outcomes, in the order delivered
    told            \* what the last snapshot delivered shows

gate       == <<mutex, closed, once>>
lifetime   == <<cancelled, sessionDown, done>>
mail       == <<inbox, drainPending>>
model      == <<room, cached>>
dispatcher == <<dispatch, reached, stopped, front>>
replies    == <<result, answer, seen>>
history    == <<accepted, answered, told>>
vars == <<pc, call, todo, scene, gate, ops, op, lifetime, mail, model, dispatcher, replies, history>>

-----------------------------------------------------------------------------
(* Operations, events, answers *)

Operation(do, by, n) == [do |-> do, by |-> by, n |-> n]
Drain    == Operation("drain", Nobody, 0)
Shutdown == Operation("shutdown", Nobody, 0)
ShellDone(s) == Operation("shellDone", s, 0)
NoOp     == Operation("none", Nobody, 0)

Shown(events, lines) == [events |-> events, lines |-> lines]
Nothing    == Shown(0, 0)
NoResult   == [ok |-> FALSE, shown |-> Nothing]
Reply(r)   == [ok |-> TRUE, shown |-> r]

Event(kind, of, r) == [kind |-> kind, of |-> of, shown |-> r]
StateChanged(r) == Event("state", NoOp, r)
Outcome(o)      == Event("outcome", o, Nothing)
ExitRequested   == Event("exit", NoOp, Nothing)
Barrier         == Event("barrier", NoOp, Nothing)

\* What a call returned: whether it was accepted, and a value or ErrClosed.
Return(taken, r) == [taken |-> taken, reply |-> r]

Init ==
    /\ pc = [p \in Procs |-> CASE p \in Users \cup Notifiers -> "idle"
                               [] p \in Shells -> "none"
                               [] p = Main     -> "program"
                               [] p = Watcher  -> "watch"
                               [] OTHER        -> "pull"]
    /\ call = [p \in Procs |-> NoOp]
    /\ scene \in Scenarios /\ todo = scene.calls
    /\ mutex = Nobody /\ closed = FALSE /\ once = "no"
    /\ ops = NewQueue /\ op = NoOp
    /\ cancelled = FALSE /\ sessionDown = FALSE /\ done = FALSE
    /\ inbox = 0 /\ drainPending = FALSE
    /\ room = Nothing /\ cached = Nothing
    \* start publishes the initial state
    /\ dispatch = [NewQueue EXCEPT !.buf = <<StateChanged(Nothing)>>]
    /\ reached = FALSE /\ stopped = FALSE /\ front = NewQueue
    /\ result = [p \in Procs |-> NoResult]
    /\ answer = [p \in Procs |-> Return(FALSE, NoResult)]
    /\ seen   = [p \in Procs |-> Nothing]
    /\ accepted = <<>> /\ answered = <<>> /\ told = Nothing

Goto(p, label) == pc' = [pc EXCEPT ![p] = label]

-----------------------------------------------------------------------------
(* enqueue: the flag is read and the operation pushed under enqueueMu.       *)

\* Where the goroutine goes when enqueue has returned.
Returns(p) == IF p \in Shells THEN "ended" ELSE "idle"

\* Faulty variant: the mutex is not released when the queue is closed.
RefusedHolding(p) ==
    /\ Goto(p, Returns(p))
    /\ answer' = [answer EXCEPT ![p] =
           Return(FALSE, IF call[p].do = "snapshot" THEN Reply(cached) ELSE NoResult)]
    /\ mutex' = p

\* A snapshot that is refused is read from the cache; the rest get ErrClosed.
Refused(p) ==
    /\ Goto(p, Returns(p))
    /\ answer' = [answer EXCEPT ![p] =
           Return(FALSE, IF call[p].do = "snapshot" THEN Reply(cached) ELSE NoResult)]
    /\ UNCHANGED mutex

Enqueue(p) ==
    /\ pc[p] = "enqueue" /\ mutex = Nobody
    /\ \/ closed /\ Refused(p)
       \/ /\ ~closed
          /\ mutex' = p /\ Goto(p, "push")
          /\ UNCHANGED answer
    /\ UNCHANGED <<call, todo, scene, closed, once, ops, op, lifetime, mail, model, dispatcher,
                   result, seen, history>>

\* An accepted request must show what was there when it was accepted.
Push(p) ==
    /\ pc[p] = "push"
    /\ ops' \in Pushed(ops, call[p])
    /\ mutex' = Nobody
    /\ seen' = [seen EXCEPT ![p] = Shown(room.events + inbox, Len(accepted))]
    /\ IF call[p].do \in Asks
       THEN Goto(p, "wait") /\ UNCHANGED answer
       ELSE Goto(p, Returns(p)) /\ answer' = [answer EXCEPT ![p] = Return(TRUE, NoResult)]
    /\ accepted' = IF call[p].do \in Submissions THEN Append(accepted, call[p]) ELSE accepted
    /\ UNCHANGED <<call, todo, scene, closed, once, op, lifetime, mail, model, dispatcher, result,
                   answered, told>>

-----------------------------------------------------------------------------
(* requestClose, once: who comes second waits for the first.                 *)

Requested(p) == CASE p = Exec    -> "quitting"
                  [] p = Watcher -> "end"
                  [] OTHER       -> "await"

BeginClose(p) ==
    /\ pc[p] = "once" /\ once = "no"
    /\ mutex = Nobody
    /\ mutex' = p /\ once' = "running" /\ closed' = TRUE
    /\ Goto(p, "stop")
    /\ UNCHANGED <<call, todo, scene, ops, op, lifetime, mail, model, dispatcher, replies,
                   history>>

AlreadyClosing(p) ==
    /\ pc[p] = "once" /\ once = "over"
    /\ Goto(p, Requested(p))
    /\ UNCHANGED <<call, todo, scene, gate, ops, op, lifetime, mail, model, dispatcher, replies,
                   history>>

PushShutdown(p) ==
    /\ pc[p] = "stop"
    /\ ops' \in Pushed(ops, Shutdown)
    /\ mutex' = Nobody /\ once' = "over"
    /\ Goto(p, Requested(p))
    /\ UNCHANGED <<call, todo, scene, closed, op, lifetime, mail, model, dispatcher, replies,
                   history>>

RequestClose(p) ==
    BeginClose(p) \/ AlreadyClosing(p) \/ PushShutdown(p)

-----------------------------------------------------------------------------
(* Callers *)

\* A user makes its next call; an observer does so while it is notified.
Call(u) ==
    /\ pc[u] = "idle" /\ todo[u] # <<>>
    /\ u = Observing => pc[Disp] = "deliver"
    /\ LET do == Head(todo[u])
       IN  /\ call' = [call EXCEPT ![u] = Operation(do, u, Len(todo[u]))]
           /\ Goto(u, IF do = "close" THEN "once" ELSE "enqueue")
    /\ todo' = [todo EXCEPT ![u] = Tail(@)]
    /\ result' = [result EXCEPT ![u] = NoResult]
    /\ seen' = [seen EXCEPT ![u] = told]
    /\ UNCHANGED <<scene, gate, ops, op, lifetime, mail, model, dispatcher, answer, history>>

\* The request is answered.
Answered(u) ==
    /\ pc[u] = "wait" /\ result[u].ok
    /\ Goto(u, "idle")
    /\ answer' = [answer EXCEPT ![u] = Return(TRUE, result[u])]
    /\ UNCHANGED <<call, todo, scene, gate, ops, op, lifetime, mail, model, dispatcher, result, seen,
                   history>>

\* Faulty variant: the channel is not looked at again.
AbandonedAtOnce(u) ==
    /\ pc[u] = "wait" /\ done
    /\ Goto(u, "idle")
    /\ answer' = [answer EXCEPT ![u] =
           Return(TRUE, IF call[u].do = "snapshot" THEN Reply(cached) ELSE NoResult)]
    /\ UNCHANGED <<call, todo, scene, gate, ops, op, lifetime, mail, model, dispatcher, result,
                   seen, history>>

\* The executor is gone.  A snapshot comes from the cache; the other requests
\* look at their channel once more.
Abandoned(u) ==
    /\ pc[u] = "wait" /\ done
    /\ Goto(u, "idle")
    /\ answer' = [answer EXCEPT ![u] =
           Return(TRUE, IF call[u].do = "snapshot" THEN Reply(cached) ELSE result[u])]
    /\ UNCHANGED <<call, todo, scene, gate, ops, op, lifetime, mail, model, dispatcher, result, seen,
                   history>>

\* Close, called by a user or by main.
Closed(p) ==
    /\ pc[p] = "await" /\ done
    /\ Goto(p, IF p = Main THEN "exited" ELSE "idle")
    /\ UNCHANGED <<call, todo, scene, gate, ops, op, lifetime, mail, model, dispatcher, replies,
                   history>>

-----------------------------------------------------------------------------
(* Goroutines of the session, shells, the watcher, and main *)

\* recordSessionEvent: Record, and an enqueue when a drain is needed.
Record(n) ==
    /\ pc[n] = "idle" /\ scene.events > 0
    /\ scene' = [scene EXCEPT !.events = @ - 1]
    /\ n = Keepalive => ~sessionDown
    /\ inbox' = inbox + 1 /\ drainPending' = TRUE
    /\ IF drainPending THEN UNCHANGED <<pc, call>>
       ELSE Goto(n, "enqueue") /\ call' = [call EXCEPT ![n] = Drain]
    /\ UNCHANGED <<todo, gate, ops, op, lifetime, model, dispatcher, replies, history>>

\* A program ends by itself; or it is killed, its group and all.
ShellEnds(s, killed) ==
    /\ pc[s] = "running"
    /\ killed => cancelled
    /\ Goto(s, "enqueue")
    /\ call' = [call EXCEPT ![s] = ShellDone(s)]
    /\ UNCHANGED <<todo, scene, gate, ops, op, lifetime, mail, model, dispatcher, replies,
                   history>>

Watch ==
    /\ pc[Watcher] = "watch"
    /\ \/ cancelled /\ Goto(Watcher, "once")
       \/ done /\ Goto(Watcher, "end")
    /\ UNCHANGED <<call, todo, scene, gate, ops, op, lifetime, mail, model, dispatcher, replies,
                   history>>

\* The context of the program is cancelled: SIGINT or SIGTERM.
Signal ==
    /\ scene.signal /\ ~cancelled /\ cancelled' = TRUE
    /\ UNCHANGED <<pc, call, todo, scene, gate, ops, op, sessionDown, done, mail, model, dispatcher,
                   replies, history>>

\* The interface handles ExitRequested, or its program ends for other reasons.
\* main leaves: the model closes the observer's queue, then Close.
Leave(q) == Goto(Main, "once") /\ front' = CloseQueue(q)

ProgramQuits ==
    /\ pc[Main] = "program" /\ HasValue(front)
    /\ Leave(Pulled(front))
    /\ UNCHANGED <<call, todo, scene, gate, ops, op, lifetime, mail, model, dispatch, reached,
                   stopped, replies, history>>

ProgramEnds ==
    /\ pc[Main] = "program" /\ scene.leaves
    /\ Leave(front)
    /\ UNCHANGED <<call, todo, scene, gate, ops, op, lifetime, mail, model, dispatch, reached,
                   stopped, replies, history>>

-----------------------------------------------------------------------------
(* The event dispatcher *)

Dispatch ==
    /\ pc[Disp] = "pull" /\ HasValue(dispatch)
    /\ dispatch' = Pulled(dispatch)
    /\ LET e == Value(dispatch)
       IN  /\ reached'  = (reached \/ e.kind = "barrier")
           /\ told'     = IF e.kind = "state" THEN e.shown ELSE told
           /\ answered' = IF e.kind = "outcome" THEN Append(answered, e.of) ELSE answered
           /\ IF e.kind = "exit" THEN front' \in Pushed(front, e) ELSE UNCHANGED front
           /\ Goto(Disp, IF e.kind = "barrier" \/ todo[Observing] = <<>> THEN "pull"
                         ELSE "deliver")
    /\ UNCHANGED <<call, todo, scene, gate, ops, op, lifetime, mail, model, stopped, replies, accepted>>

\* The observers have returned.
Delivered ==
    /\ pc[Disp] = "deliver" /\ pc[Observing] = "idle"
    /\ Goto(Disp, "pull")
    /\ UNCHANGED <<call, todo, scene, gate, ops, op, lifetime, mail, model, dispatcher, replies,
                   history>>

DispatcherStops ==
    /\ pc[Disp] = "pull" /\ ReportsClosed(dispatch)
    /\ stopped' = TRUE /\ Goto(Disp, "end")
    /\ UNCHANGED <<call, todo, scene, gate, ops, op, lifetime, mail, model, dispatch, reached, front,
                   replies, history>>

-----------------------------------------------------------------------------
(* The executor's goroutine *)

Publish(q, events) == [q EXCEPT !.buf = @ \o events]

Others == UNCHANGED <<call, todo, scene, mutex, closed, once, reached, stopped, front, answer, seen,
                      history>>

\* The events in the inbox are applied, and shown.
ApplyBurst ==
    /\ inbox > 0 /\ inbox' = 0
    /\ room' = [room EXCEPT !.events = @ + inbox]
    /\ cached' = room'
    /\ dispatch' = Publish(dispatch, <<StateChanged(room')>>)

PullOperation ==
    /\ pc[Exec] = "pull" /\ HasValue(ops)
    /\ op' = Value(ops) /\ ops' = Pulled(ops)
    /\ Goto(Exec, "apply")
    /\ UNCHANGED <<lifetime, mail, model, dispatch, result>> /\ Others

\* applySessionEvents, before an operation and after it.
Settle ==
    /\ pc[Exec] \in {"apply", "after"}
    /\ ApplyBurst
    /\ UNCHANGED <<pc, ops, op, lifetime, drainPending, result>> /\ Others

Settled ==
    /\ pc[Exec] = "after" /\ inbox = 0
    /\ Goto(Exec, "pull")
    /\ UNCHANGED <<ops, op, lifetime, mail, model, dispatch, result>> /\ Others

\* Faulty variant: the inbox is not looked at before the operation.
AtUnsettled(do) == pc[Exec] = "apply" /\ op.do \in do

\* An operation is applied once the inbox was found empty.
At(do) ==
    pc[Exec] = "apply" /\ inbox = 0 /\ op.do \in do

\* drainSessionEvents: Take and apply until CompleteDrain finds none.
DrainEvents ==
    /\ At({"drain"})
    /\ Goto(Exec, "complete")
    /\ UNCHANGED <<ops, op, lifetime, mail, model, dispatch, result>> /\ Others

\* Faulty variant: the marker is left behind.
CompleteDrainMarked ==
    /\ pc[Exec] = "complete"
    /\ Goto(Exec, IF inbox > 0 THEN "apply" ELSE "after")
    /\ UNCHANGED <<ops, op, lifetime, mail, model, dispatch, result>> /\ Others

CompleteDrain ==
    /\ pc[Exec] = "complete"
    /\ IF inbox > 0 THEN Goto(Exec, "apply") /\ UNCHANGED drainPending
       ELSE Goto(Exec, "after") /\ drainPending' = FALSE
    /\ UNCHANGED <<ops, op, lifetime, inbox, model, dispatch, result>> /\ Others

\* A submission, with its outcome; /quit goes on to close.
ApplySubmission ==
    /\ At(Submissions)
    /\ room' = [room EXCEPT !.lines = @ + 1] /\ cached' = room'
    /\ dispatch' = Publish(dispatch, <<StateChanged(room'), Outcome(op)>>)
    /\ \/ op.do = "line" /\ Goto(Exec, "after")
       \/ op.do = "quit" /\ Goto(Exec, "once")
       \/ /\ op.do = "shell"
          /\ \E s \in Shells : pc[s] = "none" /\ pc' = [pc EXCEPT ![Exec] = "after",
                                                                  ![s] = "running"]
    /\ UNCHANGED <<ops, op, lifetime, mail, result>> /\ Others

\* The answer goes to a channel with room for it: nobody need be waiting.
ApplyRequest ==
    /\ At(Asks)
    /\ cached' = room
    /\ result' = [result EXCEPT ![op.by] = Reply(room)]
    /\ dispatch' = IF op.do = "stage" THEN Publish(dispatch, <<StateChanged(room)>>)
                                      ELSE dispatch
    /\ Goto(Exec, "after")
    /\ UNCHANGED <<ops, op, lifetime, mail, room>> /\ Others

ApplyShellResult ==
    /\ At({"shellDone"})
    /\ cached' = room /\ dispatch' = Publish(dispatch, <<StateChanged(room)>>)
    /\ Goto(Exec, "after")
    /\ UNCHANGED <<ops, op, lifetime, mail, room, result>> /\ Others

\* Session.Shutdown waits for its keepalive goroutine.
DownSession == (sessionDown \/ pc[Keepalive] = "idle") /\ sessionDown' = TRUE

\* /quit, once closing is requested: shut the session down, apply the events
\* there are, and ask the front end to end.
QuitSession ==
    /\ pc[Exec] = "quitting"
    /\ DownSession
    /\ room' = [room EXCEPT !.events = @ + inbox] /\ inbox' = 0 /\ cached' = room'
    /\ dispatch' = Publish(dispatch, <<StateChanged(room'), ExitRequested>>)
    /\ Goto(Exec, "after")
    /\ UNCHANGED <<ops, op, cancelled, done, drainPending, result>> /\ Others

\* shutdownOperation: the session, the lifetime, the shells, the queue, and
\* the dispatcher with what it has yet to deliver.
ShutdownSession ==
    /\ At({"shutdown"})
    /\ DownSession
    /\ cancelled' = TRUE
    /\ Goto(Exec, "shells")
    /\ UNCHANGED <<ops, op, done, mail, model, dispatch, result>> /\ Others

\* Faulty variant: nobody waits for the shells.
AwaitNoShells ==
    /\ pc[Exec] = "shells"
    /\ ops' = CloseQueue(ops)
    /\ cached' = room
    /\ dispatch' = Publish(dispatch, <<Barrier>>)
    /\ Goto(Exec, "flush")
    /\ UNCHANGED <<op, lifetime, mail, room, result>> /\ Others

AwaitShells ==
    /\ pc[Exec] = "shells" /\ \A s \in Shells : pc[s] \in {"none", "ended"}
    /\ ops' = CloseQueue(ops)
    /\ cached' = room
    /\ dispatch' = Publish(dispatch, <<Barrier>>)
    /\ Goto(Exec, "flush")
    /\ UNCHANGED <<op, lifetime, mail, room, result>> /\ Others

\* Faulty variant: the barrier is not waited for.
CloseUnflushed ==
    /\ pc[Exec] = "flush"
    /\ dispatch' = CloseQueue(dispatch)
    /\ Goto(Exec, "drained")
    /\ UNCHANGED <<ops, op, lifetime, mail, model, result>> /\ Others

CloseDispatcher ==
    /\ pc[Exec] = "flush" /\ reached
    /\ dispatch' = CloseQueue(dispatch)
    /\ Goto(Exec, "drained")
    /\ UNCHANGED <<ops, op, lifetime, mail, model, result>> /\ Others

Finish ==
    /\ pc[Exec] = "drained" /\ stopped
    /\ done' = TRUE /\ Goto(Exec, "end")
    /\ UNCHANGED <<ops, op, cancelled, sessionDown, mail, model, dispatch, result>> /\ Others

Executing ==
    \/ PullOperation \/ Settle \/ Settled
    \/ DrainEvents \/ CompleteDrain \/ ApplySubmission \/ ApplyRequest \/ ApplyShellResult
    \/ QuitSession
    \/ ShutdownSession \/ AwaitShells \/ CloseDispatcher \/ Finish

-----------------------------------------------------------------------------
\* What a goroutine does by itself, once it has something to do.
Step(p) ==
    \/ Enqueue(p) \/ Push(p) \/ RequestClose(p) \/ Closed(p)
    \/ p \in Users /\ (Answered(p) \/ Abandoned(p))
    \/ p \in Shells /\ ShellEnds(p, TRUE)
    \/ p = Watcher /\ Watch
    \/ p = Main /\ ProgramQuits
    \/ p = Disp /\ (Dispatch \/ Delivered \/ DispatcherStops)
    \/ p = Exec /\ Executing

Next ==
    \/ \E p \in Procs : Step(p)
    \/ \E u \in Users : Call(u)
    \/ \E n \in Notifiers : Record(n)
    \/ \E s \in Shells : ShellEnds(s, FALSE)
    \/ Signal \/ ProgramEnds

Spec == Init /\ [][Next]_vars

\* The Go scheduler runs a goroutine that can run (a mutex is handed out, a
\* select takes a ready case, a shell whose context is cancelled is killed).
\* That one of them runs is enough here: the bounds leave each only finitely
\* many steps, so none waits forever behind the others.
FairSpec == Spec /\ WF_vars(\E p \in Procs : Step(p))

-----------------------------------------------------------------------------
(* Properties *)

Pcs == {"idle", "enqueue", "push", "wait", "once", "stop", "await", "none", "running",
        "ended", "program", "exited", "watch", "end", "pull", "deliver", "apply", "after", "complete", "quitting", "shells", "flush",
        "drained"}

Versions == [events : 0..MaxEvents, lines : Nat]
Replies  == [ok : BOOLEAN, shown : Versions]
Operations == [do : Calls \cup {"drain", "shutdown", "shellDone", "none"},
               by : Procs \cup {Nobody}, n : Nat]
Events == [kind : {"state", "outcome", "exit", "barrier"}, of : Operations, shown : Versions]

TypeOK ==
    /\ pc \in [Procs -> Pcs] /\ call \in [Procs -> Operations]
    /\ todo \in [Users -> Seq(Calls)]
    /\ mutex \in Procs \cup {Nobody} /\ closed \in BOOLEAN
    /\ once \in {"no", "running", "over"}
    /\ ops \in QueueOf(Operations) /\ op \in Operations
    /\ cancelled \in BOOLEAN /\ sessionDown \in BOOLEAN /\ done \in BOOLEAN
    /\ inbox \in 0..MaxEvents /\ drainPending \in BOOLEAN
    /\ room \in Versions /\ cached \in Versions /\ told \in Versions
    /\ reached \in BOOLEAN /\ stopped \in BOOLEAN
    /\ dispatch \in QueueOf(Events) /\ front \in QueueOf(Events)
    /\ result \in [Procs -> Replies]
    /\ answer \in [Procs -> [taken : BOOLEAN, reply : Replies]]
    /\ seen \in [Procs -> Versions]
    /\ accepted \in Seq(Operations) /\ answered \in Seq(Operations)

\* Every submission that was accepted is answered once, in the order of
\* acceptance, and has been answered when the executor is done: Close loses
\* no outcome, whoever submits, closes or quits meanwhile
\* (executor.go enqueue and shutdownOperation, event_dispatcher.go Close).
OutcomesFlushed ==
    /\ IsPrefix(answered, accepted)
    /\ done => answered = accepted

\* A snapshot is never older than what its reader has reason to expect: one
\* that was accepted shows all that was recorded and accepted before it, one
\* that was refused all that observers had been shown when it was called
\* (executor.go snapshot, refreshSnapshot and run).
ReadsAreCurrent ==
    \A u \in Users :
        pc[u] = "idle" /\ answer[u].reply.ok /\ call[u].do = "snapshot" =>
            /\ answer[u].reply.shown.events >= seen[u].events
            /\ answer[u].reply.shown.lines  >= seen[u].lines

\* A request that was accepted is answered by the executor, not with ErrClosed
\* or an empty result, however it meets a shutdown
\* (executor.go resolveCommand, stage_operations.go runStageOperation).
AcceptedIsResolved ==
    \A u \in Users :
        pc[u] = "idle" /\ answer[u].taken /\ call[u].do \in Asks => answer[u].reply.ok

\* When the executor is done nothing of it is left: no shell runs, the
\* dispatcher has delivered everything, and no operation waits in the queue
\* (executor.go shutdownOperation.apply).
DoneIsQuiet ==
    done =>
        /\ \A s \in Shells : pc[s] \in {"none", "ended"}
        /\ stopped /\ ~HasValue(dispatch)
        /\ ~HasValue(ops) /\ mutex = Nobody
        /\ cached = room

\* An event recorded before closing began is applied, whether its drain was
\* accepted, left to the pending one, or refused because closing began meanwhile
\* (session_event_inbox.go, executor.go recordSessionEvent and run).
RecordedIsApplied ==
    \A k \in 1..MaxEvents :
        (~closed /\ room.events + inbox >= k) ~> room.events >= k

\* Every call returns, one that an observer makes while it is notified
\* included (executor.go close, snapshot, resolveCommand, enqueue).
CallsReturn ==
    (\E u \in Users : pc[u] # "idle") ~> (\A u \in Users : pc[u] = "idle")

\* /quit ends the program: the exit request reaches the interface, and main's
\* own Close returns (command_quit.go, cmd/coderoom/main.go).
QuitEnds ==
    (\E k \in DOMAIN accepted : accepted[k].do = "quit") ~> pc[Main] = "exited"

==============================================================================
