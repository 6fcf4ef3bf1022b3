# Coderoom: TLA+ models and proofs

Coderoom is a terminal program in which one user talks to several agent
processes ("participants"). This directory holds TLA+ models of its concurrent
core and of the workflows on top of it, the TLC configurations that check them on
small instances, and theorems that the TLA+ proof system checks for every
instance.

## The system

| Component | State it keeps | Operations | Interacts with | What makes it correct |
|---|---|---|---|---|
| participant (`internal/participant`) | status, startup flag, turn number, open streams, anchor stream, agent handle | the transitions of the status machine; the registry's add, get, remove | owned by the session, under its mutex | streams and anchor belong to one turn; only an idle participant is given work |
| session (`internal/session`) | registry, agents map (runtime entry with stop channel), turn counter, lifecycle context | invite, remove, send, broadcast, handoff, cancel, shutdown; start and reader goroutines; keepalive sweep | calls agents, notifies observers, owns the approval hub | no participant is stuck, no process leaks, a goroutine acts on its own participant only |
| approval hub (`session/approvals.go`) | active request, queue, response channels | request, resolve, cancel | called by adapters and by the interpreter; publishes events | first come first served, one decision per request, nobody waits after cancelling |
| executor (`internal/interpreter`) | operation queue, event inbox, closed flag, snapshot cache, dispatcher | submit, snapshot, resolve, stage operations, drain, shutdown, Close | executes session commands, applies session events, publishes events to observers | what is accepted is answered, once and in order; no event is lost; Close leaves nothing behind |
| staged submission (`workflow_stage.go`) | frozen barrier, phase, pending request | plan, wait, interrupt, edit, discard, read handoff source, dispatch | driven by session events and completions | dispatched once, its input answered once, deliveries reported as they were |
| loop (`workflow_loop.go`) | phase, turn count, pending request | dispatch, wait, evaluate, cancel | same | each turn is evaluated once |
| Codex adapter (`agent/codex`) | turn state, notice state (two mutexes), message and approval buffers | Send, SendNotice, KeepAlive, Read, Interrupt, Stop; four workers | an external process; the approval hub | one turn at a time, each turn ends with its own flush |
| echo adapter (`agent/echo`) | a one-slot channel | Send, Read, Stop | the session | Send returns |
| queue (`internal/queue`) | a pump goroutine with a buffer | Push, Pull, TryPull, Close | executor, dispatcher, observer of the interface | FIFO |
| room state (`internal/room`) | records, open streams, members, handoff source and its mark, version, deltas | session events, appended records, snapshot, delta | owned by the interpreter | a stream is one record, of one author; marks and cache agree |
| room view and history (`internal/ui/room`) | projection of the records, notices of its own, input area | deltas, notices, focus, staged composer, approval prompt | fed by the interpreter's events | the screen follows the room |
| user interface (`internal/ui`) | submission gate, presented stage, remembered approval and dispatch | keys, messages of commands, interpreter events | sends operations to the interpreter | one submission at a time; no text lost, none sent twice; the answer is for the prompt the user saw |
| prompt language, shell, config, transcripts, line stream, tools | little or none | parsing, file and process input and output | | not concurrent, or not the program's own logic |

How they are wired: keys go through the interface to the executor, the one
goroutine that owns the interpreter's model. It calls the session, which calls the
adapters. Events come back the same way: adapters are read by reader goroutines of
the session, which change a participant under the session's mutex and notify the
executor's inbox after they released it; the executor applies them in bursts
around its operations and publishes to the dispatcher, which feeds the interface.

Behaviours that are hard to test, with the line where each bites and the
properties about it, are the "hazards" of `PROJECT.json`.

## Modules

| Module | What it is |
|---|---|
| `Participant` | the status machine of `participant.go`: a record, and one operator and one guard for each transition |
| `Session` | the session: its tables, the goroutines that share them, the agents' processes |
| `Lifecycle` | what a session promises about the participant under an alias; `Session` implements it |
| `Approvals` | the way of an approval: hub, event inbox, executor, user interface, and back |
| `ApprovalDesk` | what the hub promises; `Approvals` implements it |
| `CodexClient` | the Codex adapter: callers, stdout worker, buffers, approvals, Stop, and the process it talks to |
| `Instructions` | what a workflow may ask of the instruction runner, and what a participant's view tells |
| `StageWorkflow`, `LoopWorkflow` | the two workflows: each handler an operator from a state to the next one and its instructions |
| `Workflows` | the executor's loop and instruction runner, both workflows, and the participants as the session holds them |
| `Queue` | `internal/queue` as its users see it |
| `Executor` | the life of the executor: who may enqueue, what callers get, dispatcher, shutdown |
| `RoomInput` | the input area of the room view: composer, staged composer, prompt, focus |
| `Composer` | the interface's submissions, stages, prompts and editor, with an interpreter reduced to its answers |
| `Room` | the transcript of the interpreter's model |
| `Transcript` | the way of what is said: goroutines of the session, room, deltas, projection, history |
| `MCSession`, `MCApprovals`, `MCCodex`, `MCWorkflows`, `MCExecutor`, `MCComposer`, `MCTranscript` | instances for TLC |
| `SessionProofs`, `ApprovalProofs`, `CodexProofs`, `TranscriptProofs`, `ComposerProofs`, `ExecutorProofs`, `WorkflowProofs` | theorems and their proofs |

The executor appears three times, each time with what one question needs:
`Workflows` has what an operation does, with a queue that is always open;
`Executor` has the queue's life, and counts instead of computing; `Approvals` has
the one piece of the model that approvals need, and the hub's lock.

### Session and the code

One step is one critical section of `Session.mu`, or one call into an agent.
The goroutines are:

* `ex`, the goroutine that calls `Session.Execute` (in the program there is one,
  the executor of the interpreter). Its `pc` walks through the command:
  `InviteAdd`, `InviteReserve`, `InviteSpawn`; `RemoveDetach` then `RemoveStop`, or
  `RemoveUnattached` then `RemoveEvict`; for deliveries `NextDelivery`,
  `AcquireNotice`, `Prepare`, `Recheck`, `SendAccepted` or `SendRefused`, then
  `Begin`, `Track` or `Abort`; and the steps of `Shutdown`.
* `spc[i]`, the start goroutine of invitation `i` (`startInvitedAgent`).
* `rd[i]`, the reader goroutine (`readLoop` and what it calls).
* `kpc` and `kruns`, the keepalive loop and the goroutines that run one ping each.

An invitation creates the participant, the agent and the stop channel together;
its number `i` names all three (`aliasOf[i]` is its alias). Every goroutine finds
its participant through the alias, as the code does, so it may meet a younger
one. `proc`, `task` and `pipe` stand for the process: one turn at a time, its
messages in order, ended by the flush of its anchor, by a failure, or by the end
of the process. There are three kinds of stream: the anchor of a turn, the
anchor of a notice, any other. `early` is a history variable: the anchor was
flushed before `BeginWorking`.

Left out: timestamps, colours, roles, texts, the notification of observers, and
`CancelCommand`, which interrupts the backend and changes no session state. The
agent calls succeed or fail arbitrarily; `SendRefused` may happen with a free
backend (a write error). A handle `0` is nil, and a call through it, which would
panic, is not a step. A turn's end and the message that tells it are one step of
the model; in the Codex adapter they are two.

### Approvals and the code

The hub's mutex is held while an event is published: `wake = "hub"` means that
its goroutine has recorded an event and not yet enqueued the drain. `ex` is the
executor's loop (`run`): pull an operation, take events before, apply, take
events after. `ApplyEvents` is the fold of `applyApprovalEvent` over a burst of
events, written as what it computes: the last request, unless it was cleared
afterwards. A snapshot carries only the approval the interpreter knows. In the
user interface `shown` is the prompt of the room, `activeApprovalID` what
`ui.Model` remembers, `pending` the messages the framework has not delivered:
they are delivered in any order, as commands run in goroutines of their own.

### Codex and the code

One step is one critical section of `turn.mu` or `notice.mu`, or one operation on
a pipe or a channel. `call` is where each caller is in `Send`, `SendNotice` or
`KeepAlive` (`Begin` claims the turn, `Mark` the notice, `Write` sends the
request, `UndoTurn` and `UndoNotice` give the claims back). `rd` is
`readCodexOutWorker`: `ReaderTake` is `updateTurnState`, `ReaderCapture` the
locked part of `interceptNotice`, `ReaderAct` what the captured kind of notice
makes of the notification; `ReaderAsk` is an approval request, `ReaderEOF` the
end of stdout. `buf` and `asks` are what the two buffer workers hold; the channels
between a worker and its buffer hand over directly. The process numbers its turns
in the order the requests are written and says what it likes about them:
text that begins with a brace (a candidate for an acknowledgement) or does not,
reasoning, tools, one approval per turn, an end of either kind, an exit at any
time. `kindOf` and `told` are history: the call that requested a turn, and the
closing message emitted at its end.

Left out: the handshake, stderr and log messages, the response to `turn/start`
(the adapter ignores it), and the text of messages. The adapter keeps the turn
and the notice under two mutexes and handles the end of a turn in three critical
sections; the session layers notices on working participants, so one can be
started in between. The history variable `torn` holds the turns this happened to.
`EndsInKind` and `NoticesStayQuiet` say nothing about those turns, and
`TornNotice` shows what becomes of them.

### Workflows and the code

The executor is one goroutine; `pc` is where its loop (`executor.go run`) is, and
`queue` holds the items of `instructionRunner.Run`. Every handler of the two
workflows is an operator that returns the next state and a sequence of
instructions, as in the code, and an instruction is executed by one action:
`Read` (a session query), `BeginCall`, `SendTurn`, `SendFails`, `Cancel` and
`EndCall` (a command that goes to agents, one delivery a step), `ExecuteInvite`,
`ExecuteRemoval`, `ExecuteOther`, `LaunchShell`, `Project`, `Tell` (publish).
`EndCall` puts the burst of events the call caused in front of its completion, as
`Run` does. Requests and completions carry the workflow's request identifier
(`Ref`), and a workflow ignores a completion that is not the one it waits for.

The session is reduced to what workflows can see: `part` holds status, turn and
readiness, `owed[a]` the events that the goroutine of participant `a` has not
notified yet, `leaving[a]` those of a reader whose participant is removed. Because
`owed` is delivered later, the executor can read a participant before it hears of
the change, or hear of a change that is over. `fresh` is history: the front end's
last snapshot shows the participants as they are. `got` is history: who accepted a
delivery that was not reported yet.

Steps that only the executor's own goroutine sees (taking an instruction from its
queue, computing a workflow's answer) are not interleaved with the goroutines of
the session: they commute, so `Shared` lets a goroutine move only where the
executor touches something shared. What the user does is a scenario: a sequence of
operations, each given at any time, together with the participants' first
statuses and the failures that may happen.

### Executor and the code

One step is one critical section of `enqueueMu`, one receive or one close.
`Enqueue`, `Push` are `enqueue`, which holds the mutex across the push;
`RequestClose` and `Closed` are `requestClose` with its `sync.Once`; `Answered` and
`Abandoned` are the two arms of the selects in `snapshot`, `resolveCommand` and
`runStageOperation`. `PullOperation` to `Settled` are one turn of `run`;
`ShutdownSession`, `AwaitShells`, `CloseDispatcher`, `Finish` are
`shutdownOperation`. The dispatcher takes from its own queue and notifies the
interface, whose observer has a queue in turn (`front`), and a second observer
that may call back (`Observing`). `main` waits for the interface to exit and calls
Close. `room` and `cached` count the events and lines that the model and the
cached snapshot show; `seen` is the least that a caller may expect of the snapshot
it asks for. An observer that called Close from `OnEvent` would wait for itself:
no code does, and `ExecutorAssumption` says so.

### Composer and the code

The interface is one goroutine (`Update`), so one step is one key, one message or
one event. Commands run on goroutines of their own: `cmds` is the bag of commands
that run and of the messages they ended with, handled in any order. Events are
handled in the order they were published. `RoomInput` has the input area's fields
(`kind`, `previous`, `focus`, `restore`, `text`, `editable`), `ui` has `pending`
and `awaiting` (the gate), `presented` and `preserve` (the stage), `dispatched`
(`stagedDispatchRaw`), `approval` (`activeApprovalID`). The interpreter is reduced
to a queue of operations and the events each may publish; that every submission
gets exactly one answer, which this relies on, is `AnsweredOnce` of `Workflows`.
`sent` in an event is history: somebody got the message.

### Room, Transcript and the code

`Room` translates `internal/room`: each handler of `events.go` returns the room and
the indices it made dirty, `handoff.go` moves the mark, `delta.go` builds a delta or,
when the history of dirty indices is too short (`DeltaHistoryLimit`), a snapshot.
`Transcript` feeds it the events of the session in every order its goroutines can
notify them, including those of an invitation that is over, and applies each
delta to the view (`projection.go`, `history/model.go`), between notices that the
view appends by itself.

An event is applied when it is notified and a delta presented when it is made:
the executor applies events in order and the session waits for none of it; only
the front end writes its view. So every order of notifications, appended records
and notices is there. Words are identified by speaker, stream and number, which is
what the properties tell apart.

## Runs

| Run | Instance | What it shows |
|---|---|---|
| `SessionOne` | one alias, one invitation, two turns, pipe of two, every command, keepalives also during startup | type invariant; preparing is owned; idle means free; no process leaks; liveness of turns, pings, startup and shutdown |
| `SessionReinvite` | one alias invited twice, one turn, keepalives | deliveries use the handle of the registered participant; `Lifecycle` is implemented |
| `SessionTalk` | two aliases, notices on, two turns | a working participant has its end in sight; streams exist in turns only |
| `ApprovalFlow` | two requests, one unrelated event | type invariant; the interpreter follows the hub; cancelled requests leave; the next request is shown; `ApprovalDesk` is implemented |
| `CodexTurns` | two turns of any kind, two notifications of content or approvals, Stop before the second turn | one turn at a time; a turn ends with the message of its kind; maintenance is silent and notices are not output; every turn's end is told; Stop returns and releases every goroutine |
| `WorkflowFlow` | fourteen scripts over two participants, two loop turns | each submission is answered once; the dispatch reports exactly who got the message; the shown stage and participants are current when nothing is on its way; no event is stranded; a stage settles |
| `ExecutorLife` | two callers, an observer that calls back, a keepalive, a shell, two events, five scripts | accepted submissions are answered in order, all of them before the executor is done; reads are current; accepted requests are resolved; when it is done nothing is left; recorded events are applied; every call returns |
| `ComposerFlow` | four keys, two prompts, one text of each kind | the gate is closed exactly while one submission is in transit; the composer can be typed in; what was delivered does not come back; the gate opens |
| `TranscriptFlow` | one alias invited twice, two words, one extra record or notice, an output stream and an item stream | the screen follows the room; what is said is shown once and in order; mark, cache and scan agree |
| `WrongPrompt`, `LoopMissesIdle`, `MixedStreams` | the smallest instance that shows it | a statement of the repository that the code does not keep, see below |

Further configurations, for the same instances:

* `SessionExtra` (`TurnAccounted`, `KeepaliveHeld`, `ReadyIsRemovable`,
  `RemovalEnds`), `ApprovalExtra` (`HiddenMeansAnswered`, `EventsAreApplied`),
  `ComposerExtra` (`NotLockedOut` and types), `ExecutorExtra` (`QuitEnds` and types),
  `CodexExtra`, `WorkflowExtra`, `TranscriptExtra` (types). All hold.
* `EarlyFlush`, `RefusedNotice`, `StaleReader`, `LateEviction`, `FrozenRecipient`,
  `TornNotice`, `LateCancel`, `LostRetry`, `StaleMark`: each ends with a
  counterexample, see below.

Why the bounds are enough. Two invitations of one alias are the fewest in which
an old goroutine meets a younger participant; two aliases are the fewest with a
listener; two turns the fewest in which a late message of one can disturb the
next; a pipe of two lets a fragment follow a flush. Two requests are the fewest
with a queue, two turns of the adapter the fewest in which the state of one can
leak into the next, and one unrelated event the fewest that lets the drain be pending
when the hub records. `SlowStartup` (a keepalive may fall due before startup is
published) is on in the run with one invitation only: with two, the two cleanups
of a failed start (`command_lifecycle.go:77-83`, `97-103`) can drop the runtime
entry of the next incarnation, and the interval of twenty minutes against a
startup of milliseconds makes that combination unreal.

The scripts of `WorkflowFlow` bring each workflow to each of its exits (dispatch
to all, to some and to none; interrupt, edit, discard; crash of a participant;
loop that ends, is cancelled, is refused, runs out of turns) with the other
commands beside it. Two loop turns are the fewest with a repetition, and the
fewest in which the bound on turns is reached. The scripts of `ExecutorLife` are the
ways to stop (Close by a caller, /quit, a signal, the interface ending by itself), each
with calls and events around it. Four keys are the fewest that submit, type, and
submit again; two prompts the fewest in which one replaces another. A history of
two deltas makes `DeltaHistoryLimit` bite within four events.

`IdleMeansFree` is checked without notices and with one invitation: a refused
notice, and an old reader acting on a younger participant, both break it; the
configurations `RefusedNotice` and `StaleReader` show how. `NoProcessLeak` is checked
for one invitation: with two, `StaleReader` and `LateEviction` together leave a
running process behind (the old reader crashes the new participant while its start
is completing, and `/remove` evicts it).

Two invitations are also the most for which `HandleMatches` and `FollowsLifecycle`
hold (`TwiceHandlesMatch`, `TwiceImplementsLifecycle`). With `MaxInvites = 3` in
`SessionReinvite.cfg` TLC refutes both: the reader of the first participant, past its
check of the stop channel, crashes the second while it is starting; `/remove` evicts
it, the alias is invited a third time, and the start goroutine of the second, which
finds its participant by alias, attaches its agent to the third, or its cleanup
withdraws it. It takes a removal, two invitations and an eviction while one reader
stands between two statements.

Deadlock is not checked: after shutdown, with the bounds used up or with a user
who does not type, the system may stop. That nobody waits for ever is stated as
liveness instead (`ShutdownEnds`, `StopCompletes`, `CallsReturn`, `StageSettles`,
`GateOpens`).

### Fairness

* `Session`: the goroutines run when they can (weak fairness of each), `Start`
  returns, and a turn the backend accepted ends, however much output it produces
  first (strong fairness, because a full pipe may disable the step again and
  again). Nothing is assumed about the user, a sweep, a failure, a cancellation.
  `TurnEnds` and `TurnAccounted` leave out turns that ended too early: that is
  `EarlyFlush`.
* `CodexClient`: the workers and the callers run when they can, the process ends the
  turns it began and, once its stdin is closed, exits (`Stop` kills it after the
  grace period). That a user decides an approval is not assumed, except that the
  end of the context decides it.
* `Workflows`: the executor runs when it can (stated without ENABLED: either it
  is not busy infinitely often, or it moves infinitely often), a started turn ends,
  the goroutines of the session notify, a shell program returns.
* `Executor`: some goroutine that can run runs. The bounds leave each only
  finitely many steps, so this is weak fairness of every goroutine; a select takes a
  ready arm, a mutex is handed out, a shell whose context is cancelled is killed.
* `Composer`: the program handles each message and event, and the executor each
  operation. Neither keys nor the session owe anything.
* `Transcript` has safety properties only.

### What the code does not keep

Checked by the runs, and listed as findings with the quoted lines:

1. `WrongPrompt`: the answer to one prompt is sent for the approval that replaced
   it.
2. `LoopMissesIdle`: `retainDispatchTerminalEvent` keeps a stop or a crash that
   arrives while the loop dispatches, and drops the event that the participant became
   idle. If the turn ends before the completion of its dispatch is applied, the loop
   waits for an end that never comes, and its condition is not evaluated.
3. `MixedStreams`: the room finds an open stream by its id alone, and ids are unique
   within one backend only: every echo client counts "echo:turn:N" from 1, every
   Codex client relays notices on one name. Words of one participant are appended
   to a record under the name of another.

Shown by the further configurations:

4. `EarlyFlush`: `Agent.Send` is called before `BeginWorking`, so the flush of a
   fast turn can be read while the participant is preparing; it is lost and the
   participant stays working. The comment of `BeginWorking` claims the race closed.
5. `RefusedNotice`: a notice refused because the listener is in a turn
   (`ErrTurnInProgress`) makes `abortWork` end that turn in the session's books.
6. `StaleReader`: the reader of a removed participant can crash the participant
   invited next under the alias, as it checks the stop channel first and looks the
   alias up afterwards.
7. `LateEviction`: `/remove` takes the lock once to see that there is no stop
   channel and again to evict; if startup completes and the participant crashes in
   between, it evicts a started participant, and nobody stops its agent.
8. `FrozenRecipient`: a broadcast to a recipient selected while it was starting
   sends through a nil handle.
9. `TornNotice`: a notice layered while the worker of the Codex adapter handles
   the end of a turn is reset by that end: the end of one is told as the end of an
   ordinary turn, and the answer to the other is shown as output.
10. `LateCancel`: an interrupt of a stage (`workflow_stage.go:73-104`) asks for one
    cancellation per turn that blocks it; the first may free the barrier, the stage
    is dispatched, and the second cancels the turn the dispatch has just begun.
    `pkg-interpreter.md:180-183` describes cancelling what blocks the stage.
11. `LostRetry`: a message that nobody got comes back to the composer
    (`model_test.go:268-278`) unless its text is that of the dispatch remembered
    last; the memory is cleared by the next acceptance, which the front end may not
    have seen yet (`update.go:175-189`, `259-262`).
12. `StaleMark`: the mark of the handoff source stays on a record whose stream was
    opened again (`room/handoff.go:64`), while `docs/design/handoff-command.md:104-110`
    excludes output that is still streaming, and `:247` has the mark say which
    completed record is the source.

Further observations, not runs.

*Session and adapters.* An agent may be reported started after it was reported
crashed (the reader is launched first); Shutdown closes no stop channel, so readers
report crashes; a participant that is still starting at shutdown is stopped by its
own start goroutine, which finds its runtime entry gone, after `attachParticipant`
has already bound its handle; `Stop` of the Codex adapter closes its channels and is
not idempotent; a failed turn that is no notice ends the adapter's stdout worker, so
the session sees a crash. The comment at `command_lifecycle.go:101` says `/remove`
cannot succeed until the started event fires: the participant is ready before it is
notified, so it can. Removing a started agent that crashed emits no AgentStopped.

*Workflows.* A barrier believes the last event it was told. A late AgentStopped of
an old reader makes a re-invited alias unavailable to it; a late AgentStarted, or an
event that a participant is idle, delivered after the next turn began, opens it early,
and the delivery then fails. A handoff whose barrier includes a participant that a
refused notice has put out of step waits for it until it is interrupted or discarded.
A barrier may open in the middle of a burst whose later events would close it.

*Room.* A late AgentStopped of an old reader takes a re-invited alias from the members
and cuts its stream in two; a late AgentStarted after a removal leaves a member that
is gone; the partial output of a crashed agent is a handoff source after it rejoins.

*Executor.* A snapshot refused at shutdown may be older than operations still being
applied; events recorded while the session shuts down are not applied; the comment of
`Queue.Close` says Pull reports no value afterwards, while its select may return one.

*Interface.* After an answer for the wrong prompt the interface has no active id, and
the answer to the prompt it still shows is rejected. A draft typed while a
planned submission is under way is overwritten by the snapshot of its stage, and one
typed after Ctrl+C on a stage is wiped when the stage ends; text taken back for
editing is dropped if the user has typed before it arrives; Esc frees the composer
before the interpreter has confirmed it, so Enter may send twice; a stage delivered
to nobody loses its text, and so does a rejected submission; the editor's answer
overwrites the text of a stage shown meanwhile; clearing a prompt twice leaves the
composer of a stage editable (`room/model.go:292-306`); a stage that ends behind a
prompt gives the textarea focus while the history has it.

## Proofs

Seven modules prove, from the named assumptions about the constants only, for every
set of aliases, streams and texts and all bounds:

| Theorem | Module | It says |
|---|---|---|
| `TypeCorrect`, `PreparingIsOwned`, `InactiveStaysClean` | `SessionProofs` | types; a preparing participant belongs to a command in progress; no stream or anchor outside a turn |
| `SessionImplementsLifecycle`, `TwiceImplementsLifecycle` | `SessionProofs` | the refinement of `Lifecycle`, if no start goroutine acts on the participant of a later invitation; outright for aliases invited at most twice |
| `HandlesMatch`, `TwiceHandlesMatch` | `SessionProofs` | a delivery goes through the handle of the registered participant, under the same conditions |
| `ReadyIsAlwaysRemovable`, `NoProcessIsLeaked`, `OnceIsSafe` | `SessionProofs` | a started participant can be removed, and every running process has somebody to stop it, if nobody of an earlier invitation still works under the alias; outright for aliases invited once |
| `TurnsAreAccounted`, `IdleIsFree`, `KeepaliveIsHeld`, and `OnceIsAccounted`, `OnceIsFree`, `OnceIsHeld` | `SessionProofs` | a working participant has its end in sight; an idle one has no turn running (without notices); a pinged one is not left behind: under the same condition, and outright for aliases invited once |
| `ApprovalTypes`, `InterpreterKeepsUp`, `HubImplementsDesk` | `ApprovalProofs` | types; the interpreter follows the hub; the refinement of `ApprovalDesk` |
| `TypesHold`, `TurnsAreSingle`, `TurnsEndInKind`, `MaintenanceIsSilent` | `CodexProofs` | types; one turn at a time; the end of a turn is told as what it was; maintenance and notices stay out of what is shown |
| `WordsAreOwn`, `MarksFollow` | `TranscriptProofs` | records hold words of their own author only; mark, cache and scan agree; both if no two backends name a stream alike |
| `ScreenFollowsRoom`, `NoWordIsLost` | `TranscriptProofs` | the screen has every record in its last form and in order; every fragment is in the transcript once and in order: with no condition |
| `UserCanType`, `SentStaysSent`, `GateIsExact` | `ComposerProofs` | a composer in focus takes keys; a message that was delivered to somebody does not come back; the gate is closed exactly while one submission is under way |
| `Invariant`, `TypeCorrect` | `ExecutorProofs` | the inductive invariant; types |
| `NoOutcomeIsLost`, `NoRequestIsDropped`, `NoReadIsStale`, `DoneLeavesNothing` | `ExecutorProofs` | submissions are answered once and in order; an accepted request is answered; a snapshot is as recent as its reader may expect; when the executor is done nothing is left |
| `AnswersOnce`, `DeliveriesAreReported`, `ScreenIsCurrent`, `NothingStranded` | `WorkflowProofs` | each submission is answered once; the report of a dispatch names those who accepted; what the front end shows is current when nothing is on its way; no event stays in the inbox untaken |

*Session.* The inductive invariant is `IInv`: the type invariant, `Named` (a
goroutine exists only for an invitation that was made, and whoever is about to
look a participant up has an alias to look it up by), `RegistryOK` (an invitation
is registered under its own alias only), `PartsOK` (a participant past attaching
has a handle, one at work is ready, and outside a turn there are no streams) and
`PreparingOwned`. `RegistryOK` is needed because an update of one
participant must not be an update of another; `PartsOK` because a late message
finds the participant in any status, and preparing must start from a clean one.

Four properties need to know who acts on whom when an alias is invited again, and each
is proved under a condition on the goroutines of earlier invitations; the condition
is part of the theorem, and a corollary says for which use of the program it always
holds.

* `StartsAlone`: no start goroutine that is still at work has an alias under which
  another participant is registered. The refinement of `Lifecycle` and `HandleMatches`
  hold as long as it does. `Own` (a participant's handle is its own agent, bound by its
  own start goroutine, and it is ready only when that goroutine has made it so) is
  inductive with it, and gives the refinement: a step of anybody changes the phase of
  one alias at a time, and in one of the ways `Lifecycle` has. `Handled` adds what the
  command in progress holds: between preparing and sending it has the registered
  participant, which cannot be removed because the same goroutine executes `/remove`.
  That a broadcast is not sent to recipients frozen earlier is an assumption on
  `Commands` (`FrozenRecipient` shows why).
* `InvitedTwice`: no alias is invited a third time. Then `StartsAlone` holds:
  for a start goroutine to outlive the registration of its participant somebody has to
  crash a participant that is still starting, which takes the reader of an earlier
  invitation, and the alias has to be invited again. With three invitations this
  happens, see *Why the bounds are enough* under Runs.
* `NoStragglers`: while a participant is registered, nobody of another invitation of
  its alias is starting it, reading for it or pinging it. `ReadyIsRemovable` (the
  stop channel in the agents map is the participant's own) and `NoProcessLeak` hold as
  long as it does; `StaleReader` and `LateEviction` are what happens otherwise.
  The invariant is `Watch`: `RuntimeOK` (whose stop channel is in the agents map at each
  place of a start goroutine), `FreshOK` and `Handled`, and `LeakOK`, the property
  with what it needs of a removal or a shutdown in progress (`UnreadyOK`, `StopsOK`,
  `EvictOK`: a participant that has its agent and is not ready still has its start
  goroutine, the snapshot of shutdown misses nobody, an evicted participant had none).
* `InvitedOnce`: no alias is invited twice. Then `NoStragglers` holds.

Three more properties are about what the session believes of a backend, and hold under
`NoStragglers` as well. They share `Sees`, which says how much of an agent (its process,
its task, its pipe, its reader) a step may change, so that a step of anybody else is
dealt with once.

* `TurnAccounted`. `AnchorOK` says that a working participant has an anchor, and
  `QuietOK` that a delivery in progress meets a participant that no other turn can
  belong to. `Accounted` then says where the end of the turn is: with the process or
  in the pipe (`Sent`), or in the hands of the reader (`Reading`). Between the begin of
  the work and the tracking of its anchor one end may be wasted, so until the anchor
  is tracked there must be a second, or a failure (`Sure`). `ClosedOK` keeps the reader
  of a registered participant from being told to stop. The exception `early` is the turn
  whose end came before the participant was marked working (`EarlyFlush`).
* `IdleMeansFree`. `Agrees` relates the status to what the process, the pipe, the reader
  and the pings are doing: nothing (`Rest`), one turn with one end (`Turn`), or one
  ping with one end (`Pinged`). An idle participant is at rest. The theorem is for
  `~ SendNotices`: a notice that the backend refuses ends the turn of the participant
  while the backend goes on with it, which is what `RefusedNotice` shows.
* `KeepaliveHeld` needs less, and holds with notices too: `Held` follows the ping only,
  from the goroutine that sends it to the answer or the refusal, and holds also of a
  participant that looked idle while a turn was still running and whose ping is refused
  for that.

*Approvals.* The inductive invariant is the type invariant, `HubOrder` (the active
request and the queue are in increasing order, the active one first, all of them
asked for and undecided) and `Follows`: what the interpreter knows, with the
inbox applied, is the active request; it never knows a request ahead of the hub,
and the inbox holds later ones only; what it executes is the answer to the one it
knows. The refinement of `ApprovalDesk` needs the order: only the oldest waiting
request is decided.

*Codex adapter.* `IInv` follows a turn from its claim to the message that ends it. `Flow`
says that turns are written one after the other (`Numbered`), that whoever claims the
turn finds the process quiet (`OneClaim`), that all that is left to read is about the last
turn and its end comes last (`Said`), and what the worker holds (`Held`); this part alone
gives `TurnsAreSingle`. The kind of a turn is not in the notifications: the adapter
takes it from the notice, which is under another mutex. `Layered` therefore says when
the notice is the one of the turn: between turns there is none (`Rested`), during the turn
(`Current`) and while its end is handled (`AtEnd`) it is its own, also in what the
worker has captured (`Captured`), and a notice is pending only until the worker reads that
its turn has started (`StartFirst`), which is why an answer is never delivered as
ordinary output. It fails where `torn` is set: a notice was marked while the
end of the turn before was handled, which `TornNotice` shows to happen. For maintenance
it holds without exception (`Sound`), because the session sends nothing to a
participant it pings (`Alone`). `Heard` and `Quiet` are about the messages, and change
only where one is emitted.

*Transcript.* `WordsAreOwn` and `MarksFollow` assume `~ SharedIds`: that two agents never
name their streams alike. The code does not ensure it, and `MixedStreams` shows what happens
without; the theorems say that this is the only thing that is missing. The inductive
invariant is `Good`: every record has the shape its kind asks for (`Shaped`), every
word in it, and every open stream that points to it, belongs to the invitation in
its stream id (`Owned`); the cached source is a record of its alias and carries the one
mark (`CachedAt`); and a scan finds the cached record unless its stream is open
(`Fresh`). Ownership needs the stream ids, because a departure cuts streams by alias
and a fragment finds its record by id: only with both in the invariant does
appending to a record that another handler opened keep the author. `Fresh` needs
`CachedAt`, because the source is recomputed from the cached one, never by a scan.

`ScreenFollowsRoom` and `NoWordIsLost` do not need it. `Screen` says that the screen
holds the records of the room, at strictly increasing places, among notices
(`Follows`), and that streams and departures are those of the room. Each operation of
the room `Reports` what it changed: it appends one record at most, and names as dirty that
one and each it changed. A delta, or the snapshot that is sent when the history of dirty
indices is too short, then brings every place up to date, whatever notices came in
between (`DeltaApplied`). `Heard` is about the words: each is one that was said, those of
a stream are in order, and none of an open stream is after the record the stream
has now, which is why the next one is the last. An operation is `Silent`, it adds no
word and opens no stream, or it `Speaks`, it puts one word at the end of its record.

*Composer.* The inductive invariant is `CInv`: the input area is `Usable` (a composer
in focus is editable, which every operation of `RoomInput` keeps), the failure of
a delivered message is directly preceded by the news of its dispatch in the queue of
events (`Ordered`), and when it is at the head, the front end remembers that
dispatch (`Remembered`). The order is needed because the memory is one text that
the next acceptance clears. `Gate` follows a submission: nowhere, or in exactly one of a
message, an operation and an event (`Idle`, `AsMessage`, `AsOp`, `AsEvent`), and the
gate is closed in the last three. As a message it must be the text the gate awaits,
because `submitToInterpreter` refuses any other and leaves the gate closed. Each
outcome of a submission publishes one answer among its events and everything else
publishes none, which the lemmas about concatenation turn into positions in the queue.

*Executor.* `IInv` has the types, the two properties that concern a single return
(`ReadsAreCurrent`, `AcceptedIsResolved`), and who is where: the mutex has one holder
and closing is begun once (`GateOK`), each goroutine enqueues what is its own
to enqueue (`CallsOK`), the shutdown is the last operation and the barrier of `Flush`
the last event (`ShutdownLast`, `BarrierLast`), the executor's place goes with its
operation (`ExecOK`), the shells have ended before the flush (`ShellsOK`). `AsksOK`
says that a request whose caller waits is in the queue once, with the executor, or
answered, so that a caller that sees the executor gone still finds its answer: the
second look into the channel is what makes this true. `OrderOK` and `FlushOK` are
about a strictly increasing map from the submissions accepted and not applied to
their places in the queue (`Queued`), and from the outcomes published and not
delivered to theirs (`Published`); together with the barrier they give
`OutcomesFlushed`. `ShownOK` and `SeenOK` order what exists: nobody was shown more
than the room has, and nobody may expect more than the room will have when the
request is applied. The shutdown being last is needed almost everywhere: without
it an accepted request could stay behind it.

*Workflows.* The inductive invariant `IInv` has the shapes (`Lists`, `Shapes`,
`Operations`, `Resting`), and five parts that relate the instructions still to run to the state
of the two workflows. `Flight`: a workflow that waits for an answer of the runner has
exactly one instruction or call on its way that will give it, and a workflow that
does not wait has none; without it a late completion could be taken for another.
`Answering`: the answer of a submission was given, or it is in one of three places,
an instruction or the pending flag of the stage or the loop. `Reporting`: the
instructions carry the recipients of the stage they belong to, and those who accepted are
exactly those the next call adds to or the event will name. `Showing`: if what the
front end has is not current, a snapshot is requested or queued, an event is on its
way, or the stage is in a phase that ends in one; planning is special, because it begins
before anything was shown and must be alone in the queue. `Draining`: an inbox that holds
something has a drain requested, and a requested drain is queued or running.

The handlers are pure operators from a state to a state and a sequence of
instructions, so each gets a lemma of its own that says what it did to the answer, the
report and the snapshot (`StageStep`, `Concluded`, `LoopConcluded`), and the lemmas about
actions put the sequence before the rest of the queue. The sequences that a handler builds
participant by participant, and the removal of snapshot requests from a sequence,
are folds over a sequence of given length: what they return is proved by taking the
fold one step at a time. `WorkflowsAssumption` says what a scenario is (what
the user will type, who is there at first, how many may crash), and that `Sorted` lists
aliases without repetition.

Each proof has one lemma per action or group of actions, with one step per conjunct
of the invariant the action can disturb; lemmas about sequences (appending an event,
taking an element out of the queue, concatenating what is published) are stated once.

Every invariant and every safety property of the passing runs is a theorem. Only
model-checked: liveness, `CancelledLeaves`, `NextIsShown` and `RecordedIsApplied`
among it (it needs ENABLED, which the prover does not handle), and `TypeOK` of
`Workflows`, `Composer` and `Transcript`, of which the proofs need less: the shapes
they use are in the inductive invariants. `ReadyIsRemovable` and `KeepaliveHeld` are
proved, and checked by `SessionExtra`.

## Not modelled

* The echo adapter's channel: a development backend; the session's contract (`Session`)
  and the names of its streams (`Transcript`) are what the rest depends on.
* The pump goroutine of `internal/queue`: its users see the FIFO of `Queue`.
* Rendering, wrapping, caret, selection, scrolling, completion, mouse and toolbox:
  functions of one goroutine's state to text.
* The parser of the prompt language: a function of text, whose result is an input here.
  The registry of defined commands is in `Workflows`.
* `linestream`, `config`, `transcript`, the record and replay tools, the flags and
  files of the programs, and the playground: file and process input and output.
* The responses of the Codex process to `turn/start`, which the adapter ignores.

## Plan

1. The echo adapter's channel, and the pump goroutine as an implementation of
   `Queue`.
2. The composition of `Transcript` with the bursts of `Workflows`.
