------------------------------ MODULE Workflows ------------------------------
(***************************************************************************)
(* The serialized executor of the interpreter and its workflows            *)
(* (internal/interpreter): one goroutine pulls operations, and around each *)
(* of them drains the inbox of session events.  An operation and a burst   *)
(* of events become instructions; the instruction runner works through     *)
(* them, feeding completions and further bursts back to the loop and the   *)
(* stage workflow.                                                         *)
(*                                                                         *)
(* Around it: the participants as the session holds them (module Session   *)
(* has the detail; here a delivery is one step), and the goroutines that   *)
(* notify the executor.  A goroutine changes a participant under the lock  *)
(* and notifies afterwards: owed holds the events it has not delivered     *)
(* yet, so the executor can read a participant before it hears of it.      *)
(***************************************************************************)
EXTENDS StageWorkflow, LoopWorkflow, SequencesExt

CONSTANTS
    Sorted,         \* the participants, in the order of their aliases
    Scenarios       \* bound: what the user types and may happen meanwhile

Alias == Range(Sorted)

Op(kind, stmt, a) == [kind |-> kind, stmt |-> stmt, alias |-> a, result |-> "none"]
NoOp      == Op("none", NoStage.stmt, NoAlias)
Drain     == [NoOp EXCEPT !.kind = "drain"]
\* Submissions: a statement that is staged, a loop, a session command, and
\* the rest by kind: shell, def, invoke, who, help, and invalid input.
Staged(stmt) == Op("stage", stmt, NoAlias)
Loop(a)      == Op("loop", NoStage.stmt, a)
Invite(a)    == Op("invite", NoStage.stmt, a)
Removal(a)   == Op("remove", NoStage.stmt, a)
CancelOf(a)  == Op("cancel", NoStage.stmt, a)
Policy       == [NoOp EXCEPT !.kind = "policy"]
Line(kind)   == [NoOp EXCEPT !.kind = kind]
Shell        == Line("shell")
\* Operations on the stage.
Edit       == [NoOp EXCEPT !.kind = "edit"]
Discard    == [NoOp EXCEPT !.kind = "discard"]
Interrupts == [NoOp EXCEPT !.kind = "interrupt"]
ShellDone(kind, r) == [NoOp EXCEPT !.kind = kind, !.result = r]

SessionCommands == {"invite", "remove", "cancel", "policy"}
IsSubmission(o) ==
    o.kind \in {"stage", "loop", "shell", "def", "invoke", "who", "help", "invalid"}
               \cup SessionCommands

\* A scenario: the operations of the user in order, each given at any time;
\* what the participants are before the first; the agents that may crash;
\* whether a backend may refuse a message, whether the send-notices policy is
\* enabled, and whether a turn may leave visible output, or none.  The command
\* that loops evaluate is defined when the scenario says so.
Scenario(typed, first, crashes, refusals, notices, visible) ==
    [typed |-> typed, first |-> first, crashes |-> crashes, refusals |-> refusals,
     notices |-> notices, visible |-> visible, defined |-> TRUE]
Undefined(s) == [s EXCEPT !.defined = FALSE]

\* What the user can ask for.
UserOps ==
    {Staged(stmt) : stmt \in {Send(a) : a \in Alias} \cup {Broadcast}
                             \cup {Handoff(a, b) : a \in Alias, b \in Alias}}
    \cup (UNION {{Loop(a), Invite(a), Removal(a), CancelOf(a)} : a \in Alias})
    \cup {Policy, Edit, Discard, Interrupts}
    \cup {Line(kind) : kind \in {"shell", "def", "invoke", "who", "help", "invalid"}}

ASSUME WorkflowsAssumption ==
    /\ NoAlias \notin Alias
    /\ Sorted \in Seq(Alias) /\ IsInjective(Sorted)
    /\ Scenarios \subseteq
           [typed : Seq(UserOps), crashes : Nat,
            first : [DOMAIN Sorted -> {"absent", "starting", "idle", "working"}],
            refusals : BOOLEAN, notices : BOOLEAN, visible : SUBSET BOOLEAN,
            defined : BOOLEAN]

VARIABLES
    \* the session
    part,          \* alias -> status, ready and turn; "absent" is not registered
    owed,          \* alias -> events its goroutine has yet to deliver
    leaving,       \* alias -> those of the reader of a removed incarnation
    lastTurnID,
    \* sessionEventInbox and the operation queue
    inbox, drainPending, ops,
    \* the executor goroutine
    pc, op,
    running,       \* instructionRunner.Run is active
    queue,         \* its items
    snapshotRequested,
    call,          \* the session request under way
    \* the model
    stage, loop,
    sources,       \* members of the room with completed visible output
    commands,      \* the command registry holds the command
    shells,        \* shell goroutines: of the loop, of the user
    \* what the front end has been told
    shown,         \* the stage in the last snapshot
    fresh,         \* the last snapshot shows the participants as they are
    answers,       \* answers to the submission being applied, 1 when there is none
    \* history
    got,           \* who accepted a dispatch of the stage not reported yet
    scene          \* what is left of the scenario

session  == <<part, owed, leaving, lastTurnID>>
mailbox  == <<inbox, drainPending, ops>>
runner   == <<running, queue, snapshotRequested>>
model    == <<stage, loop, sources, commands>>
frontEnd == <<answers, got>>

others   == <<session, mailbox, pc, op, runner, call, model, shells, frontEnd, scene>>
vars     == <<others, shown, fresh>>

-----------------------------------------------------------------------------
(* State *)

\* Participants in the order of their aliases.
InOrder(them) ==
    LET next(seq, a) == IF a \in them THEN Append(seq, a) ELSE seq
    IN  FoldLeft(next, <<>>, Sorted)

View(s) == [status |-> s, ready |-> s \in {"idle", "working"},
            turn |-> IF s = "working" THEN 1 ELSE 0]
Present(a) == part[a].status # "absent"
Known      == {a \in Alias : Present(a)}

NoCall == [ref |-> NoRef, kind |-> "none", direct |-> NoAlias, todo |-> {},
           idle |-> {}, from |-> NoAlias, err |-> FALSE, delivered |-> {},
           recorded |-> FALSE, routing |-> {}]

Init ==
    /\ scene \in Scenarios
    /\ part = [a \in Alias |-> View(scene.first[CHOOSE k \in DOMAIN Sorted : Sorted[k] = a])]
    /\ owed = [a \in Alias |-> <<>>] /\ leaving = owed
    /\ lastTurnID = 1
    /\ inbox = <<>> /\ drainPending = FALSE /\ ops = <<>>
    /\ pc = "pull" /\ op = NoOp
    /\ running = FALSE /\ queue = <<>> /\ snapshotRequested = FALSE
    /\ call = NoCall
    /\ stage = NoStage /\ loop = NoLoop /\ commands = scene.defined
    /\ \E visible \in scene.visible : sources = {a \in Alias : visible /\ part[a].ready}
    /\ shells = {}
    /\ shown = NoStage /\ fresh = TRUE /\ answers = 1 /\ got = {}

\* The stage does not change: HandleEvent and the rest are asked of it.
Keep(step) == /\ stage' = step.stage /\ UNCHANGED <<loop, commands>>

-----------------------------------------------------------------------------
(* sessionEventInbox.Record and recordSessionEvent: the event goes to the    *)
(* inbox, and one drain operation is pending at a time.                      *)

Notify(events) ==
    /\ inbox' = inbox \o events
    /\ drainPending' = (drainPending \/ events # <<>>)
    /\ ops' = IF events # <<>> /\ ~drainPending THEN Append(ops, Drain) ELSE ops

-----------------------------------------------------------------------------
(* Steps of the executor that neither read nor write what the other          *)
(* goroutines share commute with theirs.  Once the executor stands before    *)
(* one, nobody else moves first: Shared says that it does not.               *)

Private == {"publish", "append", "requestSnapshot", "burst", "planDone",
            "participantsDone", "sourceDone", "sessionDone", "commandDone", "rosterDone"}

Shared ==
    /\ call = NoCall /\ running /\ queue = <<>> => snapshotRequested
    /\ call = NoCall /\ running /\ queue # <<>> => Head(queue).do \notin Private
    /\ ~running => pc # "op" /\ (pc = "pull" => ops = <<>>)

-----------------------------------------------------------------------------
(* The goroutines of the session *)

Quiet == UNCHANGED <<mailbox, pc, op, runner, call, model, shells, frontEnd>>

\* A goroutine delivers the next event it owes.
Deliver(a) ==
    /\ Shared /\ owed[a] # <<>>
    /\ owed' = [owed EXCEPT ![a] = Tail(@)]
    /\ Notify(<<Head(owed[a])>>)
    /\ UNCHANGED <<part, leaving, lastTurnID, pc, op, runner, call, model, shells, frontEnd,
                   scene>>

\* The reader of a removed incarnation, whose last event is AgentStopped.
DeliverLast(a) ==
    /\ Shared /\ leaving[a] # <<>>
    /\ leaving' = [leaving EXCEPT ![a] = Tail(@)]
    /\ Notify(<<Head(leaving[a])>>)
    /\ UNCHANGED <<part, owed, lastTurnID, pc, op, runner, call, model, shells, frontEnd,
                   scene>>

Become(a, s, events) ==
    /\ Shared /\ owed[a] = <<>>
    /\ part' = [part EXCEPT ![a].status = s]
    /\ owed' = [owed EXCEPT ![a] = events]
    /\ UNCHANGED <<leaving, lastTurnID>>
    /\ Quiet

\* startInvitedAgent: attach and commitStarted, then, once the change was
\* announced, SessionReady and AgentStarted.
CommitStarted(a) ==
    /\ part[a].status = "starting"
    /\ Become(a, "idle", <<StatusChanged(a, "idle")>>)
    /\ UNCHANGED scene

SessionReadied(a) ==
    /\ part[a].status = "idle" /\ ~part[a].ready
    /\ Shared /\ owed[a] = <<>>
    /\ part' = [part EXCEPT ![a].ready = TRUE]
    /\ owed' = [owed EXCEPT ![a] = <<AgentStarted(a)>>]
    /\ UNCHANGED <<leaving, lastTurnID, scene>>
    /\ Quiet

\* handleAgentMessage, at the end of a turn: markIdle, then the message.
EndTurn(a) ==
    /\ part[a].status = "working"
    /\ \E visible \in scene.visible :
           Become(a, "idle", <<StatusChanged(a, "idle"),
                               TurnCompleted(a, part[a].turn, visible)>>)
    /\ UNCHANGED scene

\* handleAgentReadError of a process that died, or a failed start.
AgentDies(a) ==
    /\ scene.crashes > 0 /\ part[a].status \notin {"absent", "crashed"}
    /\ part[a].status = "idle" => part[a].ready
    /\ Become(a, "crashed", <<StatusChanged(a, "crashed"), AgentCrashed(a)>>)
    /\ scene' = [scene EXCEPT !.crashes = @ - 1]

-----------------------------------------------------------------------------
(* The front end *)

Enqueue(o) ==
    /\ Shared
    /\ ops' = Append(ops, o)
    /\ UNCHANGED <<session, inbox, drainPending, pc, op, runner, call, model, frontEnd>>

\* Interpreter.Submit, TakeStageForEdit, DiscardStage, InterruptAndDispatchStage.
UserTypes ==
    /\ scene.typed # <<>>
    /\ Enqueue(Head(scene.typed))
    /\ scene' = [scene EXCEPT !.typed = Tail(@)]
    /\ UNCHANGED shells

\* startWorkflowShell, startShell: the goroutine runs the program and
\* enqueues its result.
ShellEnds(kind) ==
    /\ kind \in shells
    /\ shells' = shells \ {kind}
    /\ \E r \in {"success", "failure", "cancelled"} : Enqueue(ShellDone(kind, r))
    /\ UNCHANGED scene

-----------------------------------------------------------------------------
(* The workflow collection and the model *)

\* workflowCollection.applySessionEvent and model.ApplySessionEvent: the loop
\* before the stage, and a snapshot for every event.
Fold(world, event) ==
    LET l == LoopEvent(world.loop, event)
        s == HandleEvent(world.stage, event)
        a == event.alias
    IN  [loop |-> l.loop, stage |-> s.stage,
         seq  |-> world.seq \o l.seq \o s.seq \o <<RequestSnapshot>>,
         sources |-> CASE event.kind \in {"stopped", "crashed"} -> world.sources \ {a}
                       [] event.kind = "message" /\ event.visible ->
                              world.sources \cup {a}
                       [] OTHER -> world.sources]

\* instructionRunner.ApplySessionEvents.
ApplyEvents(events) ==
    FoldLeft(Fold, [loop |-> loop, stage |-> stage, sources |-> sources, seq |-> <<>>],
             events)

Applied(world) ==
    /\ loop' = world.loop /\ stage' = world.stage /\ sources' = world.sources
    /\ UNCHANGED commands

\* materializeSnapshot: one publication, after everything else.
Materialize(seq) ==
    LET keep(result, i) == IF i.do = "requestSnapshot" THEN result ELSE Append(result, i)
    IN  FoldLeft(keep, <<>>, seq)
        \o (IF \E k \in DOMAIN seq : seq[k].do = "requestSnapshot"
            THEN <<PublishSnapshot>> ELSE <<>>)

-----------------------------------------------------------------------------
(* The executor goroutine *)

Idle == ~running /\ call = NoCall

\* Run(seq).
Run(seq) == /\ running' = TRUE /\ queue' = seq /\ snapshotRequested' = FALSE

NotRunning == UNCHANGED <<session, call, shells, frontEnd, scene>>

\* The first half of run: the loop that empties the inbox before the operation
\* is left to TakeEvents; the one after it is that of the next operation, and
\* a pending drain is the next operation when there is no other.
Pull ==
    /\ pc = "pull" /\ Idle /\ ops # <<>>
    /\ op' = Head(ops) /\ ops' = Tail(ops)
    /\ pc' = IF Head(ops).kind = "drain" THEN "drain" ELSE "before"
    /\ UNCHANGED <<inbox, drainPending, runner, model>> /\ NotRunning

\* Faulty variant: the marker of the pending drain is not cleared.
TakeEventsSticky ==
    /\ pc \in {"before", "drain"} /\ Idle
    /\ inbox' = <<>>
    /\ LET world == ApplyEvents(inbox) IN
       IF inbox # <<>> THEN Applied(world) /\ Run(world.seq) /\ UNCHANGED pc
       ELSE /\ UNCHANGED <<runner, model>>
            /\ pc' = IF pc = "drain" THEN "pull" ELSE "op"
    /\ UNCHANGED <<drainPending, ops, op>> /\ NotRunning

\* applySessionEvents and drainSessionEvents: run what the inbox holds until
\* it is empty; a drain then clears its marker, in the same critical section.
TakeEvents ==
    /\ pc \in {"before", "drain"} /\ Idle
    /\ inbox' = <<>>
    /\ LET world == ApplyEvents(inbox) IN
       IF inbox # <<>>
       THEN Applied(world) /\ Run(world.seq) /\ UNCHANGED <<pc, drainPending>>
       ELSE /\ UNCHANGED <<runner, model>>
            /\ drainPending' = (drainPending /\ pc # "drain")
            /\ pc' = IF pc = "drain" THEN "pull" ELSE "op"
    /\ UNCHANGED <<ops, op>> /\ NotRunning

\* submitCommandDefinition: a name is defined once.
DefineSequence ==
    AcceptedInput \o (IF commands THEN <<Publish("failed")>>
                      ELSE <<AppendRecord, PublishSnapshot, Publish("succeeded")>>)

\* submitCommandInvocation, submitShell.
InvokeSequence ==
    IF commands THEN AcceptedInput \o <<StartUserShell>> ELSE <<Publish("unknown")>>
ShellSequence == AcceptedInput \o <<StartUserShell>>

WhoSequence  == AcceptedInput \o <<ReadRoster>>
HelpSequence == AcceptedInput \o <<PublishSnapshot, Publish("help"), Publish("succeeded")>>

\* The statements that need no workflow.
CommandSequence(o) ==
    CASE o.kind = "invalid"           -> <<Publish("rejected")>>
      [] o.kind \in SessionCommands   -> AcceptedInput \o <<ExecuteCommand(o)>>
      [] o.kind = "shell"             -> ShellSequence
      [] o.kind = "invoke"            -> InvokeSequence
      [] o.kind = "def"               -> DefineSequence
      [] o.kind = "who"               -> WhoSequence
      [] o.kind = "help"              -> HelpSequence

\* submitOperation: rejected while a stage is pending.
ApplySubmission ==
    /\ pc = "op" /\ Idle /\ IsSubmission(op)
    /\ IF Pending(stage)
       THEN Run(<<Publish("rejected")>>) /\ UNCHANGED <<stage, loop, commands>>
       ELSE CASE op.kind = "stage" -> LET s == Start(op.stmt) IN Keep(s) /\ Run(s.seq)
              [] op.kind = "loop"  -> LET l == StartLoop(loop, op.alias, commands)
                                      IN /\ loop' = l.loop /\ UNCHANGED <<stage, commands>>
                                         /\ Run(l.seq)
              [] OTHER -> /\ Run(CommandSequence(op))
                          /\ commands' = (commands \/ op.kind = "def")
                          /\ UNCHANGED <<stage, loop>>
    /\ answers' = 0
    /\ pc' = "pull" /\ op' = NoOp
    /\ UNCHANGED <<sources, mailbox, session, call, shells, got, scene>>

\* Faulty variant: a discarded stage stays on the screen.
ApplyUserOpSilent ==
    /\ pc = "op" /\ Idle /\ op.kind \in {"edit", "discard", "interrupt"}
    /\ stage' = NoStage /\ UNCHANGED <<loop, commands>> /\ Run(<<>>)
    /\ pc' = "pull" /\ op' = NoOp
    /\ UNCHANGED <<sources, mailbox>> /\ NotRunning

\* takeStageForEdit-, discardStage- and interruptAndDispatchStageOperation.
ApplyUserOp ==
    /\ pc = "op" /\ Idle /\ op.kind \in {"edit", "discard", "interrupt"}
    /\ IF op.kind = "interrupt"
       THEN IF CanInterrupt(stage)
            THEN LET s == Interrupt(stage, InOrder(Interruptible(stage)))
                 IN  Keep(s) /\ Run(s.seq)
            ELSE UNCHANGED <<stage, loop, commands>> /\ Run(<<>>)
       ELSE IF Pending(stage)
            THEN Keep(Abandon(stage)) /\ Run(Abandon(stage).seq)
            ELSE UNCHANGED <<stage, loop, commands>> /\ Run(<<>>)
    /\ pc' = "pull" /\ op' = NoOp
    /\ UNCHANGED <<sources, mailbox>> /\ NotRunning

\* workflowShellCompletedOperation and shellCompletedOperation.
ApplyShell ==
    /\ pc = "op" /\ Idle /\ op.kind \in {"loopShell", "userShell"}
    /\ IF op.kind = "loopShell"
       THEN LET l == LoopShellDone(loop, op.result)
            IN  loop' = l.loop /\ Run(l.seq)
       ELSE /\ UNCHANGED loop
            /\ Run(<<AppendRecord, Publish("shellCompleted"), PublishSnapshot>>)
    /\ pc' = "pull" /\ op' = NoOp
    /\ UNCHANGED <<stage, sources, commands, mailbox>> /\ NotRunning

-----------------------------------------------------------------------------
(* The instruction runner *)

Current == Head(queue)
Running(what) == running /\ call = NoCall /\ queue # <<>> /\ Current.do \in what

Replace(items) == queue' = items \o Tail(queue)

Still == UNCHANGED <<pc, op, running>>

\* refreshSnapshot, and its publication.
Show(published) ==
    /\ shown' = IF published THEN StageSnapshot(stage) ELSE shown
    /\ fresh' = (fresh \/ published)

\* The end of Run: one snapshot when an item asked for it.
EndRun ==
    /\ running /\ queue = <<>> /\ call = NoCall
    /\ running' = FALSE /\ snapshotRequested' = FALSE
    /\ Show(snapshotRequested)
    /\ UNCHANGED <<pc, op, queue, session, mailbox, call, model, shells, frontEnd, scene>>

IsPublish(i, what) == i.do = "publish" /\ i.what \in what

\* applyStateInstruction.
Tell ==
    /\ Running({"publish", "append", "requestSnapshot", "publishSnapshot"})
    /\ Replace(<<>>)
    /\ snapshotRequested' = (snapshotRequested \/ Current.do = "requestSnapshot")
    /\ Show(Current.do = "publishSnapshot")
    /\ answers' = IF IsPublish(Current, {"succeeded", "failed", "rejected", "unknown"})
                  THEN answers + 1 ELSE answers
    /\ got' = IF IsPublish(Current, {"dispatched"}) THEN {} ELSE got
    /\ Still
    /\ UNCHANGED <<session, mailbox, call, model, shells, scene>>

\* applyExecutionInstruction, for the instructions that only read: planShared,
\* planBroadcast, readParticipants, readRoster and readSource.
Read ==
    /\ Running({"planShared", "planBroadcast", "readParticipants", "readSource", "readRoster"})
    /\ LET live == {a \in Known : part[a].status # "crashed"} IN
       Replace(<<CASE Current.do = "planShared" ->
                          PlanDone({Current.alias} \cup (IF scene.notices THEN live ELSE {}))
                   [] Current.do = "planBroadcast"    -> PlanDone(live)
                   [] Current.do = "readParticipants" ->
                          ParticipantsDone([a \in Known |-> part[a]])
                   [] Current.do = "readRoster" -> RosterDone
                   [] Current.do = "readSource" -> SourceDone(Current.alias \in sources)>>)
    /\ Still
    /\ UNCHANGED <<snapshotRequested, session, mailbox, call, model, shells, frontEnd, scene>>

\* A completion goes to its workflow, whose instructions come next.
Complete ==
    /\ Running({"planDone", "participantsDone", "sourceDone", "sessionDone", "commandDone",
                "rosterDone"})
    /\ LET ours == CASE Current.do = "planDone"  -> HandlePlan(stage, Current.targets)
                     [] Current.do = "participantsDone" ->
                            HandleParticipants(stage, Current.barrier)
                     [] Current.do = "sourceDone" -> HandleSource(stage, Current.ok)
                     [] Current.do = "sessionDone" /\ Current.ref.kind = "stage" ->
                            HandleSessionDone(stage, Current)
                     [] OTHER -> Ignore(stage)
           theirs == IF Current.do = "sessionDone" /\ Current.ref.kind = "loop"
                     THEN LoopSessionDone(loop, Current) ELSE LoopIgnore(loop)
           answer == CASE Current.do = "commandDone" ->
                            <<PublishSnapshot,
                              Publish(IF Current.ok THEN "succeeded" ELSE "failed")>>
                       [] Current.do = "rosterDone" ->
                            <<PublishSnapshot, Publish("roster"), Publish("succeeded")>>
                       [] OTHER -> <<>>
       IN  /\ stage' = ours.stage /\ loop' = theirs.loop
           /\ Replace(ours.seq \o theirs.seq \o answer)
    /\ Still
    /\ UNCHANGED <<snapshotRequested, sources, commands, session, mailbox, call, shells,
                   frontEnd, scene>>

\* The whole burst is projected before any instruction derived from it runs.
Project ==
    /\ Running({"burst"})
    /\ LET world == ApplyEvents(Current.events) IN
       Applied(world) /\ Replace(world.seq)
    /\ Still
    /\ UNCHANGED <<snapshotRequested, session, mailbox, call, shells, frontEnd, scene>>

\* startShellInstruction, startUserShellInstruction.
LaunchShell ==
    /\ Running({"startShell", "startUserShell"})
    /\ Replace(<<>>)
    /\ shells' = shells \cup {IF Current.do = "startShell" THEN "loopShell" ELSE "userShell"}
    /\ answers' = answers + (IF Current.do = "startUserShell" THEN 1 ELSE 0)
    /\ Still
    /\ UNCHANGED <<snapshotRequested, session, mailbox, call, model, got, scene>>

Cancellable(p) == p.ready /\ (p.status = "idle" \/ HasActiveTurn(p))

Executing(kinds) == Running({"command"}) /\ Current.command.kind \in kinds

\* executeCommand: the events of the command are applied, with what was in the
\* inbox, and their instructions come before the completion.
Executed(ok, now) ==
    LET world == ApplyEvents(inbox \o now)
    IN  /\ Applied(world)
        /\ inbox' = <<>>
        /\ drainPending' = (drainPending \/ now # <<>>)
        /\ ops' = IF now # <<>> /\ ~drainPending THEN Append(ops, Drain) ELSE ops
        /\ Replace(Materialize(world.seq) \o <<CommandDone(ok)>>)
        /\ Still
        /\ UNCHANGED <<snapshotRequested, lastTurnID, call, shells, frontEnd>>

\* RemoveCommand: detach the participant, whose reader will announce that it
\* stopped.  One that is starting is not removed, the reader of one that
\* crashed has left, and one that never started is announced here.
ExecuteRemoval ==
    /\ Executing({"remove"})
    /\ LET a     == Current.command.alias
           p     == part[a]
           gone  == IsRemovable(p)
           now   == IF gone /\ p.status = "crashed" /\ ~p.ready
                    THEN <<AgentStopped(a)>> ELSE <<>>
           later == IF gone /\ p.status # "crashed" THEN <<AgentStopped(a)>> ELSE <<>>
       IN  /\ part' = IF gone THEN [part EXCEPT ![a] = View("absent")] ELSE part
           /\ leaving' = IF gone THEN [leaving EXCEPT ![a] = @ \o owed[a] \o later]
                                 ELSE leaving
           /\ owed' = IF gone THEN [owed EXCEPT ![a] = <<>>] ELSE owed
           /\ Executed(gone, now)
    /\ UNCHANGED scene

\* InviteCommand: the participant is registered and its start announced.
ExecuteInvite ==
    /\ Executing({"invite"})
    /\ LET a  == Current.command.alias
           ok == ~Present(a)
       IN  /\ part' = IF ok THEN [part EXCEPT ![a] = View("starting")] ELSE part
           /\ Executed(ok, IF ok THEN <<StatusChanged(a, "starting")>> ELSE <<>>)
    /\ UNCHANGED <<owed, leaving, scene>>

\* CancelCommand asks the agent to end its turn; EnablePolicyCommand.
ExecuteOther ==
    /\ Executing({"cancel", "policy"})
    /\ \E ok \in BOOLEAN :
           /\ IF Current.command.kind = "policy" \/ Cancellable(part[Current.command.alias])
              THEN ok \/ (scene.refusals /\ Current.command.kind = "cancel")
              ELSE ~ok
           /\ Executed(ok, <<>>)
    /\ scene' = [scene EXCEPT !.notices = @ \/ Current.command.kind = "policy"]
    /\ UNCHANGED <<part, owed, leaving>>

-----------------------------------------------------------------------------
(* executeSession: the request is executed, recipient by recipient, then its  *)
(* events, its records and its completion become items.                       *)

BeginCall ==
    /\ Running({"execute"})
    /\ Replace(<<>>)
    /\ LET r == Current.request
           new == [NoCall EXCEPT !.ref = Current.ref, !.kind = r.kind,
                                 !.recorded = Current.recorded, !.routing = Current.routing]
           rest == {a \in Known \ {r.direct} : scene.notices /\ part[a].status # "crashed"}
       IN  call' = CASE r.kind = "planShared" ->
                            [new EXCEPT !.kind = "shared", !.direct = r.direct, !.todo = rest]
                     [] r.kind = "broadcast" -> [new EXCEPT !.todo = r.others]
                     [] r.kind = "shared"  ->
                            [new EXCEPT !.direct = r.direct, !.todo = r.others]
                     [] r.kind = "cancel"  -> [new EXCEPT !.direct = r.direct]
                     [] r.kind = "handoff" ->
                            [new EXCEPT !.direct = r.direct, !.idle = r.others,
                                        !.from = stage.stmt.from]
    /\ Still
    /\ UNCHANGED <<snapshotRequested, session, mailbox, model, shells, frontEnd, scene>>

Calling == running /\ call # NoCall

\* The addressed participant goes first, the others in the order of their aliases.
Recipient(a) ==
    IF call.direct # NoAlias THEN a = call.direct
    ELSE \E k \in DOMAIN Sorted :
             /\ Sorted[k] = a /\ a \in call.todo
             /\ \A j \in 1 .. (k - 1) : Sorted[j] \notin call.todo

CallStep ==
    UNCHANGED <<runner, pc, op, model, shells, answers, scene>>

\* The executor notifies what it does itself, without delay.
Accepted(a, events) ==
    /\ part' = [part EXCEPT ![a].status = "working", ![a].turn = lastTurnID + 1]
    /\ lastTurnID' = lastTurnID + 1
    /\ Notify(<<StatusChanged(a, "preparing"), StatusChanged(a, "working")>> \o events)
    /\ UNCHANGED <<owed, leaving>>

\* A handoff is between two: both are named when it is reported.
GotIt(a) ==
    got' = IF call.ref # Ref("stage", "dispatch") THEN got
           ELSE got \cup {a} \cup (IF call.kind = "handoff" THEN {call.from} ELSE {})

\* A notice to a listener may be layered on its running turn.
Layered(a)  == call.kind = "shared" /\ call.direct = NoAlias /\ HasActiveTurn(part[a])
CanTake(a)  == part[a].ready /\ (part[a].status = "idle" \/ Layered(a))
BarrierIdle == \A b \in call.idle : Present(b) => part[b].status = "idle"

\* prepareParticipantForWork, Send and beginParticipantWorking, for the
\* addressed participant or the next recipient; sendSharedNotices on top of a
\* running turn.
SendTurn(a) ==
    /\ Calling /\ call.kind # "cancel" /\ Recipient(a)
    /\ CanTake(a) /\ BarrierIdle
    /\ IF Layered(a) THEN UNCHANGED <<session, mailbox>>
       ELSE Accepted(a, IF call.kind = "handoff" THEN <<ContextHandoff(call.from, a)>>
                                                 ELSE <<>>)
    /\ GotIt(a)
    /\ call' = [call EXCEPT !.direct = NoAlias, !.todo = @ \ {a},
                            !.delivered = @ \cup {a}]
    /\ CallStep

\* The participant cannot take the message, the barrier of the handoff is not
\* idle, or the backend refuses; abortWork then ends the turn a notice was
\* layered on.  A direct send that fails reaches nobody.
SendFails(a) ==
    /\ Calling /\ call.kind # "cancel" /\ Recipient(a)
    /\ scene.refusals \/ ~CanTake(a) \/ ~BarrierIdle
    /\ call' = [call EXCEPT !.direct = NoAlias, !.err = TRUE,
                            !.todo = IF call.direct = NoAlias THEN @ \ {a} ELSE {}]
    /\ IF Layered(a) /\ part[a].ready
       THEN /\ part' = [part EXCEPT ![a].status = "idle"]
            /\ Notify(<<StatusChanged(a, "idle")>>)
            /\ UNCHANGED <<owed, leaving, lastTurnID>>
       ELSE UNCHANGED <<session, mailbox>>
    /\ UNCHANGED got
    /\ CallStep

\* CancelCommand: the agent is asked to end its turn.
Cancel ==
    /\ Calling /\ call.kind = "cancel" /\ call.direct # NoAlias
    /\ \E ok \in BOOLEAN :
           /\ IF Cancellable(part[call.direct]) THEN ok \/ scene.refusals ELSE ~ok
           /\ call' = [call EXCEPT !.direct = NoAlias, !.err = ~ok]
    /\ UNCHANGED <<session, mailbox, got>>
    /\ CallStep

\* The request returns: its events are taken, and the completion follows them.
EndCall ==
    /\ Calling /\ call.direct = NoAlias /\ call.todo = {}
    /\ LET ok == ~call.err IN
       queue' = (IF ok /\ call.recorded THEN <<AppendInput(call.routing)>> ELSE <<>>)
                \o <<Burst(inbox), SessionDone(call.ref, call.err, call.delivered,
                                               ok /\ call.recorded)>>
                \o queue
    /\ inbox' = <<>>
    /\ call' = NoCall
    /\ UNCHANGED <<session, drainPending, ops, pc, op, running, snapshotRequested, model,
                   shells, frontEnd, scene>>

-----------------------------------------------------------------------------
(* Specification *)

Agents(a) == CommitStarted(a) \/ SessionReadied(a) \/ EndTurn(a)

Publishing == EndRun \/ Tell

Working ==
    \/ Pull \/ TakeEvents
    \/ ApplySubmission \/ ApplyUserOp \/ ApplyShell
    \/ Read \/ Complete \/ Project \/ LaunchShell
    \/ ExecuteRemoval \/ ExecuteInvite \/ ExecuteOther
    \/ BeginCall \/ Cancel \/ EndCall
    \/ \E a \in Alias : SendTurn(a) \/ SendFails(a)

\* A change of a participant outdates the snapshot.
Outdate == fresh' = (fresh /\ part' = part) /\ UNCHANGED shown

Executor   == Publishing \/ (Working /\ Outdate)
Runs(a)    == Agents(a) /\ Outdate
Notices(a) == (Deliver(a) \/ DeliverLast(a)) /\ Outdate
Finishes   == (\E kind \in {"loopShell", "userShell"} : ShellEnds(kind)) /\ Outdate

Next ==
    \/ Executor
    \/ \E a \in Alias : Runs(a) \/ Notices(a) \/ (AgentDies(a) /\ Outdate)
    \/ (UserTypes /\ Outdate)
    \/ Finishes

Spec == Init /\ [][Next]_vars

\* The executor and the goroutines of the session are scheduled, a started
\* turn ends and a shell program returns; nobody has to type anything.
Busy == running \/ pc # "pull" \/ ops # <<>>

Fairness ==
    /\ []<>~Busy \/ []<><<Executor>>_vars
    /\ WF_vars(Finishes)
    /\ \A a \in Alias : WF_vars(Runs(a)) /\ WF_vars(Notices(a))

FairSpec == Spec /\ Fairness

-----------------------------------------------------------------------------
(* Properties *)

TypeOK ==
    /\ \A a \in Alias : /\ part[a].status \in Status \cup {"absent"}
                        /\ part[a].turn \in 0 .. lastTurnID
    /\ pc \in {"pull", "before", "drain", "op"}
    /\ stage.phase \in StagePhases \cup {"none"}
    /\ loop.phase \in LoopPhases \cup {"none"} /\ loop.turns \in 0 .. MaxLoopTurns
    /\ sources \subseteq Alias /\ shells \subseteq {"loopShell", "userShell"}

\* Each submission is answered once: when the executor has applied it, exactly
\* one success, failure or rejection was published, and nothing that happens
\* to the stage or the loop later answers it again.
AnsweredOnce == answers \in {0, 1} /\ (Idle => answers = 1)

\* Everybody who accepted the staged input is named by the event that reports
\* its dispatch, and nobody else: a send that fails for some recipients is
\* reported for the others only.
ReportsDeliveries ==
    /\ Idle => got = {}
    /\ running /\ queue # <<>> /\ IsPublish(Head(queue), {"dispatched"})
           => got # {} /\ Head(queue).routing = got

\* What the front end was shown last is current whenever nothing is on its way.
ShownIsCurrent ==
    (/\ ~Busy /\ inbox = <<>>
     /\ \A a \in Alias : owed[a] = <<>> /\ leaving[a] = <<>>)
        => fresh /\ shown = StageSnapshot(stage)

\* An event is not left in the inbox with nobody to take it: when the executor
\* has nothing under way and nothing queued, every event was taken.
NoStrandedEvent == inbox # <<>> => Busy \/ call # NoCall

\* The turns an interrupt cancels are those the stage waits for: none of its
\* requests is made after the stage was dispatched.
CancelsBeforeDispatch == call.kind = "cancel" => stage.phase = "waiting"

\* A staged input does not wait for ever: its barrier opens, or it is given up.
StageSettles == Pending(stage) ~> ~Pending(stage)

\* A loop that sent its prompt evaluates its condition once the turn is over,
\* or ends with its participant.
LoopEvaluates == loop.phase = "waiting" ~> loop.phase # "waiting"
=============================================================================
