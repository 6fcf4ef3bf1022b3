------------------------------- MODULE Composer -------------------------------
(***************************************************************************)
(* The terminal front end (internal/ui): one Bubble Tea program that       *)
(* handles keys, messages of the commands it started, and the events of    *)
(* the interpreter.  Commands run on goroutines of their own, so their     *)
(* messages arrive in any order; events arrive in the order published.     *)
(*                                                                         *)
(* The interpreter is modelled by what the front end sees of it: a queue   *)
(* of operations applied one at a time, each with the events it publishes. *)
(* Module Workflows has the detail, and shows that each submission gets    *)
(* exactly one answer.                                                     *)
(***************************************************************************)
EXTENDS RoomInput, SequencesExt, BagsExt, FiniteSets

CONSTANTS
    Messages,       \* texts that parse as a send, a broadcast or a handoff
    Commands,       \* any other text, valid or not
    UIOnly,         \* debug statements, which the front end executes itself
    EditorTexts,    \* bound: what the external editor may answer with
    MaxKeys,        \* bound: keys pressed
    MaxPrompts      \* bound: approvals requested

Texts == Messages \cup Commands \cup UIOnly

ASSUME ComposerAssumption ==
    /\ NoText \notin Texts
    /\ Messages \cap Commands = {} /\ UIOnly \cap (Messages \cup Commands) = {}
    /\ EditorTexts \subseteq Texts \cup {NoText}
    /\ {MaxKeys, MaxPrompts} \subseteq Nat

VARIABLES
    room,       \* room.Model
    ui,         \* ui.Model: the submission gate, and the stage and approval presented
    cmds,       \* bag of commands under way, and of their messages
    ops,        \* operations the interpreter has accepted
    stage,      \* the raw text of its staged submission
    approval,   \* the ID of its approval, 0 for none
    closed,     \* it accepts no more operations
    events,     \* published, not yet handled
    keys, prompts       \* left of the bounds

interp == <<stage, approval, closed>>
bounds == <<keys, prompts>>
vars   == <<room, ui, cmds, ops, interp, events, bounds>>

-----------------------------------------------------------------------------
(* Commands and messages; operations; events *)

Msg(do)         == [do |-> do, raw |-> NoText, ok |-> FALSE]
SubmitMsg(raw)  == [Msg("submit") EXCEPT !.raw = raw]
EditorMsg(raw)  == [Msg("editor") EXCEPT !.raw = raw]
TakenMsg(raw, ok) == [do |-> "taken", raw |-> raw, ok |-> ok]
StageMsgs == {Msg(do) : do \in {"stagedEdit", "stagedClear", "stagedInterrupt"}}
CallMsgs  == {Msg(do) : do \in {"take", "discard", "interrupt"}}
PromptMsgs == {Msg(do) : do \in {"answer", "decide"}}
Msgs == {SubmitMsg(raw) : raw \in Texts} \cup {EditorMsg(raw) : raw \in EditorTexts}
        \cup {TakenMsg(raw, TRUE) : raw \in Texts} \cup {TakenMsg(NoText, FALSE)}
        \cup StageMsgs \cup CallMsgs \cup PromptMsgs

Op(do, raw, id) == [do |-> do, raw |-> raw, id |-> id]
Ops == [do : {"submit", "take", "discard", "interrupt", "resolve", "shutdown"},
        raw : Texts \cup {NoText}, id : 0..MaxPrompts]

\* sent: the submission reached some recipient.  Only the checks read it.
Event(kind, raw, sent) ==
    [kind |-> kind, raw |-> raw, sent |-> sent, stage |-> NoText, approval |-> 0]
StateChanged(s, a) == [Event("state", NoText, FALSE) EXCEPT !.stage = s, !.approval = a]
Events == [kind : {"state", "accepted", "dispatched", "discarded", "succeeded", "failed",
                   "rejected", "unknown"},
           raw : Texts \cup {NoText}, sent : BOOLEAN,
           stage : Texts \cup {NoText}, approval : 0..MaxPrompts]

Answers == {"succeeded", "failed", "rejected", "unknown"}

-----------------------------------------------------------------------------
(* State *)

NewUI == [pending |-> FALSE, awaiting |-> NoText, presented |-> FALSE, preserve |-> FALSE,
          dispatched |-> NoText, approval |-> 0]

Init ==
    /\ room = NewRoom /\ ui = NewUI
    /\ cmds = EmptyBag /\ ops = <<>>
    /\ stage = NoText /\ approval = 0 /\ closed = FALSE
    /\ events = <<StateChanged(NoText, 0)>>     \* published by start
    /\ keys = MaxKeys /\ prompts = MaxPrompts

\* A command is started; a message is taken in, and may start another.
Start(c)       == cmds' = BagAdd(cmds, c)
Finish(c)      == cmds' = BagRemove(cmds, c)
Continue(c, d) == cmds' = BagAdd(BagRemove(cmds, c), d)

-----------------------------------------------------------------------------
(* Keys *)

Press == keys > 0 /\ keys' = keys - 1
FrontEndOnly == UNCHANGED <<ops, interp, events, prompts>>

\* Typing, a paste (a paste reaches the textarea wherever the focus is) and
\* Ctrl+C leave another text in the composer.
Type(t) ==
    /\ Press /\ room.kind = "compose" /\ room.editable
    /\ t # room.text
    /\ room' = SetComposeValue(room, t)
    /\ UNCHANGED <<ui, cmds>> /\ FrontEndOnly

\* Faulty variant: the gate is not consulted.
EnterAnyway ==
    /\ Press /\ AtComposer(room) /\ room.text # NoText
    /\ room' = SetComposeValue(room, NoText)
    /\ ui' = [ui EXCEPT !.pending = TRUE, !.awaiting = room.text]
    /\ Start(SubmitMsg(room.text))
    /\ FrontEndOnly

\* handleKey: one submission at a time; while one is pending the text stays.
Enter ==
    /\ Press /\ AtComposer(room) /\ room.text # NoText
    /\ IF ui.pending THEN UNCHANGED <<room, ui, cmds>>
       ELSE /\ room' = SetComposeValue(room, NoText)
            /\ ui' = [ui EXCEPT !.pending = TRUE, !.awaiting = room.text]
            /\ Start(SubmitMsg(room.text))
    /\ FrontEndOnly

\* Ctrl+G: the editor starts with the text, and answers with any, or with
\* the one it started with.
OpenEditor(t) ==
    /\ Press /\ AtComposer(room)
    /\ Start(EditorMsg(t))
    /\ UNCHANGED <<room, ui>> /\ FrontEndOnly

\* handleStagedComposeKey.
StagedEscape ==
    /\ Press /\ AtStaged(room)
    /\ room' = ComposeFocus(ClearComposerStaged(room))
    /\ Start(Msg("stagedEdit"))
    /\ UNCHANGED ui /\ FrontEndOnly

StagedInterrupt ==
    /\ Press /\ AtStaged(room)
    /\ Start(Msg("stagedInterrupt"))
    /\ UNCHANGED <<room, ui>> /\ FrontEndOnly

StagedClear ==
    /\ Press /\ AtStaged(room) /\ room.text # NoText
    /\ room' = ClearComposerStaged(SetComposeValue(room, NoText))
    /\ Start(Msg("stagedClear"))
    /\ UNCHANGED ui /\ FrontEndOnly

\* handleApprovalKey: Enter and Esc are signalled by messages (ConfirmMsg,
\* CancelMsg), Ctrl+C is not.  The choice itself does not matter here.
PromptKey ==
    /\ Press /\ AtApproval(room)
    /\ Start(Msg("answer"))
    /\ UNCHANGED <<room, ui>> /\ FrontEndOnly

PromptCancel ==
    /\ Press /\ AtApproval(room)
    /\ room' = ClearApproval(room)
    /\ Start(Msg("decide"))
    /\ UNCHANGED ui /\ FrontEndOnly

\* Ctrl+O, and Esc in the history.
ChangeFocus ==
    /\ Press
    /\ room' = ToggleFocus(room)
    /\ UNCHANGED <<ui, cmds>> /\ FrontEndOnly

Key ==
    \/ \E t \in Texts \cup {NoText} : Type(t)
    \/ \E t \in EditorTexts : OpenEditor(t)
    \/ Enter \/ StagedEscape \/ StagedInterrupt \/ StagedClear
    \/ PromptKey \/ PromptCancel \/ ChangeFocus

-----------------------------------------------------------------------------
(* Messages *)

Receive(c) == BagIn(c, cmds) /\ UNCHANGED <<interp, events, bounds>>

\* The call of a command: the operation is accepted, or the zero value comes back.
Accept(op) == ops' = Append(ops, op)

ReleaseGate(u) == [u EXCEPT !.pending = FALSE, !.awaiting = NoText]

SubmitUIOnly(c) ==
    /\ Receive(c) /\ c.do = "submit" /\ c.raw \in UIOnly
    /\ Finish(c)
    /\ ui' = ReleaseGate(ui) /\ room' = ClearSubmitted(room, c.raw)
    /\ UNCHANGED ops

\* Faulty variant: a submission refused at shutdown leaves the gate closed.
SubmitStaysPending(c) ==
    /\ Receive(c) /\ c.do = "submit" /\ c.raw \notin UIOnly
    /\ Finish(c)
    /\ ui' = [ui EXCEPT !.awaiting = NoText]
    /\ IF closed THEN room' = RestoreComposer(room, c.raw) /\ UNCHANGED ops
       ELSE room' = ClearSubmitted(room, c.raw) /\ Accept(Op("submit", c.raw, 0))

\* submitToInterpreter.
Submit(c) ==
    /\ Receive(c) /\ c.do = "submit" /\ c.raw \notin UIOnly
    /\ Finish(c)
    /\ IF ui.pending /\ ui.awaiting # c.raw
       THEN room' = RestoreComposer(room, c.raw) /\ UNCHANGED <<ui, ops>>
       ELSE /\ ui' = [ui EXCEPT !.pending = ~closed, !.awaiting = NoText]
            /\ IF closed THEN room' = RestoreComposer(room, c.raw) /\ UNCHANGED ops
               ELSE room' = ClearSubmitted(room, c.raw) /\ Accept(Op("submit", c.raw, 0))

\* handleStageOperationMessage.
StageMessage(c) ==
    /\ Receive(c) /\ c \in StageMsgs
    /\ IF ui.presented
       THEN /\ Continue(c, Msg(CASE c.do = "stagedEdit"      -> "take"
                                 [] c.do = "stagedClear"     -> "discard"
                                 [] c.do = "stagedInterrupt" -> "interrupt"))
            /\ UNCHANGED room
       ELSE /\ Finish(c)
            /\ room' = IF c.do = "stagedInterrupt" THEN room ELSE ClearComposerStaged(room)
    /\ UNCHANGED <<ui, ops>>

\* takeStageForEdit, discardStage, interruptAndDispatchStage; the messages
\* that answer the last two change nothing.
StageCall(c) ==
    /\ Receive(c) /\ c \in CallMsgs
    /\ IF closed THEN UNCHANGED ops ELSE Accept(Op(c.do, NoText, 0))
    /\ IF closed /\ c.do = "take" THEN Continue(c, TakenMsg(NoText, FALSE)) ELSE Finish(c)
    /\ UNCHANGED <<room, ui>>

\* handleStageTakenForEdit.
StageTaken(c) ==
    /\ Receive(c) /\ c.do = "taken"
    /\ Finish(c)
    /\ IF c.ok THEN /\ ui' = [ui EXCEPT !.preserve = ui.presented]
                    /\ room' = RestoreComposer(ClearComposerStaged(room), c.raw)
       ELSE UNCHANGED <<room, ui>>
    /\ UNCHANGED ops

\* handleApprovalMessage, for a prompt that is still there.
PromptAnswered(c) ==
    /\ Receive(c) /\ c.do = "answer"
    /\ IF room.kind = "approval" THEN room' = ClearApproval(room) /\ Continue(c, Msg("decide"))
                                 ELSE UNCHANGED room /\ Finish(c)
    /\ UNCHANGED <<ui, ops>>

\* handleApprovalDecision.
Decide(c) ==
    /\ Receive(c) /\ c.do = "decide"
    /\ Finish(c)
    /\ IF closed THEN UNCHANGED <<ui, ops>>
       ELSE ui' = [ui EXCEPT !.approval = 0] /\ Accept(Op("resolve", NoText, ui.approval))
    /\ UNCHANGED room

\* handleEditorResult: the composer gets the text whatever it shows by now.
EditorDone(c) ==
    /\ Receive(c) /\ c.do = "editor"
    /\ Finish(c)
    /\ room' = SetComposeValue(room, c.raw)
    /\ UNCHANGED <<ui, ops>>

Message(c) ==
    \/ SubmitUIOnly(c) \/ Submit(c) \/ StageMessage(c) \/ StageCall(c) \/ StageTaken(c)
    \/ PromptAnswered(c) \/ Decide(c) \/ EditorDone(c)

-----------------------------------------------------------------------------
(* Events of the interpreter.  Present(m, u, e) is the room and the ui after  *)
(* event e.  Events that only add a line to the history, OperationFailed      *)
(* among them, are left out.                                                  *)

Shows(m, u) == [room |-> m, ui |-> u]

ClearInterpreterStage(m, u) ==
    IF ~u.presented THEN Shows(m, u)
    ELSE LET unstaged == ClearComposerStaged(m)
         IN  Shows(IF u.preserve THEN unstaged ELSE SetComposeValue(unstaged, NoText),
                   [u EXCEPT !.presented = FALSE, !.preserve = FALSE])

PresentStage(m, u, raw) ==
    IF raw = NoText THEN ClearInterpreterStage(m, u)
    ELSE IF u.presented /\ u.preserve THEN Shows(m, u)
    ELSE Shows(SetComposerStaged(m, raw), [u EXCEPT !.presented = TRUE, !.preserve = FALSE])

PresentSnapshot(m, u, e) ==
    LET staged == PresentStage(m, u, e.stage)
        now    == [staged.ui EXCEPT !.approval = e.approval]
    IN  CASE e.approval = u.approval -> staged
          [] e.approval = 0 /\ u.approval # 0 -> Shows(ClearApproval(staged.room), now)
          [] e.approval # 0 /\ e.approval # u.approval -> Shows(ShowApproval(staged.room), now)

\* Faulty variant: a message that reached some recipients comes back too.
RestoreFailedAlways(m, u, raw) == IF raw \in Messages THEN RestoreComposer(m, raw) ELSE m

\* restoreFailedStagedDraft: a message comes back unless it was dispatched.
RestoreFailed(m, u, raw) ==
    IF raw \in Messages /\ u.dispatched # raw THEN RestoreComposer(m, raw) ELSE m

Present(m, u, e) ==
    CASE e.kind = "state"      -> PresentSnapshot(m, u, e)
      [] e.kind = "accepted"   -> Shows(m, [u EXCEPT !.dispatched = NoText])
      [] e.kind = "dispatched" -> Shows(m, [u EXCEPT !.dispatched = e.raw])
      [] e.kind = "discarded"  -> Shows(RestoreComposer(m, e.raw),
                                        [u EXCEPT !.dispatched = NoText, !.preserve = TRUE])
      [] e.kind = "succeeded"  -> Shows(m, [ReleaseGate(u) EXCEPT !.dispatched = NoText])
      [] e.kind = "failed"     -> Shows(RestoreFailed(m, u, e.raw),
                                        [ReleaseGate(u) EXCEPT !.dispatched = NoText])
      [] e.kind \in {"rejected", "unknown"} -> Shows(m, ReleaseGate(u))

HandleEvent ==
    /\ events # <<>>
    /\ LET next == Present(room, ui, Head(events)) IN room' = next.room /\ ui' = next.ui
    /\ events' = Tail(events)
    /\ UNCHANGED <<cmds, ops, interp, bounds>>

-----------------------------------------------------------------------------
(* The interpreter: the operations that the front end asked for, and what    *)
(* the session makes of the stage and the approval.                          *)

Publish(now) == events' = events \o now

Accepted       == Event("accepted", NoText, FALSE)
Dispatched(raw) == Event("dispatched", raw, TRUE)
Discarded(raw) == Event("discarded", raw, FALSE)

\* A submission of raw is applied: what is published, and the stage there is
\* then.
Answer(now, s) == [now |-> now, stage |-> s]

\* Delivered to none, to some or to all; or staged.
MessageOutcomes(raw) ==
    LET Done(now) == Answer(Append(now, StateChanged(NoText, approval)), NoText) IN
    {Done(<<Accepted, Event("failed", raw, FALSE)>>),
     Done(<<Accepted, Dispatched(raw), Event("failed", raw, TRUE)>>),
     Done(<<Accepted, Dispatched(raw), Event("succeeded", raw, TRUE)>>),
     Answer(<<Accepted, Event("succeeded", raw, FALSE), StateChanged(raw, approval)>>, raw)}

CommandOutcomes(raw) ==
    {Answer(<<Accepted, StateChanged(NoText, approval), Event(kind, raw, FALSE)>>, NoText) :
        kind \in {"succeeded", "failed"}}

\* A message without a target; a text that does not parse, or that names no command.
Refusals(raw) ==
    IF raw \in Messages THEN {Event("failed", raw, FALSE)}
    ELSE {Event("rejected", raw, FALSE), Event("unknown", raw, FALSE)}

\* How a stage ends: delivered to someone, to nobody, or discarded.
StageOutcomes(raw) ==
    {<<Dispatched(raw)>>, <<>>, <<Discarded(raw)>>}

ApplySubmit(op) ==
    /\ op.do = "submit"
    /\ \/ /\ stage # NoText
          /\ Publish(<<Event("rejected", op.raw, FALSE)>>)
          /\ UNCHANGED stage
       \/ /\ stage = NoText
          /\ \E refusal \in Refusals(op.raw) : Publish(<<refusal>>)
          /\ UNCHANGED stage
       \/ /\ stage = NoText
          /\ \E done \in IF op.raw \in Messages THEN MessageOutcomes(op.raw)
                                               ELSE CommandOutcomes(op.raw) :
                 /\ stage' = done.stage
                 /\ Publish(done.now)
    /\ UNCHANGED <<cmds, approval, closed>>

ApplyTake(op) ==
    /\ op.do = "take"
    /\ Start(TakenMsg(stage, stage # NoText))
    /\ stage' = NoText
    /\ IF stage = NoText THEN UNCHANGED events ELSE Publish(<<StateChanged(NoText, approval)>>)
    /\ UNCHANGED <<approval, closed>>

ApplyDiscard(op) ==
    /\ op.do = "discard"
    /\ stage' = NoText
    /\ IF stage = NoText THEN UNCHANGED events ELSE Publish(<<StateChanged(NoText, approval)>>)
    /\ UNCHANGED <<cmds, approval, closed>>

\* Nothing to interrupt; cancellations requested; nothing blocks any longer.
ApplyInterrupt(op) ==
    /\ op.do = "interrupt"
    /\ \/ UNCHANGED <<stage, events>>
       \/ /\ stage # NoText /\ UNCHANGED stage
          /\ Publish(<<StateChanged(stage, approval)>>)
       \/ /\ stage # NoText /\ stage' = NoText
          /\ \E end \in StageOutcomes(stage) \ {<<Discarded(stage)>>} :
                 Publish(Append(end, StateChanged(NoText, approval)))
    /\ UNCHANGED <<cmds, approval, closed>>

\* resolveApprovalOperation: refused by the model, or by the session.
ApplyResolve(op) ==
    /\ op.do = "resolve"
    /\ \/ UNCHANGED <<approval, events>>
       \/ /\ approval # 0 /\ op.id = approval
          /\ approval' = 0
          /\ Publish(<<StateChanged(stage, 0)>>)
    /\ UNCHANGED <<cmds, stage, closed>>

\* Nothing follows the shutdown.
ApplyShutdown(op) == op.do = "shutdown" /\ UNCHANGED <<cmds, interp, events>>

Apply ==
    /\ ops # <<>>
    /\ LET op == Head(ops) IN
          \/ ApplySubmit(op) \/ ApplyTake(op) \/ ApplyDiscard(op) \/ ApplyInterrupt(op)
          \/ ApplyResolve(op) \/ ApplyShutdown(op)
    /\ ops' = Tail(ops)
    /\ UNCHANGED <<room, ui, bounds>>

\* The shutdown operation has been applied.
Down == closed /\ ops = <<>>

SessionOnly == ~Down /\ UNCHANGED <<room, ui, cmds, ops, closed, keys>>

StageEnds ==
    /\ stage # NoText /\ stage' = NoText
    /\ \E end \in StageOutcomes(stage) : Publish(Append(end, StateChanged(NoText, approval)))
    /\ UNCHANGED <<approval, prompts>> /\ SessionOnly

ApprovalRequested ==
    /\ prompts > 0 /\ prompts' = prompts - 1
    /\ approval' = MaxPrompts - prompts + 1
    /\ Publish(<<StateChanged(stage, approval')>>)
    /\ UNCHANGED stage /\ SessionOnly

ApprovalCleared ==
    /\ approval # 0 /\ approval' = 0
    /\ Publish(<<StateChanged(stage, 0)>>)
    /\ UNCHANGED <<stage, prompts>> /\ SessionOnly

\* requestClose, after /quit or a signal.
RequestClose ==
    /\ ~closed /\ closed' = TRUE
    /\ Accept(Op("shutdown", NoText, 0))
    /\ UNCHANGED <<room, ui, cmds, stage, approval, events, bounds>>

Session == StageEnds \/ ApprovalRequested \/ ApprovalCleared

Next == Key \/ (\E c \in BagToSet(cmds) : Message(c)) \/ HandleEvent \/ Apply \/ Session
        \/ RequestClose

Spec == Init /\ [][Next]_vars

(* The program handles each message and event, and the executor each          *)
(* operation.  Neither keys nor the session owe anything.                     *)
FairSpec ==
    /\ Spec
    /\ WF_vars(HandleEvent) /\ WF_vars(Apply)
    /\ \A c \in Msgs : WF_vars(Message(c))

-----------------------------------------------------------------------------
(* Properties *)

TypeOK ==
    /\ room \in [kind : {"compose", "staged", "approval"}, previous : {"compose", "staged"},
                 focus : {"input", "history"}, restore : {"input", "history"},
                 text : Texts \cup {NoText}, editable : BOOLEAN]
    /\ ui \in [pending : BOOLEAN, awaiting : Texts \cup {NoText}, presented : BOOLEAN,
               preserve : BOOLEAN, dispatched : Texts \cup {NoText}, approval : 0..MaxPrompts]
    /\ IsABag(cmds) /\ BagToSet(cmds) \subseteq Msgs
    /\ ops \in Seq(Ops) /\ events \in Seq(Events)
    /\ stage \in Messages \cup {NoText} /\ approval \in 0..MaxPrompts /\ closed \in BOOLEAN
    /\ keys \in 0..MaxKeys /\ prompts \in 0..MaxPrompts

\* Where the submissions are between Enter and the handling of their answer:
\* a message, an operation, an event.
InTransit ==
    LET submits  == {c \in BagToSet(cmds) : c.do = "submit"}
        messages == UNION {{<<"message", c, n>> : n \in 1 .. cmds[c]} : c \in submits}
    IN  messages
        \cup {<<"operation", k>> : k \in {j \in DOMAIN ops : ops[j].do = "submit"}}
        \cup {<<"event", k>> : k \in {j \in DOMAIN events : events[j].kind \in Answers}}

(* The submission gate (handleKey, submitToInterpreter and the handlers that  *)
(* release it) is closed exactly while one submission is on its way to the    *)
(* interpreter or its answer on the way back, and there never are two.        *)
GateTracksSubmission ==
    IF ui.pending THEN \E place \in InTransit : InTransit = {place}
                  ELSE InTransit = {}

(* A user at the composer can type: nothing that blurs the textarea, a staged *)
(* submission or a prompt, leaves it blurred once the composer is back.       *)
ComposerEditable == AtComposer(room) => room.editable

(* The composer is not left read-only: once the events are handled, it shows  *)
(* a staged submission, in front or behind a prompt, only while the           *)
(* interpreter has one (clearInterpreterStage, ClearComposerStaged).          *)
NotLockedOut == events = <<>> /\ IsStaged(room) => stage # NoText

\* The event being handled.
Handling(kind) == events # <<>> /\ Head(events).kind = kind /\ events' = Tail(events)

(* A message that was delivered to some recipient before it failed is not put *)
(* back into the composer, from where Enter would send it to them again       *)
(* (stagedDispatchRaw, restoreFailedStagedDraft).                             *)
DeliveredStaysSent ==
    [][Handling("failed") /\ Head(events).sent => room'.text = room.text]_vars

(* The gate opens again: every submission that closes it is answered, or is   *)
(* refused because the interpreter is shutting down.                          *)
GateOpens == ui.pending ~> ~ui.pending

(* A message that failed before anyone got it comes back to an empty composer *)
(* (internal/ui/model_test.go, TestBroadcast_noAgentsPreservesDraft).         *)
DraftReturns ==
    [][Handling("failed") /\ Head(events).raw \in Messages /\ ~Head(events).sent
       /\ room.text = NoText => room'.text = Head(events).raw]_vars
===============================================================================
