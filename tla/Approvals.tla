------------------------------ MODULE Approvals ------------------------------
(***************************************************************************)
(* The way of an approval: an agent asks the hub of the session            *)
(* (session/approvals.go), which puts the requests in a line and publishes *)
(* the first one; the event goes through the inbox of the interpreter to   *)
(* its executor (interpreter/executor.go), whose snapshots reach the user  *)
(* interface (ui/update.go, ui/room); the user's answer goes back through  *)
(* the executor's operations to the hub.                                   *)
(*                                                                         *)
(* Requests are numbered by their approval id.  Which option is chosen     *)
(* matters to nobody here: a choice is the request whose prompt the user   *)
(* was looking at when pressing the key, and where it matters the request  *)
(* whose list of options the choice was taken from.                        *)
(***************************************************************************)
EXTENDS Naturals, Sequences

CONSTANTS
    MaxRequests,     \* bound: approval requests of one behaviour
    MaxOthers        \* bound: session events that do not concern approvals

ASSUME ApprovalAssumption == MaxRequests \in Nat \ {0} /\ MaxOthers \in Nat

Requests == 1 .. MaxRequests
Nobody   == 0
IDs      == Requests \cup {Nobody}

VARIABLES
    \* the hub, guarded by its mutex
    lastID, active, queue,
    \* the calls of request: where each is, the contexts that are done, and
    \* the decision put in its response channel
    rq, ctx, resp,
    \* the goroutine that recorded an event and is about to enqueue a drain
    wake,
    \* the inbox, the operations and the goroutine of the executor
    inbox, drainPending, ops, ex, approval,
    \* the snapshots on their way, and the user interface
    screens, shown, activeApprovalID, pending,
    others

hub   == <<lastID, active, queue>>
calls == <<rq, ctx, resp>>
box   == <<inbox, drainPending, wake>>
exec  == <<ops, ex, approval>>
ui    == <<shown, activeApprovalID, pending>>
vars  == <<hub, calls, box, exec, screens, ui, others>>

-----------------------------------------------------------------------------
(* State *)

Calls  == {"none", "waiting", "abandoned", "decided", "cancelled"}
Events == [kind : {"requested", "cleared", "other"}, id : IDs]

Drain     == [kind |-> "drain", id |-> Nobody, choice |-> Nobody, from |-> Nobody]
Operation == {Drain} \cup
             [kind : {"resolve"}, id : IDs, choice : Requests, from : Requests]
ExecPCs   == {"pull", "before", "drain", "complete", "check", "execute", "after"}

\* A message of the user interface to itself: a key was pressed on a prompt, or
\* the option taken from a prompt is to be sent.  (Bound: equal messages are one.)
KeyMessages == [kind : {"key"}, choice : Requests]
Decisions   == [kind : {"decision"}, choice : Requests, from : Requests]

Init ==
    /\ lastID = 0
    /\ active = Nobody
    /\ queue = <<>>
    /\ rq = [r \in Requests |-> "none"]
    /\ ctx = {}
    /\ resp = [r \in Requests |-> Nobody]
    /\ wake = "none"
    /\ inbox = <<>>
    /\ drainPending = FALSE
    /\ ops = <<>>
    /\ ex = [pc |-> "pull", op |-> Drain]
    /\ approval = Nobody
    /\ screens = <<>>
    /\ shown = Nobody
    /\ activeApprovalID = Nobody
    /\ pending = {}
    /\ others = 0

-----------------------------------------------------------------------------
(* Events: recordSessionEvent.  Only the goroutine that finds no drain       *)
(* pending enqueues one; the hub holds its mutex until it has.               *)

Record(who, e) ==
    /\ inbox' = Append(inbox, e)
    /\ drainPending' = TRUE
    /\ wake' = IF drainPending THEN wake ELSE who

HubFree == wake # "hub"

Requested(r) == [kind |-> "requested", id |-> r]
Cleared(r)   == [kind |-> "cleared", id |-> r]

Wake ==
    /\ wake # "none"
    /\ ops' = Append(ops, Drain)
    /\ wake' = "none"
    /\ UNCHANGED <<hub, calls, inbox, drainPending, ex, approval, screens, ui, others>>

\* An event of the session that is not about approvals.
OtherEvent ==
    /\ others < MaxOthers
    /\ others' = others + 1
    /\ Record("other", [kind |-> "other", id |-> Nobody])
    /\ UNCHANGED <<hub, calls, exec, screens, ui>>

-----------------------------------------------------------------------------
(* The hub *)

\* approvalQueue.pop, which also moves the first of the queue to the front.
NextActive == IF queue = <<>> THEN Nobody ELSE Head(queue)
Pop ==
    /\ active' = NextActive
    /\ queue' = IF queue = <<>> THEN queue ELSE Tail(queue)

\* request, up to the select.
Request(r) ==
    /\ HubFree
    /\ r = lastID + 1
    /\ lastID' = r
    /\ rq' = [rq EXCEPT ![r] = "waiting"]
    /\ IF active = Nobody
       THEN active' = r /\ Record("hub", Requested(r)) /\ UNCHANGED queue
       ELSE queue' = Append(queue, r) /\ UNCHANGED <<active, box>>
    /\ UNCHANGED <<ctx, resp, exec, screens, ui, others>>

\* The agent stops, or its turn is given up.
ContextDone(r) ==
    /\ rq[r] = "waiting"
    /\ r \notin ctx
    /\ ctx' = ctx \cup {r}
    /\ UNCHANGED <<hub, rq, resp, box, exec, screens, ui, others>>

\* The select of request: both branches may be ready.
Decided(r) ==
    /\ rq[r] = "waiting"
    /\ resp[r] # Nobody
    /\ rq' = [rq EXCEPT ![r] = "decided"]
    /\ UNCHANGED <<hub, ctx, resp, box, exec, screens, ui, others>>

\* Faulty variant: the context is watched only by the request whose turn it is.
AbandonInTurn(r) ==
    /\ rq[r] = "waiting"
    /\ r \in ctx
    /\ active = r
    /\ rq' = [rq EXCEPT ![r] = "abandoned"]
    /\ UNCHANGED <<hub, ctx, resp, box, exec, screens, ui, others>>

Abandon(r) ==
    /\ rq[r] = "waiting"
    /\ r \in ctx
    /\ rq' = [rq EXCEPT ![r] = "abandoned"]
    /\ UNCHANGED <<hub, ctx, resp, box, exec, screens, ui, others>>

\* Faulty variant: only the active request is looked at.
CancelActiveOnly(r) ==
    /\ HubFree
    /\ rq[r] = "abandoned"
    /\ rq' = [rq EXCEPT ![r] = "cancelled"]
    /\ IF active = r
       THEN Pop /\ Record("hub", IF queue = <<>> THEN Cleared(r) ELSE Requested(NextActive))
       ELSE UNCHANGED <<queue, active, box>>
    /\ UNCHANGED <<lastID, ctx, resp, exec, screens, ui, others>>

\* cancel, which takes the request out of the queue wherever it stands.
Without(q, k) == [j \in 1 .. Len(q) - 1 |-> IF j < k THEN q[j] ELSE q[j + 1]]
Queued(r)     == {k \in DOMAIN queue : queue[k] = r}

Cancel(r) ==
    /\ HubFree
    /\ rq[r] = "abandoned"
    /\ rq' = [rq EXCEPT ![r] = "cancelled"]
    /\ IF active = r
       THEN Pop /\ Record("hub", IF queue = <<>> THEN Cleared(r) ELSE Requested(NextActive))
       ELSE /\ IF Queued(r) = {} THEN UNCHANGED queue
               ELSE \E k \in Queued(r) : queue' = Without(queue, k)
            /\ UNCHANGED <<active, box>>
    /\ UNCHANGED <<lastID, ctx, resp, exec, screens, ui, others>>

-----------------------------------------------------------------------------
(* The executor: run, applySessionEvents, drainSessionEvents *)

Go(pc) == ex' = [ex EXCEPT !.pc = pc]
Finish == ex' = [pc |-> "after", op |-> Drain]

Pull ==
    /\ ex.pc = "pull"
    /\ ops # <<>>
    /\ ex' = [pc |-> "before", op |-> Head(ops)]
    /\ ops' = Tail(ops)
    /\ UNCHANGED <<hub, calls, box, approval, screens, ui, others>>

\* ApplySessionEvents with applyApprovalEvent, one event after the other: the
\* last request counts, until it is cleared; an event that clears another
\* request is not applied.
IsLatest(events, k) ==
    /\ k # 0 => events[k].kind = "requested"
    /\ \A j \in k + 1 .. Len(events) : events[j].kind # "requested"
Latest(events) == CHOOSE k \in 0 .. Len(events) : IsLatest(events, k)
ApplyEvents(known, events) ==
    LET latest == Latest(events)
        id     == IF latest = 0 THEN known ELSE events[latest].id
    IN IF \E k \in latest + 1 .. Len(events) : events[k] = Cleared(id)
       THEN Nobody ELSE id
SomeApplied(known, events) ==
    \E k \in DOMAIN events : events[k].kind = "cleared" => events[k].id = known

\* Take, and the events taken are applied one after the other; a snapshot is
\* published when at least one of them was.
TakeEvents ==
    /\ ex.pc \in {"before", "drain", "after"}
    /\ inbox # <<>>
    /\ inbox' = <<>>
    /\ approval' = ApplyEvents(approval, inbox)
    /\ screens' = IF SomeApplied(approval, inbox) THEN Append(screens, approval')
                  ELSE screens
    /\ UNCHANGED <<hub, calls, drainPending, wake, ops, ex, ui, others>>

\* ... and nothing was left.
TakeNothing ==
    /\ ex.pc \in {"before", "drain", "after"}
    /\ inbox = <<>>
    /\ Go(CASE ex.pc = "before" -> IF ex.op.kind = "drain" THEN "drain" ELSE "check"
            [] ex.pc = "drain"  -> "complete"
            [] ex.pc = "after"  -> "pull")
    /\ UNCHANGED <<hub, calls, box, ops, approval, screens, ui, others>>

\* CompleteDrain
CompleteDrain ==
    /\ ex.pc = "complete"
    /\ IF inbox = <<>>
       THEN drainPending' = FALSE /\ Finish
       ELSE UNCHANGED drainPending /\ Go("drain")
    /\ UNCHANGED <<hub, calls, inbox, wake, ops, approval, screens, ui, others>>

\* ResolveApprovalChoice: the request is the one the interpreter knows as active,
\* and offers the option, which an option of another prompt may not be.
Check ==
    /\ ex.pc = "check"
    /\ \/ ex.op.id = approval /\ approval # Nobody /\ Go("execute")
       \/ (ex.op.id # approval \/ approval = Nobody \/ ex.op.from # approval) /\ Finish
    /\ UNCHANGED <<hub, calls, box, ops, approval, screens, ui, others>>

\* Faulty variant: the id is taken for the one that is active.
ResolveAny ==
    /\ ex.pc = "execute"
    /\ HubFree
    /\ active # Nobody
    /\ resp' = [resp EXCEPT ![active] = ex.op.choice]
    /\ Pop
    /\ approval' = IF approval = ex.op.id THEN Nobody ELSE approval
    /\ screens' = Append(screens, approval')
    /\ IF queue = <<>>
       THEN UNCHANGED <<inbox, drainPending, ops>>
       ELSE /\ inbox' = Append(inbox, Requested(NextActive))
            /\ drainPending' = TRUE
            /\ ops' = IF drainPending THEN ops ELSE Append(ops, Drain)
    /\ Finish
    /\ UNCHANGED <<lastID, rq, ctx, wake, ui, others>>

\* ResolveApprovalCommand and hub.resolve, then the interpreter's own
\* ClearApproval and a snapshot.
Resolve ==
    /\ ex.pc = "execute"
    /\ HubFree
    /\ active = ex.op.id
    /\ resp' = [resp EXCEPT ![active] = ex.op.choice]
    /\ Pop
    /\ approval' = IF approval = ex.op.id THEN Nobody ELSE approval
    /\ screens' = Append(screens, approval')
    /\ IF queue = <<>>
       THEN UNCHANGED <<inbox, drainPending, ops>>
       ELSE /\ inbox' = Append(inbox, Requested(NextActive))
            /\ drainPending' = TRUE
            /\ ops' = IF drainPending THEN ops ELSE Append(ops, Drain)
    /\ Finish
    /\ UNCHANGED <<lastID, rq, ctx, wake, ui, others>>

\* The request was cancelled in the meantime.
ResolveTooLate ==
    /\ ex.pc = "execute"
    /\ HubFree
    /\ active # ex.op.id
    /\ Finish
    /\ UNCHANGED <<hub, calls, box, ops, approval, screens, ui, others>>

ExecStep ==
    \/ Pull \/ TakeEvents \/ TakeNothing \/ CompleteDrain
    \/ Check \/ Resolve \/ ResolveTooLate

-----------------------------------------------------------------------------
(* The user interface.  What a key or a message leads to next comes back as  *)
(* a message of its own, after whatever arrived first.                       *)

\* Faulty variant: a prompt is only replaced once it was answered.
PresentFirst ==
    /\ screens # <<>>
    /\ screens' = Tail(screens)
    /\ IF Head(screens) # Nobody /\ activeApprovalID # Nobody
       THEN UNCHANGED <<activeApprovalID, shown>>
       ELSE activeApprovalID' = Head(screens) /\ shown' = Head(screens)
    /\ UNCHANGED <<hub, calls, box, exec, pending, others>>

\* presentInterpreterSnapshot
Present ==
    /\ screens # <<>>
    /\ screens' = Tail(screens)
    /\ IF Head(screens) = activeApprovalID
       THEN UNCHANGED <<activeApprovalID, shown>>
       ELSE activeApprovalID' = Head(screens) /\ shown' = Head(screens)
    /\ UNCHANGED <<hub, calls, box, exec, pending, others>>

\* Faulty variant: a key is taken for an answer though no prompt is active.
PressAnyKey ==
    /\ pending' = pending \cup {[kind |-> "key", choice |-> shown]}
    /\ UNCHANGED <<hub, calls, box, exec, screens, shown, activeApprovalID, others>>

\* Enter or Esc on the prompt: the message only says which key it was.
PressKey ==
    /\ shown # Nobody
    /\ pending' = pending \cup {[kind |-> "key", choice |-> shown]}
    /\ UNCHANGED <<hub, calls, box, exec, screens, shown, activeApprovalID, others>>

\* handleApprovalMessage: the option is taken from the prompt on the screen by
\* now, which disappears; without a prompt the message has no effect.
Take(c) == pending \cup {[kind |-> "decision", choice |-> c, from |-> shown]}

\* Ctrl+C on the prompt is handled at once.
PressCancel ==
    /\ shown # Nobody
    /\ pending' = Take(shown)
    /\ shown' = Nobody
    /\ UNCHANGED <<hub, calls, box, exec, screens, activeApprovalID, others>>

HandleKey(m) ==
    /\ m \in KeyMessages
    /\ pending' = (IF shown = Nobody THEN pending ELSE Take(m.choice)) \ {m}
    /\ shown' = Nobody
    /\ UNCHANGED <<hub, calls, box, exec, screens, activeApprovalID, others>>

\* handleApprovalDecision: the answer is for the request the interface
\* remembers by now.
SendDecision(m) ==
    /\ m \in Decisions
    /\ pending' = pending \ {m}
    /\ ops' = Append(ops, [kind |-> "resolve", id |-> activeApprovalID,
                          choice |-> m.choice, from |-> m.from])
    /\ activeApprovalID' = Nobody
    /\ UNCHANGED <<hub, calls, box, ex, approval, screens, shown, others>>

UIStep ==
    \/ Present
    \/ \E m \in pending : HandleKey(m) \/ SendDecision(m)

-----------------------------------------------------------------------------
(* The specification *)

CallStep(r) == Decided(r) \/ Abandon(r) \/ Cancel(r)

Next ==
    \/ Wake
    \/ OtherEvent
    \/ \E r \in Requests : Request(r) \/ ContextDone(r) \/ CallStep(r)
    \/ ExecStep
    \/ PressKey \/ PressCancel
    \/ UIStep

Spec == Init /\ [][Next]_vars

\* Goroutines that can run do run; nothing obliges an agent to ask or to stop,
\* or the user to answer.
FairSpec ==
    /\ Spec
    /\ WF_vars(Wake)
    /\ WF_vars(ExecStep)
    /\ WF_vars(UIStep)
    /\ \A r \in Requests : WF_vars(CallStep(r))

-----------------------------------------------------------------------------
(* Properties *)

\* The state has the shape the declarations give it.
TypeOK ==
    /\ lastID \in IDs
    /\ active \in IDs
    /\ queue \in Seq(Requests)
    /\ rq \in [Requests -> Calls]
    /\ ctx \subseteq Requests
    /\ resp \in [Requests -> IDs]
    /\ wake \in {"none", "hub", "other"}
    /\ inbox \in Seq(Events)
    /\ drainPending \in BOOLEAN
    /\ ops \in Seq(Operation)
    /\ ex \in [pc : ExecPCs, op : Operation]
    /\ approval \in IDs
    /\ screens \in Seq(IDs)
    /\ shown \in IDs
    /\ activeApprovalID \in IDs
    /\ pending \subseteq KeyMessages \cup Decisions
    /\ others \in 0 .. MaxOthers

\* The hub keeps its promise, however requests, cancellations and answers meet.
\* (approvalHub and approvalQueue.)
Undecided == (IF active = Nobody THEN {} ELSE {active}) \cup {queue[k] : k \in DOMAIN queue}
Told(r)   == IF rq[r] \in {"decided", "cancelled"} THEN rq[r] ELSE "nothing"
Desk == INSTANCE ApprovalDesk WITH
            Answers  <- Requests,
            NoAnswer <- Nobody,
            asked    <- lastID,
            waiting  <- Undecided,
            verdict  <- resp,
            told     <- [r \in Requests |-> Told(r)]
KeepsDeskPromise == Desk!DeskSpec

\* The interpreter never loses track of the hub: the approval it knows is the
\* active one once the events in its inbox are applied, although it clears an
\* answered approval on its own account.  (resolveApprovalOperation.apply,
\* applyApprovalEvent, hub.publish.)
InterpreterFollowsHub == ApplyEvents(approval, inbox) = active

\* A prompt that disappeared from the screen while the interface remembers it has
\* an answer under way: it is never merely lost.
HiddenMeansAnswered ==
    activeApprovalID # Nobody /\ shown = Nobody
        => \E m \in pending : m.kind = "decision"

\* No wake-up is lost: what is recorded is applied.  (sessionEventInbox.)
EventsAreApplied == [](inbox # <<>> => <>(inbox = <<>>))

\* A request whose context is done returns, and leaves the hub.
CancelledLeaves ==
    \A r \in Requests :
        r \in ctx ~> (rq[r] \in {"decided", "cancelled"} /\ active # r)

\* A request whose turn has come is shown to the user, unless it goes away.
\* (publish, applyApprovalEvent, presentInterpreterSnapshot.)
NextIsShown ==
    \A r \in Requests :
        (active = r /\ approval # r) ~> (shown = r \/ active # r)

-----------------------------------------------------------------------------
(* A claim of the repository that the code does not keep *)

\* The decision that completes a request was made for that request.
AnswersItsPrompt == \A r \in Requests : resp[r] \in {Nobody, r}
=============================================================================
