---------------------------- MODULE StageWorkflow ----------------------------
(***************************************************************************)
(* The staged submission (internal/interpreter/workflow_stage.go).  A send *)
(* a broadcast or a handoff is planned, waits behind a barrier of frozen   *)
(* participants, and is dispatched once, edited, discarded or failed.      *)
(*                                                                         *)
(* The workflow is sequential: every handler is an operator that takes the *)
(* active stage and returns the next one with the instructions it asks     *)
(* for.  Workflows gives those to the instruction runner.                  *)
(***************************************************************************)
EXTENDS Instructions

\* A statement is a send to an alias, a broadcast, or a handoff.
Send(a)          == [kind |-> "send", from |-> NoAlias, to |-> a]
Broadcast        == [kind |-> "broadcast", from |-> NoAlias, to |-> NoAlias]
Handoff(a, b)    == [kind |-> "handoff", from |-> a, to |-> b]
IsHandoff(stage) == stage.stmt.kind = "handoff"

StagePhases == {"planning", "waiting", "readingSource", "dispatching"}

\* An entry of the barrier is a participant's view: status, turn and ready.
NoBarrier == [a \in {} |-> {}]
Frozen(stage) == DOMAIN stage.barrier

NoStage ==
    [stmt |-> [kind |-> "none", from |-> NoAlias, to |-> NoAlias],
     phase |-> "none", pending |-> NoRef, routing |-> {},
     barrier |-> NoBarrier, blocking |-> {}, unavailable |-> {},
     dispatchRouting |-> {}, submissionPending |-> FALSE,
     sourceNeedsCompletion |-> FALSE, interruptRequested |-> FALSE,
     interruptPending |-> {}, interrupted |-> {}, handedOff |-> FALSE]

Pending(stage) == stage.phase # "none"

Step(stage, seq) == [stage |-> stage, seq |-> seq]
Ignore(stage)    == Step(stage, <<>>)

Matches(stage, ref) == Pending(stage) /\ stage.pending = ref

-----------------------------------------------------------------------------
(* Readiness *)

Blocked(barrier, unavailable) ==
    {a \in DOMAIN barrier \ unavailable : ~IsReadyForWork(barrier[a])}

ActiveAliases(stage) == stage.routing \ stage.unavailable

Interruptible(stage) ==
    {a \in Frozen(stage) \cap stage.blocking :
        /\ HasActiveTurn(stage.barrier[a])
        /\ stage.barrier[a].ready
        /\ a \notin stage.interrupted}

MustDiscard(stage) ==
    CASE stage.stmt.kind = "send"      -> stage.stmt.to \in stage.unavailable
      [] stage.stmt.kind = "broadcast" -> ActiveAliases(stage) = {}
      [] stage.stmt.kind = "handoff"   ->
            {stage.stmt.from, stage.stmt.to} \cap stage.unavailable # {}

\* freezeStageBarrier: a message waits for those it goes to, a handoff for
\* its two participants and for everyone who takes part in the room.
FreezeBarrier(stage, seen) ==
    LET in(a) == IF IsHandoff(stage)
                 THEN \/ a \in {stage.stmt.from, stage.stmt.to}
                      \/ IsRoutable(seen[a]) /\ seen[a].ready
                 ELSE a \in stage.routing
        kept  == {a \in DOMAIN seen : in(a)}
    IN  [a \in kept |-> seen[a]]

\* What the front end shows of a stage.
StageSnapshot(stage) ==
    IF Frozen(stage) = {} /\ stage.routing = {} THEN NoStage
    ELSE [stmt |-> stage.stmt, routing |-> stage.routing,
          blocking |-> stage.blocking, interruptible |-> Interruptible(stage),
          unavailable |-> stage.unavailable,
          interruptRequested |-> stage.interruptRequested]

-----------------------------------------------------------------------------
(* Planning *)

Start(stmt) ==
    LET stage == [NoStage EXCEPT !.stmt = stmt, !.phase = "planning",
                                 !.pending = Ref("stage", "plan"),
                                 !.submissionPending = TRUE]
        ask   == CASE stmt.kind = "send"      -> PlanShared(stmt.to)
                   [] stmt.kind = "broadcast" -> PlanBroadcast
                   [] stmt.kind = "handoff"   -> ReadParticipants
    IN  Step(stage, <<ask>>)

\* handleSharedSendPlan, handleBroadcastPlan.
HandlePlan(stage, targets) ==
    IF ~Matches(stage, Ref("stage", "plan")) THEN Ignore(stage)
    ELSE Step([stage EXCEPT !.routing = targets], <<ReadParticipants>>)

ReadSource(stage) ==
    Step([stage EXCEPT !.phase = "readingSource",
                       !.pending = Ref("stage", "source")],
         <<ReadHandoffSource(stage.stmt.from)>>)

Dispatch(stage) ==
    LET active == ActiveAliases(stage)
        request == IF stage.stmt.kind = "send"
                   THEN Request("shared", stage.stmt.to, active \ {stage.stmt.to})
                   ELSE Request("broadcast", NoAlias, active)
    IN  Step([stage EXCEPT !.phase = "dispatching", !.dispatchRouting = active,
                           !.pending = Ref("stage", "dispatch")],
             <<Execute(Ref("stage", "dispatch"), request)>>)

\* Prefix and suffix of the instructions of a step.
Before(seq, step) == Step(step.stage, seq \o step.seq)
Then(step, seq)   == Step(step.stage, step.seq \o seq)

Wait(stage) ==
    Step([stage EXCEPT !.phase = "waiting", !.submissionPending = FALSE],
         <<RequestSnapshot, Publish("succeeded")>>)

\* completeParticipantPlanning.
CompletePlanning(stage) ==
    IF stage.routing = {} \/ MustDiscard(stage)
    THEN Step(NoStage, <<Publish("failed")>>)
    ELSE Before(<<PublishTo("accepted", stage.routing)>>,
                IF stage.blocking # {} \/ stage.sourceNeedsCompletion
                THEN Wait(stage)
                ELSE IF IsHandoff(stage) THEN ReadSource(stage)
                                         ELSE Dispatch(stage))

\* handleParticipantState: the barrier is frozen here.
HandleParticipants(stage, seen) ==
    LET routing == IF IsHandoff(stage) THEN {stage.stmt.from, stage.stmt.to}
                                       ELSE stage.routing
        barrier == FreezeBarrier([stage EXCEPT !.routing = routing], seen)
        gone    == {a \in routing : \/ a \notin DOMAIN barrier
                                    \/ barrier[a].status = "crashed"}
        needs   == /\ IsHandoff(stage)
                   /\ stage.stmt.from \in DOMAIN barrier
                   /\ HasActiveTurn(barrier[stage.stmt.from])
    IN  IF ~Matches(stage, Ref("stage", "plan")) THEN Ignore(stage)
        ELSE CompletePlanning(
                [stage EXCEPT !.routing = routing, !.barrier = barrier,
                              !.unavailable = gone,
                              !.blocking = Blocked(barrier, gone),
                              !.sourceNeedsCompletion = needs])

-----------------------------------------------------------------------------
(* Handoff source *)

\* failHandoffSource, and the execution of a handoff whose source was read.
HandleSource(stage, ok) ==
    LET failure == IF stage.submissionPending THEN "failed" ELSE "operationFailed"
        active  == ActiveAliases(stage)
        request == Request("handoff", stage.stmt.to, Frozen(stage) \ stage.unavailable)
    IN  IF ~Matches(stage, Ref("stage", "source")) THEN Ignore(stage)
        ELSE IF ~ok THEN Step(NoStage, <<RequestSnapshot, Publish(failure)>>)
        ELSE Step([stage EXCEPT !.phase = "dispatching", !.dispatchRouting = active,
                                !.pending = Ref("stage", "dispatch")],
                  <<ExecuteRecording(Ref("stage", "dispatch"), request, active)>>)

-----------------------------------------------------------------------------
(* Completions of session requests *)

\* Faulty variant: a failed dispatch is reported to everyone it was for.
DeliveredToAll(stage, done) == stage.dispatchRouting

\* Who got the input: all of them, or those the error names.
DeliveredTo(stage, done) ==
    IF done.err THEN done.delivered ELSE stage.dispatchRouting

\* stageDispatchRecordSequence: one record and one event name the recipients.
DispatchRecord(stage, done) ==
    LET to == DeliveredTo(stage, done)
    IN  <<RequestSnapshot>>
        \o (IF to # {} /\ ~done.recorded THEN <<AppendInput(to)>> ELSE <<>>)
        \o (IF to # {} THEN <<PublishTo("dispatched", to)>> ELSE <<>>)
        \o (IF stage.handedOff /\ ~done.err THEN <<Publish("handoff")>> ELSE <<>>)

\* Faulty variant: a submission that waited is answered a second time.
DispatchOutcomeTwice(stage, done) ==
    <<Publish(IF done.err THEN "failed" ELSE "succeeded")>>

\* stageDispatchOutcomeInstruction: the submitter is answered once.
DispatchOutcome(stage, done) ==
    CASE done.err /\ stage.submissionPending  -> <<Publish("failed")>>
      [] done.err /\ ~stage.submissionPending -> <<Publish("operationFailed")>>
      [] ~done.err /\ stage.submissionPending -> <<Publish("succeeded")>>
      [] OTHER                                -> <<>>

\* handleSessionCompletion: an interrupt, or the dispatch, which ends the stage.
HandleSessionDone(stage, done) ==
    IF done.ref.alias \in stage.interruptPending
    THEN LET left == [stage EXCEPT !.interruptPending = @ \ {done.ref.alias}]
         IN  IF done.err
             THEN Step(left, <<RequestSnapshot, Publish("operationFailed")>>)
             ELSE Step([left EXCEPT !.interrupted = @ \cup {done.ref.alias}],
                       <<RequestSnapshot>>)
    ELSE IF ~Matches(stage, done.ref) THEN Ignore(stage)
    ELSE Step(NoStage, DispatchRecord(stage, done) \o DispatchOutcome(stage, done))

-----------------------------------------------------------------------------
(* Session events, while the stage waits *)

UpdateStatus(stage, a, s) ==
    IF a \notin Frozen(stage) \ stage.unavailable THEN stage
    ELSE [stage EXCEPT
            !.barrier[a].status = s,
            !.barrier[a].ready =
                @ /\ ~(s = "idle" /\ stage.barrier[a].status \in {"starting", "attached"})]

\* Faulty variant: the start of a participant does not make it ready.
MarkStartedUnready(stage, a) ==
    IF a \notin Frozen(stage) \ stage.unavailable THEN stage
    ELSE [stage EXCEPT !.barrier[a].status = "idle"]

MarkStarted(stage, a) ==
    IF a \notin Frozen(stage) \ stage.unavailable THEN stage
    ELSE [stage EXCEPT !.barrier[a].status = "idle", !.barrier[a].ready = TRUE]

MarkUnavailable(stage, a) ==
    IF a \notin Frozen(stage) THEN stage
    ELSE [stage EXCEPT !.unavailable = @ \cup {a}]

\* applyHandoffMessage: the end of the turn the source was in, or of a later one.
CompletesSource(stage, event) ==
    /\ event.kind = "message" /\ event.alias = stage.stmt.from
    /\ stage.stmt.from \in Frozen(stage) =>
           event.turn >= stage.barrier[stage.stmt.from].turn

NoteSource(stage, event) ==
    LET from == stage.stmt.from
    IN  IF event.kind = "message"
        THEN [stage EXCEPT
                !.sourceNeedsCompletion = FALSE,
                !.barrier = [a \in DOMAIN @ |->
                    IF a = from THEN [@[a] EXCEPT !.turn = event.turn] ELSE @[a]]]
        ELSE IF event.alias = from /\ event.to \in {"preparing", "working"}
             THEN [stage EXCEPT !.sourceNeedsCompletion = TRUE]
             ELSE stage

\* What an event tells the stage about its barrier.
Observed(stage, event) ==
    CASE event.kind = "status"  ->
            LET next == UpdateStatus(stage, event.alias, event.to)
            IN  IF IsHandoff(stage) THEN NoteSource(next, event) ELSE next
      [] event.kind = "started" -> MarkStarted(stage, event.alias)
      [] event.kind \in {"stopped", "crashed"} -> MarkUnavailable(stage, event.alias)
      [] OTHER                  -> NoteSource(stage, event)

\* advanceWaitingStage, advanceWaitingHandoff, discardUnavailableStage.
Advance(stage) ==
    LET next == [stage EXCEPT !.blocking = Blocked(stage.barrier, stage.unavailable)]
        go   == IF IsHandoff(next) THEN ReadSource(next) ELSE Dispatch(next)
    IN  IF MustDiscard(next)
        THEN Step(NoStage, <<AppendRecord, Publish("discarded"), RequestSnapshot>>)
        ELSE IF next.blocking # {} \/ next.sourceNeedsCompletion
        THEN Step(next, <<RequestSnapshot>>)
        ELSE Then(go, <<RequestSnapshot>>)

Concerns(stage, event) ==
    \/ event.kind \in {"status", "started", "stopped", "crashed"}
    \/ IsHandoff(stage) /\ CompletesSource(stage, event)

\* handleSessionEvent, captureHandoffCompletion.
HandleEvent(stage, event) ==
    IF stage.phase = "dispatching"
    THEN Ignore([stage EXCEPT
            !.handedOff = @ \/ event = ContextHandoff(stage.stmt.from, stage.stmt.to)])
    ELSE IF stage.phase = "waiting" /\ Concerns(stage, event)
    THEN Advance(Observed(stage, event))
    ELSE Ignore(stage)

-----------------------------------------------------------------------------
(* Operations of the user *)

\* takeForEdit and discard, on a pending stage.
Abandon(stage) == Step(NoStage, <<RequestSnapshot>>)

\* The guards under which interruptAndDispatch does anything.
CanInterrupt(stage) ==
    /\ Pending(stage)
    /\ stage.interruptPending = {}
    /\ LET next == [stage EXCEPT !.blocking = Blocked(stage.barrier, stage.unavailable)]
       IN  IF next.blocking = {} THEN ~stage.interruptRequested
                                 ELSE Interruptible(next) # {}

\* interruptAndDispatch and advanceInterruptedStage; the cancel requests are
\* queued in the order given.
Interrupt(stage, order) ==
    LET next == [stage EXCEPT !.blocking = Blocked(stage.barrier, stage.unavailable),
                              !.interruptRequested = TRUE]
        cancel(a) == ExecuteRecording(CancelRef(a), Request("cancel", a, {}), {})
    IN  IF next.blocking # {}
        THEN Step([next EXCEPT !.interruptPending = Interruptible(next)],
                  [k \in DOMAIN order |-> cancel(order[k])] \o <<RequestSnapshot>>)
        ELSE IF IsHandoff(next) /\ next.sourceNeedsCompletion
        THEN Step(next, <<RequestSnapshot>>)
        ELSE Then(IF IsHandoff(next) THEN ReadSource(next) ELSE Dispatch(next),
                  <<RequestSnapshot>>)
=============================================================================
