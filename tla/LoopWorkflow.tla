---------------------------- MODULE LoopWorkflow ----------------------------
(***************************************************************************)
(* The loop (internal/interpreter/workflow_loop.go): send a prompt to one  *)
(* participant, wait for it to become idle, evaluate a shell condition,    *)
(* and start over until the condition succeeds or the turns are used up.   *)
(* Handlers are operators that return the loop and its instructions.       *)
(***************************************************************************)
EXTENDS Instructions

CONSTANTS MaxLoopTurns     \* the bound /max of every loop

ASSUME LoopAssumption == MaxLoopTurns \in Nat \ {0}

LoopPhases == {"dispatching", "waiting", "evaluating"}

NoLoop == [alias |-> NoAlias, phase |-> "none", turns |-> 0, pending |-> NoRef,
           submissionPending |-> FALSE, ended |-> FALSE]

Looping(loop) == loop.phase # "none"

LoopStep(loop, seq) == [loop |-> loop, seq |-> seq]
LoopIgnore(loop)    == LoopStep(loop, <<>>)

LoopMatches(loop, ref, phase) == loop.pending = ref /\ loop.phase = phase

-----------------------------------------------------------------------------

AcceptedInput == <<AppendRecord, Publish("accepted")>>
LoopStatus    == <<AppendRecord, Publish("loopStatus")>>

LoopDispatch(loop) ==
    LoopStep([loop EXCEPT !.phase = "dispatching", !.pending = Ref("loop", "dispatch")],
             <<Execute(Ref("loop", "dispatch"), Request("planShared", loop.alias, {}))>>)

\* start: one loop at a time, and its condition is a defined command.
StartLoop(loop, a, defined) ==
    IF Looping(loop) \/ ~defined
    THEN LoopStep(loop, AcceptedInput \o <<Publish("failed")>>)
    ELSE LET step == LoopDispatch([NoLoop EXCEPT !.alias = a, !.submissionPending = TRUE])
         IN  LoopStep(step.loop, AcceptedInput \o step.seq)

\* appendSubmissionSuccess.
Success(loop) ==
    IF loop.submissionPending THEN <<Publish("succeeded")>> ELSE <<>>

\* finish, finishDispatch.
Finish         == LoopStep(NoLoop, LoopStatus)
FinishDispatch(loop) == LoopStep(NoLoop, LoopStatus \o Success(loop))

\* handleSessionCompletion: the turn started, or the loop ends.
LoopSessionDone(loop, done) ==
    IF ~LoopMatches(loop, done.ref, "dispatching") THEN LoopIgnore(loop)
    ELSE IF (done.err /\ loop.alias \notin done.delivered) \/ loop.ended
    THEN FinishDispatch(loop)
    ELSE LoopStep([loop EXCEPT !.turns = @ + 1, !.phase = "waiting", !.pending = NoRef,
                               !.submissionPending = FALSE],
                  LoopStatus \o Success(loop))

\* retainDispatchTerminalEvent, handleWaitingEvent.
LoopEvent(loop, event) ==
    LET mine  == event.alias = loop.alias
        ended == mine /\ event.kind \in {"stopped", "crashed"}
    IN  CASE loop.phase = "dispatching" /\ ended -> LoopIgnore([loop EXCEPT !.ended = TRUE])
          [] loop.phase = "waiting" /\ ended -> Finish
          [] loop.phase = "waiting" /\ event = StatusChanged(loop.alias, "idle") ->
                LoopStep([loop EXCEPT !.phase = "evaluating",
                                      !.pending = Ref("loop", "shell")],
                         <<StartShell>>)
          [] OTHER -> LoopIgnore(loop)

\* handleShellCompletion.
LoopShellDone(loop, result) ==
    LET seen  == <<AppendRecord, Publish("shellCompleted")>>
        cont  == result = "failure" /\ loop.turns < MaxLoopTurns
        step  == IF cont THEN LoopDispatch([loop EXCEPT !.pending = NoRef]) ELSE Finish
    IN  IF ~LoopMatches(loop, Ref("loop", "shell"), "evaluating") THEN LoopStep(loop, seen)
        ELSE LoopStep(step.loop, seen \o step.seq \o <<RequestSnapshot>>)
=============================================================================
