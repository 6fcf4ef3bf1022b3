---------------------------- MODULE Instructions ----------------------------
(***************************************************************************)
(* The vocabulary between the workflows of the interpreter and its         *)
(* instruction runner (internal/interpreter/workflow_instruction.go): the  *)
(* instructions a workflow returns, the completions it gets back, and the  *)
(* session events it follows.                                              *)
(*                                                                         *)
(* A workflowRef is the kind of the workflow, what was asked and for whom. *)
(* The code numbers its requests; every request of a stage is answered in  *)
(* the run that makes it, and a loop has one request open at a time, so    *)
(* the name of the request tells apart what the numbers do.                *)
(***************************************************************************)
EXTENDS Participant, Sequences, FiniteSets

CONSTANTS NoAlias     \* no alias

Ref(kind, of)      == [kind |-> kind, of |-> of, alias |-> NoAlias]
CancelRef(a)       == [kind |-> "stage", of |-> "cancel", alias |-> a]
NoRef              == Ref("none", "none")

-----------------------------------------------------------------------------
(* Session events that reach a workflow *)

Event(kind, a)     == [kind |-> kind, alias |-> a, to |-> "none",
                       turn |-> 0, visible |-> FALSE]
StatusChanged(a, s)      == [Event("status", a) EXCEPT !.to = s]
AgentStarted(a)          == Event("started", a)
AgentStopped(a)          == Event("stopped", a)
AgentCrashed(a)          == Event("crashed", a)
\* The message that completed a turn; visible when the turn left output in
\* the room.
TurnCompleted(a, n, vis) == [Event("message", a) EXCEPT !.turn = n, !.visible = vis]
\* The handoff from one alias that the other one received.
ContextHandoff(from, to) == [Event("handoff", from) EXCEPT !.to = to]

-----------------------------------------------------------------------------
(* Instructions *)

\* publishEventInstruction: what is said to the front end, and to whom the
\* input went when the event says so.
Publish(what)         == [do |-> "publish", what |-> what, routing |-> {}]
PublishTo(what, to)   == [do |-> "publish", what |-> what, routing |-> to]
AppendRecord          == [do |-> "append", routing |-> {}]
AppendInput(to)       == [do |-> "append", routing |-> to]
RequestSnapshot       == [do |-> "requestSnapshot"]
PublishSnapshot       == [do |-> "publishSnapshot"]
PlanShared(a)         == [do |-> "planShared", alias |-> a]
PlanBroadcast         == [do |-> "planBroadcast"]
ReadParticipants      == [do |-> "readParticipants"]
ReadRoster            == [do |-> "readRoster"]
ReadHandoffSource(a)  == [do |-> "readSource", alias |-> a]
StartShell            == [do |-> "startShell"]
StartUserShell        == [do |-> "startUserShell"]
ExecuteCommand(c)     == [do |-> "command", command |-> c]

\* executeSessionInstruction, with recordsOnSuccess as a flag and a routing.
Execute(ref, request) ==
    [do |-> "execute", ref |-> ref, request |-> request,
     recorded |-> FALSE, routing |-> {}]
ExecuteRecording(ref, request, to) ==
    [Execute(ref, request) EXCEPT !.recorded = TRUE, !.routing = to]

Request(kind, direct, others) ==
    [kind |-> kind, direct |-> direct, others |-> others]

\* The completion of a session request: err, and DeliveredAliases(err).
SessionDone(ref, err, delivered, recorded) ==
    [do |-> "sessionDone", ref |-> ref, err |-> err,
     delivered |-> delivered, recorded |-> recorded]
PlanDone(targets)     == [do |-> "planDone", targets |-> targets]
ParticipantsDone(b)   == [do |-> "participantsDone", barrier |-> b]
SourceDone(ok)        == [do |-> "sourceDone", ok |-> ok]
RosterDone            == [do |-> "rosterDone"]
CommandDone(ok)       == [do |-> "commandDone", ok |-> ok]
Burst(events)         == [do |-> "burst", events |-> events]
=============================================================================
