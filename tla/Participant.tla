----------------------------- MODULE Participant -----------------------------
(***************************************************************************)
(* The participant status machine (internal/participant/participant.go).   *)
(* A participant is a record; every transition of the code is an operator  *)
(* that returns the updated record, next to a predicate saying when the    *)
(* code accepts the transition instead of returning an error.              *)
(* Timestamps (Since), role, color and initiative are presentation data    *)
(* and are left out.                                                       *)
(***************************************************************************)
EXTENDS Naturals

Status == {"starting", "attached", "idle", "preparing",
           "keepalive", "working", "crashed"}

\* The streams a backend names: the anchor of a turn started by Send, the
\* anchor of a notice turn, and one further stream of the turn (a message,
\* reasoning or command item).  NoStream is the empty StreamID.
Streams  == {"turn", "notice", "item"}
NoStream == "none"

\* All participants whose agent handle is in AgentRefs (0 is the nil handle)
\* and whose turn identity is in TurnIDs.
Participants(AgentRefs, TurnIDs) ==
    [status : Status,
     ready  : BOOLEAN,
     turn   : TurnIDs,
     agent  : AgentRefs,
     open   : SUBSET Streams,
     anchor : Streams \cup {NoStream}]

-----------------------------------------------------------------------------
(* View predicates *)

HasActiveTurn(p)  == p.status \in {"preparing", "working"}
IsRoutable(p)     == p.status \in {"idle", "working"}
\* Faulty variant: a participant being pinged is given work.
IsReadyForWorkLax(p) == p.ready /\ p.status \in {"idle", "keepalive"}

IsReadyForWork(p) == p.ready /\ p.status = "idle"

\* Participant.IsSendable: the View predicate and the bound handle.
IsSendable(p) ==
    /\ p.agent # 0
    /\ p.ready
    /\ p.status = "idle" \/ HasActiveTurn(p)

IsRemovable(p) ==
    \/ p.status = "crashed"
    \/ p.ready /\ p.status \in {"idle", "preparing", "working", "keepalive"}

-----------------------------------------------------------------------------
(* Transitions *)

\* New followed by BeginStartup, as InviteCommand builds a participant.
NewStarting ==
    [status |-> "starting", ready |-> FALSE, turn |-> 0,
     agent |-> 0, open |-> {}, anchor |-> NoStream]

\* resetOpenStreams and the cleared anchor, on the way to a status.
ResetTo(p, s) == [p EXCEPT !.status = s, !.open = {}, !.anchor = NoStream]

CanAttach(p)      == p.status = "starting"
AttachAgent(p, a) == [p EXCEPT !.status = "attached", !.agent = a]

CanCommitIdle(p) == p.status = "attached"
CommitIdle(p)    == [p EXCEPT !.status = "idle"]

CanSessionReady(p) == p.status = "idle"
SessionReady(p)    == [p EXCEPT !.ready = TRUE]

CanPrepare(p)     == p.status = "idle"
PrepareForWork(p) == ResetTo(p, "preparing")

CanBeginWorking(p) == p.status = "preparing"
\* Faulty variant: the anchor is not tracked.
BeginWorkingUntracked(p, anchor, turnID) ==
    [p EXCEPT !.status = "working", !.anchor = anchor, !.turn = turnID]

BeginWorking(p, anchor, turnID) ==
    [p EXCEPT !.status = "working",
              !.anchor = anchor,
              !.turn   = turnID,
              !.open   = IF anchor = NoStream THEN @ ELSE @ \cup {anchor}]

\* Faulty variant: streams are tracked outside a turn.
CanTrackAlways(p) == TRUE

CanTrack(p)        == HasActiveTurn(p)
TrackStream(p, id) == [p EXCEPT !.open = @ \cup {id}]

CanClose(p, id)    == HasActiveTurn(p) /\ id \in p.open
CloseStream(p, id) == [p EXCEPT !.open = @ \ {id}]
\* Faulty variant: a turn ends with its last stream.
ShouldIdleAllClosed(p, id) == p.status = "working" /\ p.open \subseteq {id}

\* The first result of CloseStream.
ShouldIdle(p, id)  == p.status = "working" /\ id = p.anchor

CanBecomeIdle(p) ==
    /\ p.status = "working"
    /\ IF p.anchor = NoStream THEN p.open = {} ELSE p.anchor \notin p.open
BecomeIdle(p) == ResetTo(p, "idle")

\* Faulty variant: any participant is put back to idle.
CanAbortAlways(p) == TRUE

CanAbort(p)  == HasActiveTurn(p)
AbortWork(p) == ResetTo(p, "idle")

CanBeginKeepalive(p)  == p.status = "idle"
BeginKeepalive(p)     == [p EXCEPT !.status = "keepalive"]
CanFinishKeepalive(p) == p.status = "keepalive"
FinishKeepalive(p)    == [p EXCEPT !.status = "idle"]

Crash(p) == ResetTo(p, "crashed")
=============================================================================
