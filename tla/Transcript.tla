----------------------------- MODULE Transcript -----------------------------
(***************************************************************************)
(* How what participants say reaches the screen: session events (as the    *)
(* goroutines of internal/session notify them) are applied to the room in  *)
(* the order they arrive, every change becomes a TranscriptChanged delta   *)
(* (internal/interpreter/transcript.go), and the front end presents the    *)
(* deltas in order around notices of its own (internal/ui/room and its     *)
(* history).                                                               *)
(*                                                                         *)
(* The executor applies events one at a time in the order they were        *)
(* notified, and the session waits for nothing the room does, so an event  *)
(* is applied here when it is notified.  Only the front end writes its     *)
(* view, from the deltas in their order and from its own notices, so a     *)
(* delta is presented when it is made: every order of deltas and notices   *)
(* remains.  The session is reduced to what decides the order of its       *)
(* events: the goroutine that starts an agent, the one that reads it, and  *)
(* the registry; Session models it in full.                                *)
(***************************************************************************)
EXTENDS Room, SequencesExt

CONSTANTS MaxInvites,   \* invitations in a behaviour
          MaxWords,     \* fragments the agents say
          MaxExtras,    \* records appended, and notices of the front end's own
          Outputs,      \* names of output streams
          Items,        \* names of reasoning, command and file change streams
          SharedIds     \* whether two agents name their streams alike

ASSUME TranscriptAssumption ==
    /\ MaxInvites \in Nat /\ MaxWords \in Nat /\ MaxExtras \in Nat
    /\ SharedIds \in BOOLEAN

VARIABLES
    room,       \* the room
    told,       \* transcriptVersion: the version of the last delta
    view,       \* the room model of the front end
    registry,   \* who holds an alias: an invitation, or 0
    aliasOf,    \* the alias of each invitation made
    starter,    \* the goroutine that starts the agent
    reader,     \* the goroutine that reads it
    said,       \* the fragments an agent has said, per stream
    closed,     \* the streams an agent has ended
    extra       \* records appended and notices shown, so far

session == <<registry, aliasOf, starter, reader>>
speech  == <<said, closed>>
vars    == <<room, told, view, session, speech, extra>>

Inc     == 1 .. MaxInvites
Streams == Outputs \cup Items \cup {"turn"}
Kind(s) == IF s \in Items THEN "item" ELSE "output"
Id(i, s) == <<IF SharedIds THEN 0 ELSE i, s>>
Word(i, s) == [by |-> i, on |-> s, n |-> said[i][s] + 1]

Invited == Len(aliasOf)

-----------------------------------------------------------------------------
(* The front end *)

\* What is on the screen, and where the streams that are open end.
NewHistory == [records |-> <<>>, streaming |-> <<>>, departed |-> {}]

NewPresenter ==
    [records |-> <<>>, indices |-> <<>>, version |-> 0,
     open |-> <<>>, departed |-> {}, history |-> NewHistory]

\* history.Model.ApplyRoomDelta: the slice grows to reach every index.
ApplyRoomDelta(h, updates, open, departed) ==
    [records   |-> [i \in 1 .. Max(DOMAIN updates \cup {Len(h.records)}) |->
                        IF i \in DOMAIN updates THEN updates[i]
                        ELSE IF i \in DOMAIN h.records THEN h.records[i]
                        ELSE SystemRecord],
     streaming |-> [id \in DOMAIN open |-> open[id].at],
     departed  |-> departed]

\* Where a canonical record is presented: where it was, or after everything.
Places(v, updates) ==
    LET fresh   == DOMAIN updates \ DOMAIN v.indices
        Rank(i) == Cardinality({j \in fresh : j <= i})
    IN  [i \in DOMAIN v.indices \cup fresh |->
            IF i \in DOMAIN v.indices THEN v.indices[i] ELSE Len(v.records) + Rank(i)]

ApplyTranscript(v, delta) ==
    LET places == Places(v, delta.updates)
        at     == {places[i] : i \in DOMAIN delta.updates}
        moved  == [k \in at |->
                    delta.updates[CHOOSE i \in DOMAIN delta.updates : places[i] = k]]
        open   == [id \in DOMAIN delta.open |->
                    [delta.open[id] EXCEPT !.at = places[@]]]
    IN  IF delta.version <= v.version THEN v
        ELSE [records  |-> [k \in 1 .. Max(at \cup {Len(v.records)}) |->
                                IF k \in at THEN moved[k] ELSE v.records[k]],
              indices  |-> places,
              version  |-> delta.version,
              open     |-> open,
              departed |-> delta.departed,
              history  |-> ApplyRoomDelta(v.history, moved, open, delta.departed)]

\* AppendUserInput and AppendSystem: a notice the interpreter never sees.
AppendPresentationRecord(v, record) ==
    LET at == Len(v.records) + 1 IN
    [v EXCEPT !.records = Append(@, record),
              !.history = ApplyRoomDelta(@, [k \in {at} |-> record], v.open, v.departed)]

-----------------------------------------------------------------------------
(* The interpreter's model *)

\* transcriptObserver.OnRoomUpdate, called for every change of the room.
Changed(step) ==
    LET r == BumpVersion(step)
        d == IF CanBuildDelta(r, told) THEN Delta(r, told) ELSE Snapshot(r)
    IN  /\ room' = r
        /\ told' = d.version
        /\ view' = ApplyTranscript(view, d)

Quiet == UNCHANGED <<room, told, view>>

\* AppendRecord: what the user entered, the output of a shell; and the events
\* that only append, a log line and the record of a handoff.
Appended ==
    /\ extra.records + extra.notices < MaxExtras
    /\ Changed(AppendRecord(room, Notice("appended")))
    /\ extra' = [extra EXCEPT !.records = @ + 1]
    /\ UNCHANGED <<session, speech>>

-----------------------------------------------------------------------------
(* Agents come and go *)

Init ==
    /\ room = NewRoom
    /\ told = 0
    /\ view = NewPresenter
    /\ registry = [a \in Alias |-> 0]
    /\ aliasOf = <<>>
    /\ starter = [i \in Inc |-> "none"]
    /\ reader = [i \in Inc |-> "none"]
    /\ said = [i \in Inc |-> [s \in Streams |-> 0]]
    /\ closed = [i \in Inc |-> {}]
    /\ extra = [records |-> 0, notices |-> 0]

StarterGo(i, from, to) == starter[i] = from /\ starter' = [starter EXCEPT ![i] = to]
ReaderGo(i, from, to)  == reader[i] = from /\ reader' = [reader EXCEPT ![i] = to]

Invite(a) ==
    /\ registry[a] = 0
    /\ Invited < MaxInvites
    /\ aliasOf' = Append(aliasOf, a)
    /\ registry' = [registry EXCEPT ![a] = Invited + 1]
    /\ starter' = [starter EXCEPT ![Invited + 1] = "starting"]
    /\ Changed(Starting(room, a))
    /\ UNCHANGED <<reader, speech, extra>>

\* handleInviteStartError: the participant crashes, then observers hear of it.
StartFail(i) ==
    /\ StarterGo(i, "starting", "failed")
    /\ Quiet /\ UNCHANGED <<registry, aliasOf, reader, speech, extra>>

StartCrashed(i) ==
    /\ StarterGo(i, "failed", "crashed")
    /\ Changed(Gone(room, aliasOf[i]))
    /\ UNCHANGED <<registry, aliasOf, reader, speech, extra>>

\* The session is ready and the agent is read before AgentStarted is notified.
StartReady(i) ==
    /\ StarterGo(i, "starting", "ready")
    /\ ReaderGo(i, "none", "reading")
    /\ Quiet /\ UNCHANGED <<registry, aliasOf, speech, extra>>

StartAnnounce(i) ==
    /\ StarterGo(i, "ready", "done")
    /\ Changed(Started(room, aliasOf[i]))
    /\ UNCHANGED <<registry, aliasOf, reader, speech, extra>>

\* RemoveCommand.  The reader of an agent that was attached tells observers;
\* one that crashed before is told of here.
RemoveParticipant(a) ==
    LET i == registry[a] IN
    /\ i # 0
    /\ starter[i] \in {"ready", "done", "failed", "crashed"}
    /\ registry' = [registry EXCEPT ![a] = 0]
    /\ IF starter[i] \in {"failed", "crashed"} THEN Changed(Gone(room, a)) ELSE Quiet
    /\ UNCHANGED <<aliasOf, starter, reader, speech, extra>>

\* The read fails, as the agent exited or its removal stopped it, some time
\* after that: AgentStopped or AgentCrashed, and the room does the same for
\* both.
ReadError(i) ==
    /\ ReaderGo(i, "reading", "ended")
    /\ Changed(Gone(room, aliasOf[i]))
    /\ UNCHANGED <<registry, aliasOf, starter, speech, extra>>

-----------------------------------------------------------------------------
(* Agents speak *)

Spoken(i) == MapThenSumSet(LAMBDA s : said[i][s], Streams)
Opened(i) == {s \in Streams : said[i][s] > 0}

Say(i, s) ==
    /\ reader[i] = "reading"
    /\ s \notin closed[i] \cup {"turn"}
    /\ "turn" \notin closed[i]
    /\ MapThenSumSet(Spoken, Inc) < MaxWords
    /\ Changed(Fragment(room, aliasOf[i], Id(i, s), Kind(s), Word(i, s)))
    /\ said' = [said EXCEPT ![i][s] = @ + 1]
    /\ UNCHANGED <<session, closed, extra>>

\* The flush that ends a stream, and the one that ends the turn, when all that
\* it opened has ended: its anchor is a stream nothing was said on.
Finish(i, s) ==
    /\ reader[i] = "reading"
    /\ s \notin closed[i]
    /\ "turn" \notin closed[i]
    /\ IF s = "turn" THEN closed[i] # {} /\ Opened(i) \subseteq closed[i]
                     ELSE s \in Opened(i)
    /\ Changed(Flush(room, aliasOf[i], Id(i, s), Kind(s)))
    /\ closed' = [closed EXCEPT ![i] = @ \cup {s}]
    /\ UNCHANGED <<session, said, extra>>

-----------------------------------------------------------------------------
(* A notice of the front end *)

ShowNotice ==
    /\ extra.records + extra.notices < MaxExtras
    /\ view' = AppendPresentationRecord(view, Notice("notice"))
    /\ extra' = [extra EXCEPT !.notices = @ + 1]
    /\ UNCHANGED <<room, told, session, speech>>

Next ==
    \/ \E a \in Alias : Invite(a)
    \/ \E a \in Alias : RemoveParticipant(a)
    \/ \E i \in Inc : StartFail(i)
    \/ \E i \in Inc : StartCrashed(i)
    \/ \E i \in Inc : StartReady(i)
    \/ \E i \in Inc : StartAnnounce(i)
    \/ \E i \in Inc : ReadError(i)
    \/ \E i \in Inc, s \in Streams : Say(i, s)
    \/ \E i \in Inc, s \in Streams : Finish(i, s)
    \/ Appended
    \/ ShowNotice

Spec == Init /\ [][Next]_vars

-----------------------------------------------------------------------------
(* Properties *)

\* Every value has its shape: indices and streams name records that exist, and
\* the interpreter and the front end are at the version of the room.
TypeOK ==
    /\ room.records \in Seq([kind : {"system", "appended", "output", "item"},
                             alias : Alias \cup {NoAlias},
                             id : (0 .. MaxInvites) \X (Streams \cup {"none"}),
                             text : Seq([by : Inc, on : Streams, n : Nat]),
                             marked : BOOLEAN])
    /\ \A id \in DOMAIN room.streaming :
            room.streaming[id] \in [alias : Alias, at : DOMAIN room.records]
    /\ room.members \subseteq Alias /\ room.departed \subseteq Alias
    /\ room.latest \in [Alias -> 0 .. Len(room.records)]
    /\ room.version \in Nat /\ told = room.version /\ view.version = told
    /\ registry \in [Alias -> 0 .. Invited]
    /\ aliasOf \in Seq(Alias) /\ Invited <= MaxInvites
    /\ starter \in [Inc -> {"none", "starting", "failed", "crashed", "ready", "done"}]
    /\ reader \in [Inc -> {"none", "reading", "ended"}]
    /\ said \in [Inc -> [Streams -> 0 .. MaxWords]]
    /\ closed \in [Inc -> SUBSET Streams]
    /\ extra \in [records : 0 .. MaxExtras, notices : 0 .. MaxExtras]

\* The screen follows the room (projection.go, delta.go, history/model.go):
\* whatever notices are shown in between, each delta brings every record it
\* changed to its place, so the screen has every record in its last form and
\* in the room's order, the streams that are open, who departed, and nothing
\* else but the notices.
ProjectionFollows ==
    LET v == view IN
    /\ DOMAIN v.indices = DOMAIN room.records
    /\ \A i \in DOMAIN room.records : v.history.records[v.indices[i]] = room.records[i]
    /\ \A i, j \in DOMAIN room.records : i < j => v.indices[i] < v.indices[j]
    /\ Len(v.history.records) = Len(room.records) + extra.notices
    /\ v.records = v.history.records
    /\ v.history.streaming =
            [id \in DOMAIN room.streaming |-> v.indices[room.streaming[id].at]]
    /\ v.history.departed = room.departed

\* Nothing an agent says is lost, doubled or reordered (events.go): every word
\* in the room's records was said, every word said is there, and the words of a
\* stream are in the order they were said, once each, though a departure may
\* cut the stream into two records.
Spots == UNION {{k} \X DOMAIN room.records[k].text : k \in DOMAIN room.records}

WordAt(spot) == room.records[spot[1]].text[spot[2]]

Earlier(p, q) == p[1] < q[1] \/ (p[1] = q[1] /\ p[2] < q[2])

SpokenIsShown ==
    /\ \A p \in Spots : WordAt(p).n \in 1 .. said[WordAt(p).by][WordAt(p).on]
    /\ \A i \in Inc, s \in Streams : \A n \in 1 .. said[i][s] :
            \E p \in Spots : WordAt(p) = [by |-> i, on |-> s, n |-> n]
    /\ \A p, q \in Spots :
            /\ WordAt(p).by = WordAt(q).by /\ WordAt(p).on = WordAt(q).on
            /\ Earlier(p, q)
            => WordAt(p).n < WordAt(q).n

\* The mark, the cache and the record a handoff would take agree (handoff.go,
\* docs/design/handoff-command.md): a participant has at most one marked
\* record, the one cached; and the one cached is the one LatestHandoffSource
\* finds, unless the stream of the cached one was opened again since.
MarkIsLatest ==
    \A a \in Alias :
        LET marks  == {i \in DOMAIN room.records :
                            room.records[i].marked /\ room.records[i].alias = a}
            cached == room.latest[a]
        IN  /\ marks = {cached} \ {0}
            /\ \/ cached = LatestHandoffSource(room, a)
               \/ cached # 0 /\ room.records[cached].id \in DOMAIN room.streaming

\* docs/design/handoff-command.md: the transcript marks "which completed
\* output record is the current handoff-eligible source".
MarkIsSource == \A a \in Alias : room.latest[a] = LatestHandoffSource(room, a)

\* docs/design/pkg-ui-records.md: "the header provides authorship for the
\* whole record".
OwnWords ==
    \A k \in DOMAIN room.records : \A w \in ToSet(room.records[k].text) :
        aliasOf[w.by] = room.records[k].alias
=============================================================================
