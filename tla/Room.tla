-------------------------------- MODULE Room --------------------------------
(***************************************************************************)
(* The room projection (internal/room): the records a chat shows, the      *)
(* streams still open, who is a member, which record of each participant a *)
(* handoff would take, and the record indices each version made dirty.     *)
(* Every operation of the code runs under the room's lock, so it is an     *)
(* operator from a room to a step: the new room and the dirty indices the  *)
(* code returns with it.                                                   *)
(*                                                                         *)
(* A text is the sequence of the fragments accumulated in it.  Reasoning,  *)
(* command and file change records are one kind, "item"; the text of       *)
(* system records and the routing of user records are left out.  No        *)
(* backend says output as a single message, so a message is a fragment of  *)
(* a stream or its flush.                                                  *)
(***************************************************************************)
EXTENDS Naturals, Sequences, Functions, FiniteSetsExt

CONSTANTS Alias, NoAlias,
          DeltaHistoryLimit      \* versions whose dirty indices are kept

ASSUME RoomAssumption == NoAlias \notin Alias /\ DeltaHistoryLimit \in Nat \ {0}

NoStream == <<0, "none">>

Record(kind, a, id, text) ==
    [kind |-> kind, alias |-> a, id |-> id, text |-> text, marked |-> FALSE]
SystemRecord  == Record("system", NoAlias, NoStream, <<>>)
Notice(kind)  == Record(kind, NoAlias, NoStream, <<>>)

NewRoom ==
    [records   |-> <<>>,
     streaming |-> <<>>,                     \* stream -> [alias, at]
     members   |-> {},
     departed  |-> {},
     latest    |-> [a \in Alias |-> 0],      \* 0: no handoff source cached
     version   |-> 0,
     dirty     |-> <<>>]                     \* version -> indices

-----------------------------------------------------------------------------
(* Steps, and doing one after another *)

Step(r, touched) == [room |-> r, dirty |-> touched]

Then(first, second) == Step(second.room, first.dirty \cup second.dirty)

AppendRecord(r, record) ==
    Step([r EXCEPT !.records = Append(@, record)], {Len(r.records) + 1})

-----------------------------------------------------------------------------
(* The record a handoff would take *)

HandoffEligible(r, i, a) ==
    LET record == r.records[i] IN
    /\ record.alias = a
    /\ record.kind = "output"
    /\ record.id \notin DOMAIN r.streaming
    /\ record.text # <<>>

LatestHandoffSource(r, a) ==
    LET eligible == {i \in DOMAIN r.records : HandoffEligible(r, i, a)}
    IN  IF a \in r.members /\ eligible # {} THEN Max(eligible) ELSE 0

\* The marks after the source of a participant moved.
Remark(r, a, next, mark, unmark) ==
    LET Marked(i) == (r.records[i].marked \/ i \in mark) /\ i \notin unmark
    IN  [r EXCEPT !.latest[a] = next,
                  !.records = [i \in DOMAIN @ |->
                                    [r.records[i] EXCEPT !.marked = Marked(i)]]]

\* Faulty variant: the record that loses its mark is not reported.
RefreshQuiet(r, a) ==
    LET next   == LatestHandoffSource(r, a)
        unmark == {i \in DOMAIN r.records : i = r.latest[a] /\ i # next}
        mark   == {i \in DOMAIN r.records : i = next /\ ~r.records[i].marked}
    IN  Step(Remark(r, a, next, mark, unmark), mark)

\* refreshLatestHandoffSourceLocked with its clear and swap.
RefreshLatestHandoffSource(r, a) ==
    LET next   == LatestHandoffSource(r, a)
        unmark == {i \in DOMAIN r.records :
                        i = r.latest[a] /\ r.records[i].marked /\ i # next}
        mark   == {i \in DOMAIN r.records : i = next /\ ~r.records[i].marked}
    IN  Step(Remark(r, a, next, mark, unmark), unmark \cup mark)

-----------------------------------------------------------------------------
(* Messages of a participant *)

OpenStream(r, a, id, kind, word) ==
    LET at == Len(r.records) + 1 IN
    Step([r EXCEPT !.records = Append(@, Record(kind, a, id, <<word>>)),
                   !.streaming = [s \in DOMAIN @ \cup {id} |->
                        IF s = id THEN [alias |-> a, at |-> at] ELSE @[s]]],
         {at})

\* Message.Accumulate: refused when the contents are of different kinds.
Accumulates(r, id, kind) ==
    id \in DOMAIN r.streaming /\ r.records[r.streaming[id].at].kind = kind

\* Faulty variant: a fragment replaces what was said before it.
AccumulateOver(r, id, word) ==
    LET at == r.streaming[id].at IN
    Step([r EXCEPT !.records[at].text = <<word>>], {at})

Accumulate(r, id, word) ==
    LET at == r.streaming[id].at IN
    Step([r EXCEPT !.records[at].text = Append(@, word)], {at})

\* handleAgentMessageLocked, of a fragment ...
Fragment(r, a, id, kind, word) ==
    IF Accumulates(r, id, kind) THEN Accumulate(r, id, word)
                                ELSE OpenStream(r, a, id, kind, word)

SealStream(r, id) ==
    Step([r EXCEPT !.streaming = Restrict(@, DOMAIN @ \ {id})], {})

\* Faulty variant: the end of an output stream leaves the source as it was.
FlushUnrefreshed(r, a, id, kind) == SealStream(r, id)

\* ... and of a flush: the end of output may change the handoff source.
Flush(r, a, id, kind) ==
    LET sealed == SealStream(r, id)
    IN  IF kind = "output"
        THEN Then(sealed, RefreshLatestHandoffSource(sealed.room, a))
        ELSE sealed

-----------------------------------------------------------------------------
(* Lifecycle events *)

ClearStreams(r, a) ==
    [r EXCEPT !.streaming = Restrict(@, {id \in DOMAIN @ : @[id].alias # a})]

Departure(r, a) ==
    LET gone == [ClearStreams(r, a) EXCEPT !.members = @ \ {a}, !.departed = @ \cup {a}]
    IN  RefreshLatestHandoffSource(gone, a)

Starting(r, a) == AppendRecord(r, SystemRecord)

Announced(step) == Then(step, AppendRecord(step.room, SystemRecord))

Started(r, a) ==
    LET in == [r EXCEPT !.members = @ \cup {a}, !.departed = @ \ {a}]
    IN  Announced(RefreshLatestHandoffSource(in, a))

\* AgentStopped and AgentCrashed.
Gone(r, a) == Announced(Departure(r, a))

-----------------------------------------------------------------------------
(* Versions and deltas *)

\* bumpVersionLocked and pruneDirtyLocked
BumpVersion(step) ==
    LET v    == step.room.version + 1
        all  == [n \in DOMAIN step.room.dirty \cup {v} |->
                    IF n = v THEN step.dirty ELSE step.room.dirty[n]]
        kept == IF Cardinality(DOMAIN all) <= DeltaHistoryLimit
                THEN DOMAIN all
                ELSE {n \in DOMAIN all : n + DeltaHistoryLimit > v}
    IN  [step.room EXCEPT !.version = v, !.dirty = Restrict(all, kept)]

CanBuildDelta(r, from) ==
    /\ from \in 1 .. r.version
    /\ (from + 1) .. r.version \subseteq DOMAIN r.dirty

DeltaOf(r, indices) ==
    [version  |-> r.version,
     departed |-> r.departed,
     open     |-> r.streaming,
     updates  |-> Restrict(r.records, indices)]

Delta(r, from) ==
    DeltaOf(r, UNION {r.dirty[v] : v \in (from + 1) .. r.version})

Snapshot(r) == DeltaOf(r, DOMAIN r.records)
=============================================================================
