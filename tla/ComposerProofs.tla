---------------------------- MODULE ComposerProofs ----------------------------
(***************************************************************************)
(* What holds of Composer for any texts and any number of keys and         *)
(* prompts: a user at the composer can type, a message that reached        *)
(* somebody does not come back, and the submission gate is closed exactly  *)
(* while one submission is under way.                                      *)
(***************************************************************************)
EXTENDS Composer, TLAPS

(***************************************************************************)
(* The input area                                                          *)
(***************************************************************************)

RoomFields == {"kind", "previous", "focus", "restore", "text", "editable"}

\* A room whose composer takes keys when the user is at it.
Usable(m) ==
    /\ DOMAIN m = RoomFields
    /\ m.editable \in BOOLEAN
    /\ AtComposer(m) => m.editable = TRUE

LEMMA TextUsable ==
    ASSUME NEW m, Usable(m), NEW t
    PROVE  /\ Usable(SetComposeValue(m, t))
           /\ Usable(RestoreComposer(m, t))
           /\ Usable(ClearSubmitted(m, t))
BY DEF Usable, RoomFields, AtComposer, SetComposeValue, RestoreComposer, ClearSubmitted

LEMMA FocusUsable ==
    ASSUME NEW m, DOMAIN m = RoomFields, m.editable \in BOOLEAN
    PROVE  Usable(ComposeFocus(m))
BY DEF Usable, RoomFields, AtComposer, ComposeFocus

LEMMA UnstageUsable ==
    ASSUME NEW m, Usable(m)
    PROVE  Usable(ClearComposerStaged(m))
BY DEF Usable, RoomFields, AtComposer, ClearComposerStaged, IsStaged

LEMMA StageUsable ==
    ASSUME NEW m, Usable(m), NEW t
    PROVE  Usable(SetComposerStaged(m, t))
BY DEF Usable, RoomFields, AtComposer, SetComposerStaged, SetStagedKind

LEMMA PromptUsable ==
    ASSUME NEW m, Usable(m)
    PROVE  Usable(ShowApproval(m)) /\ Usable(ClearApproval(m))
<1>1. Usable(ShowApproval(m))
  BY DEF Usable, RoomFields, AtComposer, ShowApproval
<1>2. Usable(ClearApproval(m))
  <2>. DEFINE n == [m EXCEPT !.kind = m.previous, !.focus = m.restore,
                             !.previous = "compose", !.restore = "input"]
  <2>1. DOMAIN n = RoomFields /\ n.editable \in BOOLEAN
    BY DEF Usable, RoomFields
  <2>2. Usable(ComposeFocus(n))
    <3>. HIDE DEF n
    <3>. QED  BY <2>1, FocusUsable
  <2>. QED  BY <2>2 DEF ClearApproval
<1>. QED  BY <1>1, <1>2

LEMMA ToggleUsable ==
    ASSUME NEW m, Usable(m)
    PROVE  Usable(ToggleFocus(m))
<1>1. CASE m.focus = "input"
  BY <1>1 DEF Usable, RoomFields, AtComposer, ToggleFocus
<1>2. CASE m.focus # "input"
  <2>. DEFINE n == [m EXCEPT !.focus = "input"]
  <2>1. DOMAIN n = RoomFields /\ n.editable \in BOOLEAN
    BY DEF Usable, RoomFields
  <2>2. Usable(ComposeFocus(n))
    <3>. HIDE DEF n
    <3>. QED  BY <2>1, FocusUsable
  <2>. QED  BY <1>2, <2>2 DEF ToggleFocus
<1>. QED  BY <1>1, <1>2

(***************************************************************************)
(* Events in the order they were published                                 *)
(***************************************************************************)

\* The failure of a message that somebody got.
Partial(e)        == e.kind = "failed" /\ e.sent = TRUE
Precedes(e, raw)  == e.kind = "dispatched" /\ e.raw = raw

IsSeq(s) == \E S : s \in Seq(S)

EventKinds ==
    {"state", "accepted", "dispatched", "discarded", "succeeded", "failed", "rejected",
     "unknown"}

\* Such a failure comes right after the news of the dispatch.
Ordered(s) ==
    /\ IsSeq(s)
    /\ \A k \in 1 .. Len(s) : s[k].kind \in EventKinds
    /\ \A k \in 2 .. Len(s) : Partial(s[k]) => Precedes(s[k - 1], s[k].raw)

\* And it is not the first.
Opening(s) == Ordered(s) /\ (Len(s) > 0 => ~ Partial(s[1]))

LEMMA PublishOrdered ==
    ASSUME NEW s, NEW t, Ordered(s), Opening(t)
    PROVE  /\ Ordered(s \o t)
           /\ Len(s) > 0 => Len(s \o t) > 0 /\ (s \o t)[1] = s[1]
           /\ Len(s) = 0 /\ Len(s \o t) > 0 => ~ Partial((s \o t)[1])
<1>1. PICK S : s \in Seq(S)
  BY DEF Ordered, IsSeq
<1>2. PICK T : t \in Seq(T)
  BY DEF Opening, Ordered, IsSeq
<1>3. s \in Seq(S \cup T) /\ t \in Seq(S \cup T)
  BY <1>1, <1>2
<1>4. /\ s \o t \in Seq(S \cup T) /\ Len(s) \in Nat /\ Len(t) \in Nat
      /\ Len(s \o t) = Len(s) + Len(t)
      /\ \A k \in 1 .. Len(s) : (s \o t)[k] = s[k]
      /\ \A k \in 1 .. Len(t) : (s \o t)[Len(s) + k] = t[k]
  BY <1>3
<1>5. \A k \in Len(s) + 1 .. Len(s \o t) :
          k - Len(s) \in 1 .. Len(t) /\ (s \o t)[k] = t[k - Len(s)]
  <2>1. SUFFICES ASSUME NEW k \in Len(s) + 1 .. Len(s \o t)
                 PROVE  k - Len(s) \in 1 .. Len(t) /\ (s \o t)[k] = t[k - Len(s)]
    OBVIOUS
  <2>2. k - Len(s) \in 1 .. Len(t) /\ Len(s) + (k - Len(s)) = k
    BY <1>4
  <2>. QED  BY <1>4, <2>2
<1>6. ASSUME NEW k \in 2 .. Len(s \o t), Partial((s \o t)[k])
      PROVE  Precedes((s \o t)[k - 1], (s \o t)[k].raw)
  <2>1. CASE k <= Len(s)
    BY <1>4, <1>6, <2>1 DEF Ordered
  <2>2. CASE k = Len(s) + 1
    <3>1. (s \o t)[k] = t[1] /\ Len(t) > 0
      BY <1>4, <2>2
    <3>. QED  BY <1>6, <3>1 DEF Opening
  <2>3. CASE k > Len(s) + 1
    <3>1. /\ k - Len(s) \in 2 .. Len(t)
          /\ (s \o t)[k] = t[k - Len(s)]
          /\ (s \o t)[k - 1] = t[k - Len(s) - 1]
      <4>1. k - 1 \in Len(s) + 1 .. Len(s \o t) /\ (k - 1) - Len(s) = k - Len(s) - 1
        BY <1>4, <2>3
      <4>. QED  BY <1>4, <1>5, <2>3, <4>1
    <3>. QED  BY <1>6, <3>1 DEF Opening, Ordered
  <2>. QED  BY <1>4, <2>1, <2>2, <2>3
<1>7. Ordered(s \o t)
  <2>1. ASSUME NEW k \in 1 .. Len(s \o t)
        PROVE  (s \o t)[k].kind \in EventKinds
    <3>1. CASE k \in 1 .. Len(s)
      BY <1>4, <3>1 DEF Ordered
    <3>2. CASE k \in Len(s) + 1 .. Len(s \o t)
      BY <1>5, <3>2 DEF Opening, Ordered
    <3>. QED  BY <1>4, <3>1, <3>2
  <2>. QED  BY <1>4, <1>6, <2>1 DEF Ordered, IsSeq
<1>8. Len(s) = 0 /\ Len(s \o t) > 0 => ~ Partial((s \o t)[1])
  BY <1>4 DEF Opening
<1>. QED  BY <1>4, <1>7, <1>8

LEMMA HandledOrdered ==
    ASSUME NEW s, Ordered(s), s # <<>>
    PROVE  /\ Ordered(Tail(s)) /\ Head(s) = s[1]
           /\ s[1].kind \in EventKinds
           /\ Len(Tail(s)) > 0 /\ Partial(Tail(s)[1]) => Precedes(s[1], Tail(s)[1].raw)
<1>1. PICK S : s \in Seq(S)
  BY DEF Ordered, IsSeq
<1>2. /\ Tail(s) \in Seq(S) /\ Len(s) \in Nat \ {0} /\ Len(Tail(s)) = Len(s) - 1
      /\ \A k \in 1 .. Len(s) - 1 : Tail(s)[k] = s[k + 1]
      /\ Head(s) = s[1]
  BY <1>1
<1>3. ASSUME NEW k \in 2 .. Len(Tail(s)), Partial(Tail(s)[k])
      PROVE  Precedes(Tail(s)[k - 1], Tail(s)[k].raw)
  <2>1. /\ k + 1 \in 2 .. Len(s) /\ (k + 1) - 1 = k /\ (k - 1) + 1 = k
        /\ k \in 1 .. Len(s) - 1 /\ k - 1 \in 1 .. Len(s) - 1
    BY <1>2
  <2>2. Tail(s)[k] = s[k + 1] /\ Tail(s)[k - 1] = s[k]
    BY <1>2, <2>1
  <2>. QED  BY <1>3, <2>1, <2>2 DEF Ordered
<1>4. ASSUME Len(Tail(s)) > 0, Partial(Tail(s)[1])
      PROVE  Precedes(s[1], Tail(s)[1].raw)
  <2>1. Tail(s)[1] = s[2] /\ 2 \in 2 .. Len(s) /\ 2 - 1 = 1
    BY <1>2, <1>4
  <2>. QED  BY <1>4, <2>1 DEF Ordered
<1>5. Ordered(Tail(s))
  <2>1. ASSUME NEW k \in 1 .. Len(Tail(s))
        PROVE  Tail(s)[k].kind \in EventKinds
    <3>1. k \in 1 .. Len(s) - 1 /\ k + 1 \in 1 .. Len(s)
      BY <1>2
    <3>. QED  BY <1>2, <3>1 DEF Ordered
  <2>. QED  BY <1>2, <1>3, <2>1 DEF Ordered, IsSeq
<1>6. s[1].kind \in EventKinds
  BY <1>2 DEF Ordered
<1>. QED  BY <1>2, <1>4, <1>5, <1>6

(***************************************************************************)
(* An event is presented                                                   *)
(***************************************************************************)

UIFields == {"pending", "awaiting", "presented", "preserve", "dispatched", "approval"}

LEMMA StagePresented ==
    ASSUME NEW m, Usable(m), NEW u, DOMAIN u = UIFields, NEW raw
    PROVE  /\ Usable(PresentStage(m, u, raw).room)
           /\ DOMAIN PresentStage(m, u, raw).ui = UIFields
           /\ PresentStage(m, u, raw).ui.dispatched = u.dispatched
<1>1. /\ Usable(ClearInterpreterStage(m, u).room)
      /\ DOMAIN ClearInterpreterStage(m, u).ui = UIFields
      /\ ClearInterpreterStage(m, u).ui.dispatched = u.dispatched
  <2>. DEFINE n == ClearComposerStaged(m)
  <2>1. Usable(n) /\ Usable(SetComposeValue(n, NoText))
    BY UnstageUsable, TextUsable
  <2>. HIDE DEF n
  <2>2. ClearInterpreterStage(m, u) =
            IF ~ u.presented THEN Shows(m, u)
            ELSE Shows(IF u.preserve THEN n ELSE SetComposeValue(n, NoText),
                       [u EXCEPT !.presented = FALSE, !.preserve = FALSE])
    BY DEF ClearInterpreterStage, n
  <2>. QED  BY <2>1, <2>2 DEF Shows, UIFields
<1>2. Usable(SetComposerStaged(m, raw))
  BY StageUsable
<1>. QED  BY <1>1, <1>2 DEF PresentStage, Shows, UIFields

LEMMA EventPresented ==
    ASSUME NEW m, Usable(m), NEW u, DOMAIN u = UIFields, NEW e, e.kind \in EventKinds
    PROVE  /\ Usable(Present(m, u, e).room)
           /\ DOMAIN Present(m, u, e).ui = UIFields
           /\ e.kind = "dispatched" => Present(m, u, e).ui.dispatched = e.raw
<1>1. CASE e.kind = "state"
  <2>. DEFINE p == PresentStage(m, u, e.stage)
  <2>1. Usable(p.room) /\ DOMAIN p.ui = UIFields
    BY StagePresented
  <2>2. Usable(ShowApproval(p.room)) /\ Usable(ClearApproval(p.room))
    BY <2>1, PromptUsable
  <2>3. Present(m, u, e) = PresentSnapshot(m, u, e)
    BY <1>1 DEF Present
  <2>4. \/ PresentSnapshot(m, u, e) = p
        \/ \E n \in {ClearApproval(p.room), ShowApproval(p.room)} :
              PresentSnapshot(m, u, e) = Shows(n, [p.ui EXCEPT !.approval = e.approval])
    BY DEF PresentSnapshot
  <2>. HIDE DEF p
  <2>. QED  BY <1>1, <2>1, <2>2, <2>3, <2>4 DEF Shows, UIFields
<1>2. CASE e.kind \in {"accepted", "dispatched"}
  BY <1>2 DEF Present, Shows, UIFields
<1>3. CASE e.kind = "discarded"
  <2>1. Usable(RestoreComposer(m, e.raw))
    BY TextUsable
  <2>. QED  BY <1>3, <2>1 DEF Present, Shows, UIFields
<1>4. CASE e.kind = "failed"
  <2>1. Usable(RestoreFailed(m, u, e.raw))
    BY TextUsable DEF RestoreFailed
  <2>. QED  BY <1>4, <2>1 DEF Present, Shows, UIFields, ReleaseGate
<1>5. CASE e.kind \in {"succeeded", "rejected", "unknown"}
  BY <1>5 DEF Present, Shows, UIFields, ReleaseGate
<1>. QED  BY <1>1, <1>2, <1>3, <1>4, <1>5 DEF EventKinds

(***************************************************************************)
(* The invariant                                                           *)
(***************************************************************************)

\* The front end remembers the dispatch that a failure at the head follows.
Remembered(s, u) == Len(s) > 0 /\ Partial(s[1]) => u.dispatched = s[1].raw

CInv ==
    /\ Usable(room)
    /\ DOMAIN ui = UIFields
    /\ Ordered(events)
    /\ Remembered(events, ui)

\* The front end moves, and the events stay.
LEMMA FrontEndStep ==
    ASSUME CInv, UNCHANGED events, Usable(room'),
           DOMAIN ui' = UIFields, ui'.dispatched = ui.dispatched
    PROVE  CInv'
BY DEF CInv, Remembered

\* The interpreter publishes.
LEMMA InterpreterStep ==
    ASSUME CInv, UNCHANGED <<room, ui>>, NEW t, Publish(t), Opening(t)
    PROVE  CInv'
<1>1. /\ Ordered(events')
      /\ Len(events) > 0 => Len(events') > 0 /\ events'[1] = events[1]
      /\ Len(events) = 0 /\ Len(events') > 0 => ~ Partial(events'[1])
  BY PublishOrdered DEF CInv, Publish
<1>2. Len(events) \in Nat
  BY DEF CInv, Ordered, IsSeq
<1>3. Remembered(events', ui')
  BY <1>1, <1>2 DEF CInv, Remembered
<1>. QED  BY <1>1, <1>3 DEF CInv

LEMMA OpeningOfOne ==
    ASSUME NEW a, a.kind \in EventKinds, ~ Partial(a)
    PROVE  Opening(<<a>>)
<1>. DEFINE s == <<a>>
<1>1. s \in Seq({a}) /\ Len(s) = 1 /\ s[1] = a
  OBVIOUS
<1>2. \A k \in 1 .. 1 : k = 1
  OBVIOUS
<1>3. ~ \E k \in 2 .. 1 : TRUE
  OBVIOUS
<1>. HIDE DEF s
<1>4. Opening(s)
  BY <1>1, <1>2, <1>3 DEF Opening, Ordered, IsSeq
<1>. QED  BY <1>4 DEF s

LEMMA OpeningOfThree ==
    ASSUME NEW a, NEW b, NEW c,
           a.kind \in EventKinds, b.kind \in EventKinds, c.kind \in EventKinds,
           ~ Partial(a), ~ Partial(b), Partial(c) => Precedes(b, c.raw)
    PROVE  Opening(<<a, b, c>>)
<1>. DEFINE s == <<a, b, c>>
<1>1. s \in Seq({a, b, c}) /\ Len(s) = 3 /\ s[1] = a /\ s[2] = b /\ s[3] = c
  OBVIOUS
<1>2. \A k \in 1 .. 3 : k = 1 \/ k = 2 \/ k = 3
  OBVIOUS
<1>3. ASSUME NEW k \in 2 .. 3, Partial(s[k])
      PROVE  Precedes(s[k - 1], s[k].raw)
  BY <1>1, <1>3
<1>. HIDE DEF s
<1>4. Opening(s)
  BY <1>1, <1>2, <1>3 DEF Opening, Ordered, IsSeq
<1>. QED  BY <1>4 DEF s

LEMMA InitHolds == Init => CInv
<1>. SUFFICES ASSUME Init PROVE CInv
  OBVIOUS
<1>1. Usable(room)
  BY DEF Init, NewRoom, Usable, RoomFields, AtComposer
<1>2. DOMAIN ui = UIFields
  BY DEF Init, NewUI, UIFields
<1>3. /\ StateChanged(NoText, 0).kind = "state"
      /\ ~ Partial(StateChanged(NoText, 0))
  BY DEF StateChanged, Event, Partial
<1>4. Opening(events)
  <2>1. "state" \in EventKinds
    BY DEF EventKinds
  <2>. QED  BY <1>3, <2>1, OpeningOfOne DEF Init
<1>. QED  BY <1>1, <1>2, <1>4 DEF CInv, Opening, Remembered

LEMMA KeyKeeps ==
    ASSUME CInv, Key
    PROVE  CInv'
<1>. USE DEF CInv, FrontEndOnly, UIFields
<1>1. ASSUME NEW t, Type(t) PROVE CInv'
  BY <1>1, FrontEndStep, TextUsable DEF Type
<1>2. ASSUME NEW t, OpenEditor(t) PROVE CInv'
  BY <1>2, FrontEndStep DEF OpenEditor
<1>3. CASE Enter
  <2>1. CASE ui.pending
    BY <1>3, <2>1, FrontEndStep DEF Enter
  <2>2. CASE ~ ui.pending
    <3>1. /\ UNCHANGED events /\ room' = SetComposeValue(room, NoText)
          /\ ui' = [ui EXCEPT !.pending = TRUE, !.awaiting = room.text]
      BY <1>3, <2>2 DEF Enter
    <3>2. Usable(room')
      BY <3>1, TextUsable
    <3>. QED  BY <3>1, <3>2, FrontEndStep
  <2>. QED  BY <2>1, <2>2
<1>4. CASE StagedEscape
  <2>1. Usable(ClearComposerStaged(room))
    BY UnstageUsable
  <2>2. Usable(ComposeFocus(ClearComposerStaged(room)))
    BY <2>1, FocusUsable DEF Usable
  <2>. QED  BY <1>4, <2>2, FrontEndStep DEF StagedEscape
<1>5. CASE StagedInterrupt
  BY <1>5, FrontEndStep DEF StagedInterrupt
<1>6. CASE StagedClear
  BY <1>6, FrontEndStep, TextUsable, UnstageUsable DEF StagedClear
<1>7. CASE PromptKey
  BY <1>7, FrontEndStep DEF PromptKey
<1>8. CASE PromptCancel
  BY <1>8, FrontEndStep, PromptUsable DEF PromptCancel
<1>9. CASE ChangeFocus
  BY <1>9, FrontEndStep, ToggleUsable DEF ChangeFocus
<1>. QED  BY <1>1, <1>2, <1>3, <1>4, <1>5, <1>6, <1>7, <1>8, <1>9 DEF Key

LEMMA MessageKeeps ==
    ASSUME CInv, NEW c, Message(c)
    PROVE  CInv'
<1>. USE DEF CInv, Receive, UIFields
<1>1. CASE SubmitUIOnly(c)
  BY <1>1, FrontEndStep, TextUsable DEF SubmitUIOnly, ReleaseGate
<1>2. CASE Submit(c)
  <2>1. \A p, w : LET u == [ui EXCEPT !.pending = p, !.awaiting = w]
                  IN  DOMAIN u = UIFields /\ u.dispatched = ui.dispatched
    OBVIOUS
  <2>2. \/ ui' = ui
        \/ \E p, w : ui' = [ui EXCEPT !.pending = p, !.awaiting = w]
    BY <1>2 DEF Submit
  <2>3. DOMAIN ui' = UIFields /\ ui'.dispatched = ui.dispatched
    BY <2>1, <2>2
  <2>4. UNCHANGED events
    BY <1>2 DEF Submit
  <2>5. Usable(room')
    BY <1>2, TextUsable DEF Submit
  <2>. QED  BY <2>3, <2>4, <2>5, FrontEndStep
<1>3. CASE StageMessage(c)
  BY <1>3, FrontEndStep, UnstageUsable DEF StageMessage
<1>4. CASE StageCall(c)
  BY <1>4, FrontEndStep DEF StageCall
<1>5. CASE StageTaken(c)
  BY <1>5, FrontEndStep, UnstageUsable, TextUsable DEF StageTaken
<1>6. CASE PromptAnswered(c)
  BY <1>6, FrontEndStep, PromptUsable DEF PromptAnswered
<1>7. CASE Decide(c)
  BY <1>7, FrontEndStep DEF Decide
<1>8. CASE EditorDone(c)
  BY <1>8, FrontEndStep, TextUsable DEF EditorDone
<1>. QED  BY <1>1, <1>2, <1>3, <1>4, <1>5, <1>6, <1>7, <1>8 DEF Message

LEMMA EventKeeps ==
    ASSUME CInv, HandleEvent
    PROVE  CInv'
<1>. DEFINE e    == Head(events)
            next == Present(room, ui, e)
<1>1. /\ Ordered(events') /\ e = events[1] /\ e.kind \in EventKinds
      /\ Len(events') > 0 /\ Partial(events'[1]) => Precedes(e, events'[1].raw)
  BY HandledOrdered DEF CInv, HandleEvent
<1>. HIDE DEF e
<1>2. /\ Usable(next.room) /\ DOMAIN next.ui = UIFields
      /\ e.kind = "dispatched" => next.ui.dispatched = e.raw
  BY <1>1, EventPresented DEF CInv
<1>3. room' = next.room /\ ui' = next.ui
  BY DEF HandleEvent, e
<1>4. Remembered(events', ui')
  BY <1>1, <1>2, <1>3 DEF Remembered, Precedes
<1>. QED  BY <1>1, <1>2, <1>3, <1>4 DEF CInv

(***************************************************************************)
(* What the interpreter publishes                                          *)
(***************************************************************************)

LEMMA AppendOpening ==
    ASSUME NEW s, Opening(s), NEW e, e.kind \in EventKinds, ~ Partial(e)
    PROVE  Opening(Append(s, e))
<1>1. PICK S : s \in Seq(S)
  BY DEF Opening, Ordered, IsSeq
<1>2. s \in Seq(S \cup {e}) /\ e \in S \cup {e}
  BY <1>1
<1>3. /\ Append(s, e) \in Seq(S \cup {e}) /\ Len(s) \in Nat
      /\ Len(Append(s, e)) = Len(s) + 1
      /\ Append(s, e)[Len(s) + 1] = e
      /\ \A k \in 1 .. Len(s) : Append(s, e)[k] = s[k]
  BY <1>2
<1>4. ASSUME NEW k \in 1 .. Len(s) + 1
      PROVE  Append(s, e)[k].kind \in EventKinds
  BY <1>3 DEF Opening, Ordered
<1>5. ASSUME NEW k \in 2 .. Len(s) + 1, Partial(Append(s, e)[k])
      PROVE  Precedes(Append(s, e)[k - 1], Append(s, e)[k].raw)
  <2>1. k \in 2 .. Len(s) /\ k - 1 \in 1 .. Len(s)
    BY <1>3, <1>5
  <2>. QED  BY <1>3, <1>5, <2>1 DEF Opening, Ordered
<1>6. ~ Partial(Append(s, e)[1])
  BY <1>3 DEF Opening
<1>. QED  BY <1>3, <1>4, <1>5, <1>6 DEF Opening, Ordered, IsSeq

LEMMA EventFields ==
    /\ \A kind, raw, sent :
           /\ Event(kind, raw, sent).kind = kind
           /\ Event(kind, raw, sent).raw = raw
           /\ Partial(Event(kind, raw, sent)) <=> kind = "failed" /\ sent = TRUE
    /\ \A s, a : /\ StateChanged(s, a).kind = "state"
                 /\ ~ Partial(StateChanged(s, a))
    /\ Accepted.kind = "accepted" /\ ~ Partial(Accepted)
    /\ \A raw : /\ Dispatched(raw).kind = "dispatched" /\ ~ Partial(Dispatched(raw))
                /\ Precedes(Dispatched(raw), raw)
    /\ \A raw : Discarded(raw).kind = "discarded" /\ ~ Partial(Discarded(raw))
BY DEF Event, StateChanged, Accepted, Dispatched, Discarded, Partial, Precedes

LEMMA Singles ==
    /\ \A s, a : Opening(<<StateChanged(s, a)>>)
    /\ \A kind \in EventKinds : \A raw : Opening(<<Event(kind, raw, FALSE)>>)
    /\ \A raw : Opening(<<Dispatched(raw)>>) /\ Opening(<<Discarded(raw)>>)
    /\ Opening(<<>>)
<1>1. Opening(<<>>)
  <2>1. <<>> \in Seq({})
    OBVIOUS
  <2>. QED  BY <2>1 DEF Opening, Ordered, IsSeq
<1>2. ASSUME NEW s, NEW a PROVE Opening(<<StateChanged(s, a)>>)
  BY OpeningOfOne, EventFields DEF EventKinds
<1>3. ASSUME NEW kind \in EventKinds, NEW raw PROVE Opening(<<Event(kind, raw, FALSE)>>)
  <2>. DEFINE e == Event(kind, raw, FALSE)
  <2>1. e.kind \in EventKinds /\ ~ Partial(e)
    BY DEF Event, Partial
  <2>. HIDE DEF e
  <2>2. Opening(<<e>>)
    BY <2>1, OpeningOfOne
  <2>. QED  BY <2>2 DEF e
<1>4. ASSUME NEW raw PROVE Opening(<<Dispatched(raw)>>) /\ Opening(<<Discarded(raw)>>)
  BY OpeningOfOne, EventFields DEF EventKinds
<1>. QED  BY <1>1, <1>2, <1>3, <1>4

LEMMA EndsOpening ==
    ASSUME NEW raw, NEW end \in StageOutcomes(raw), NEW s, NEW a
    PROVE  Opening(Append(end, StateChanged(s, a)))
<1>1. Opening(end)
  BY Singles DEF StageOutcomes
<1>. QED  BY <1>1, AppendOpening, EventFields DEF EventKinds

LEMMA AnswerFields == \A now, s : Answer(now, s).now = now
BY DEF Answer

LEMMA MessagesOpening ==
    ASSUME NEW raw, NEW done \in MessageOutcomes(raw)
    PROVE  Opening(done.now)
<1>. DEFINE st == StateChanged(NoText, approval)
            f1 == Event("failed", raw, FALSE)
            f2 == Event("failed", raw, TRUE)
            ok == Event("succeeded", raw, TRUE)
            in == Event("succeeded", raw, FALSE)
            sc == StateChanged(raw, approval)
            di == Dispatched(raw)
            n1 == <<Accepted, f1>>
            n2 == <<Accepted, di, f2>>
            n3 == <<Accepted, di, ok>>
            n4 == <<Accepted, in, sc>>
<1>1. /\ {st.kind, f1.kind, f2.kind, ok.kind, in.kind, sc.kind, di.kind, Accepted.kind}
            \subseteq EventKinds
      /\ ~ Partial(st) /\ ~ Partial(f1) /\ ~ Partial(ok) /\ ~ Partial(in) /\ ~ Partial(sc)
      /\ ~ Partial(di) /\ ~ Partial(Accepted)
      /\ Precedes(di, f2.raw)
  <2>1. /\ f1.kind = "failed" /\ f2.kind = "failed"
        /\ ok.kind = "succeeded" /\ in.kind = "succeeded"
        /\ f2.raw = raw /\ ~ Partial(f1) /\ ~ Partial(ok) /\ ~ Partial(in)
    BY DEF Event, Partial
  <2>2. /\ st.kind = "state" /\ sc.kind = "state" /\ ~ Partial(st) /\ ~ Partial(sc)
        /\ di.kind = "dispatched" /\ ~ Partial(di) /\ Precedes(di, raw)
        /\ Accepted.kind = "accepted" /\ ~ Partial(Accepted)
    BY EventFields
  <2>. HIDE DEF st, f1, f2, ok, in, sc, di
  <2>. QED  BY <2>1, <2>2 DEF EventKinds
<1>2. \/ done.now = Append(n1, st) \/ done.now = Append(n2, st)
      \/ done.now = Append(n3, st) \/ done.now = n4
  <2>1. \/ done = Answer(Append(n1, st), NoText) \/ done = Answer(Append(n2, st), NoText)
        \/ done = Answer(Append(n3, st), NoText) \/ done = Answer(n4, raw)
    BY Zenon DEF MessageOutcomes
  <2>. HIDE DEF n1, n2, n3, n4, st
  <2>. QED  BY <2>1, AnswerFields
<1>. HIDE DEF st, f1, f2, ok, in, sc, di
<1>3. Opening(n1)
  <2>1. Opening(<<Accepted>>)
    BY <1>1, OpeningOfOne
  <2>2. n1 = Append(<<Accepted>>, f1)
    OBVIOUS
  <2>. HIDE DEF n1
  <2>. QED  BY <1>1, <2>1, <2>2, AppendOpening
<1>4. Opening(n2) /\ Opening(n3) /\ Opening(n4)
  BY <1>1, OpeningOfThree
<1>. HIDE DEF n1, n2, n3, n4
<1>. QED  BY <1>1, <1>2, <1>3, <1>4, AppendOpening

LEMMA CommandsOpening ==
    ASSUME NEW raw, NEW done \in CommandOutcomes(raw)
    PROVE  Opening(done.now)
<1>1. PICK kind \in {"succeeded", "failed"} :
          done = Answer(<<Accepted, StateChanged(NoText, approval),
                          Event(kind, raw, FALSE)>>, NoText)
  BY Zenon DEF CommandOutcomes
<1>. DEFINE st == StateChanged(NoText, approval)
            e  == Event(kind, raw, FALSE)
<1>2. e.kind \in EventKinds /\ ~ Partial(e)
  BY DEF Event, Partial, EventKinds
<1>3. /\ st.kind \in EventKinds /\ ~ Partial(st)
      /\ Accepted.kind \in EventKinds /\ ~ Partial(Accepted)
  BY EventFields DEF EventKinds
<1>4. done = Answer(<<Accepted, st, e>>, NoText)
  BY <1>1
<1>. HIDE DEF st, e
<1>5. done.now = <<Accepted, st, e>>
  BY <1>4, AnswerFields
<1>. QED  BY <1>2, <1>3, <1>5, OpeningOfThree

LEMMA RefusalsOpening ==
    ASSUME NEW raw, NEW refusal \in Refusals(raw)
    PROVE  Opening(<<refusal>>)
BY Singles DEF Refusals, EventKinds

\* Whatever the interpreter publishes in a step.
Publishes == UNCHANGED events \/ \E t : Publish(t) /\ Opening(t)

LEMMA InterpreterKeeps ==
    ASSUME CInv, Apply \/ Session \/ RequestClose
    PROVE  CInv'
<1>1. ASSUME NEW op, ApplySubmit(op) PROVE Publishes
  <2>1. CASE Publish(<<Event("rejected", op.raw, FALSE)>>)
    BY <2>1, Singles DEF Publishes, EventKinds
  <2>2. CASE \E refusal \in Refusals(op.raw) : Publish(<<refusal>>)
    BY <2>2, RefusalsOpening DEF Publishes
  <2>3. CASE \E done \in IF op.raw \in Messages THEN MessageOutcomes(op.raw)
                                               ELSE CommandOutcomes(op.raw) :
                 Publish(done.now)
    BY <2>3, MessagesOpening, CommandsOpening DEF Publishes
  <2>. QED  BY <1>1, <2>1, <2>2, <2>3 DEF ApplySubmit
<1>2. ASSUME NEW op, ApplyTake(op) \/ ApplyDiscard(op) \/ ApplyResolve(op) PROVE Publishes
  BY <1>2, Singles DEF Publishes, ApplyTake, ApplyDiscard, ApplyResolve
<1>3. ASSUME NEW op, ApplyInterrupt(op) PROVE Publishes
  BY <1>3, Singles, EndsOpening DEF Publishes, ApplyInterrupt
<1>4. ASSUME NEW op, ApplyShutdown(op) PROVE Publishes
  BY <1>4 DEF Publishes, ApplyShutdown
<1>5. CASE Apply
  BY <1>1, <1>2, <1>3, <1>4, <1>5, InterpreterStep, FrontEndStep DEF Apply, Publishes, CInv
<1>6. CASE Session
  <2>1. Publishes /\ UNCHANGED <<room, ui>>
    BY <1>6, Singles, EndsOpening
       DEF Session, StageEnds, ApprovalRequested, ApprovalCleared, SessionOnly, Publishes
  <2>. QED  BY <2>1, InterpreterStep, FrontEndStep DEF Publishes, CInv
<1>7. CASE RequestClose
  BY <1>7, FrontEndStep DEF RequestClose, CInv
<1>. QED  BY <1>5, <1>6, <1>7

LEMMA NextKeeps == CInv /\ [Next]_vars => CInv'
<1>. SUFFICES ASSUME CInv, [Next]_vars PROVE CInv'
  OBVIOUS
<1>1. CASE UNCHANGED vars
  BY <1>1, FrontEndStep DEF vars, CInv
<1>. QED  BY <1>1, KeyKeeps, MessageKeeps, EventKeeps, InterpreterKeeps DEF Next

(***************************************************************************)
(* Theorems                                                                *)
(***************************************************************************)

LEMMA Inductive == Spec => []CInv
BY InitHolds, NextKeeps, PTL DEF Spec

\* A user at the composer can type, whatever order staged submissions, prompts
\* and changes of focus come and go in (room/model.go, room/compose.go).
THEOREM UserCanType == Spec => []ComposerEditable
<1>1. CInv => ComposerEditable
  BY DEF CInv, Usable, ComposerEditable
<1>. QED  BY Inductive, <1>1, PTL

\* A message that somebody got before it failed is never put back, however
\* many events are waiting and whatever the user types meanwhile
\* (restoreFailedStagedDraft): the dispatch is what the front end handled last.
THEOREM SentStaysSent == Spec => DeliveredStaysSent
<1>1. ASSUME CInv, [Next]_vars
      PROVE  [Handling("failed") /\ Head(events).sent => room'.text = room.text]_vars
  <2>1. SUFFICES ASSUME Next, Handling("failed"), Head(events).sent
                 PROVE  room'.text = room.text
    BY <1>1
  <2>2. CASE HandleEvent
    <3>1. ui.dispatched = Head(events).raw
      BY <1>1, <2>1, HandledOrdered DEF CInv, Handling, Remembered, Partial
    <3>. QED  BY <2>1, <2>2, <3>1
              DEF HandleEvent, Handling, Present, RestoreFailed, Shows
  <2>3. CASE Key \/ \E c \in BagToSet(cmds) : Message(c)
    <3>1. UNCHANGED events
      BY <2>3 DEF Key, Type, OpenEditor, Enter, StagedEscape, StagedInterrupt, StagedClear,
                  PromptKey, PromptCancel, ChangeFocus, FrontEndOnly,
                  Message, Receive, SubmitUIOnly, Submit, StageMessage, StageCall,
                  StageTaken, PromptAnswered, Decide, EditorDone
    <3>2. PICK S : events \in Seq(S)
      BY <1>1 DEF CInv, Ordered, IsSeq
    <3>3. events # <<>> => Tail(events) # events
      BY <3>2
    <3>. QED  BY <2>1, <3>1, <3>3 DEF Handling
  <2>4. CASE Apply \/ Session \/ RequestClose
    BY <2>4 DEF Apply, Session, RequestClose, StageEnds, ApprovalRequested,
                ApprovalCleared, SessionOnly
  <2>. QED  BY <2>1, <2>2, <2>3, <2>4 DEF Next
<1>. QED  BY Inductive, <1>1, PTL DEF Spec, DeliveredStaysSent

(***************************************************************************)
(* Where a submission is                                                   *)
(***************************************************************************)

\* Events without an answer among them, and with one.
Silent(s)    == \A k \in 1 .. Len(s) : s[k].kind \notin Answers
Answering(s) ==
    \E k \in 1 .. Len(s) :
        s[k].kind \in Answers /\ \A j \in 1 .. Len(s) : s[j].kind \in Answers => j = k

\* Operations without a submission among them, and with one.
Vacant(s)     == \A k \in 1 .. Len(s) : s[k].do # "submit"
Submitting(s) ==
    \E k \in 1 .. Len(s) :
        s[k].do = "submit" /\ \A j \in 1 .. Len(s) : s[j].do = "submit" => j = k

\* Publishing keeps the answer there is, or adds the only one.
LEMMA PublishAnswers ==
    ASSUME NEW s, IsSeq(s), NEW t, IsSeq(t)
    PROVE  /\ IsSeq(s \o t)
           /\ Silent(s) /\ Silent(t) => Silent(s \o t)
           /\ Answering(s) /\ Silent(t) => Answering(s \o t)
           /\ Silent(s) /\ Answering(t) => Answering(s \o t)
<1>1. PICK S : s \in Seq(S)
  BY DEF IsSeq
<1>2. PICK T : t \in Seq(T)
  BY DEF IsSeq
<1>3. s \in Seq(S \cup T) /\ t \in Seq(S \cup T)
  BY <1>1, <1>2
<1>4. /\ s \o t \in Seq(S \cup T) /\ Len(s) \in Nat /\ Len(t) \in Nat
      /\ Len(s \o t) = Len(s) + Len(t)
      /\ \A k \in 1 .. Len(s) : (s \o t)[k] = s[k]
      /\ \A k \in 1 .. Len(t) : (s \o t)[Len(s) + k] = t[k]
  BY <1>3
<1>5. ASSUME NEW k \in 1 .. Len(s \o t)
      PROVE  \/ k \in 1 .. Len(s) /\ (s \o t)[k] = s[k]
             \/ \E i \in 1 .. Len(t) : k = Len(s) + i /\ (s \o t)[k] = t[i]
  <2>1. CASE k <= Len(s)
    BY <1>4, <2>1
  <2>2. CASE k > Len(s)
    <3>1. k - Len(s) \in 1 .. Len(t) /\ k = Len(s) + (k - Len(s))
      BY <1>4, <2>2
    <3>. QED  BY <1>4, <3>1
  <2>. QED  BY <1>4, <2>1, <2>2
<1>6. Silent(s) /\ Silent(t) => Silent(s \o t)
  BY <1>5 DEF Silent
<1>7. ASSUME Answering(s), Silent(t) PROVE Answering(s \o t)
  <2>1. PICK k \in 1 .. Len(s) :
            s[k].kind \in Answers /\ \A j \in 1 .. Len(s) : s[j].kind \in Answers => j = k
    BY <1>7 DEF Answering
  <2>2. k \in 1 .. Len(s \o t) /\ (s \o t)[k].kind \in Answers
    BY <1>4, <2>1
  <2>3. ASSUME NEW j \in 1 .. Len(s \o t), (s \o t)[j].kind \in Answers PROVE j = k
    BY <1>5, <1>7, <2>1, <2>3 DEF Silent
  <2>. QED  BY <2>2, <2>3 DEF Answering
<1>8. ASSUME Silent(s), Answering(t) PROVE Answering(s \o t)
  <2>1. PICK k \in 1 .. Len(t) :
            t[k].kind \in Answers /\ \A j \in 1 .. Len(t) : t[j].kind \in Answers => j = k
    BY <1>8 DEF Answering
  <2>2. Len(s) + k \in 1 .. Len(s \o t) /\ (s \o t)[Len(s) + k].kind \in Answers
    BY <1>4, <2>1
  <2>3. ASSUME NEW j \in 1 .. Len(s \o t), (s \o t)[j].kind \in Answers
        PROVE  j = Len(s) + k
    BY <1>5, <1>8, <2>1, <2>3 DEF Silent
  <2>. QED  BY <2>2, <2>3 DEF Answering
<1>. QED  BY <1>4, <1>6, <1>7, <1>8 DEF IsSeq

LEMMA HandleAnswers ==
    ASSUME NEW s, IsSeq(s), s # <<>>
    PROVE  /\ IsSeq(Tail(s)) /\ Head(s) = s[1]
           /\ Silent(s) => Silent(Tail(s)) /\ s[1].kind \notin Answers
           /\ Answering(s) =>
                  IF s[1].kind \in Answers THEN Silent(Tail(s)) ELSE Answering(Tail(s))
<1>1. PICK S : s \in Seq(S)
  BY DEF IsSeq
<1>2. /\ Tail(s) \in Seq(S) /\ Len(s) \in Nat \ {0} /\ Len(Tail(s)) = Len(s) - 1
      /\ \A k \in 1 .. Len(s) - 1 : k + 1 \in 1 .. Len(s) /\ Tail(s)[k] = s[k + 1]
      /\ Head(s) = s[1] /\ 1 \in 1 .. Len(s)
  BY <1>1
<1>3. Silent(s) => Silent(Tail(s)) /\ s[1].kind \notin Answers
  BY <1>2 DEF Silent
<1>4. ASSUME Answering(s), s[1].kind \in Answers PROVE Silent(Tail(s))
  <2>1. ASSUME NEW k \in 1 .. Len(Tail(s)), Tail(s)[k].kind \in Answers PROVE FALSE
    <3>1. k + 1 \in 1 .. Len(s) /\ s[k + 1].kind \in Answers /\ k + 1 # 1
      BY <1>2, <2>1
    <3>. QED  BY <1>2, <1>4, <3>1 DEF Answering
  <2>. QED  BY <2>1 DEF Silent
<1>5. ASSUME Answering(s), s[1].kind \notin Answers PROVE Answering(Tail(s))
  <2>1. PICK k \in 1 .. Len(s) :
            s[k].kind \in Answers /\ \A j \in 1 .. Len(s) : s[j].kind \in Answers => j = k
    BY <1>5 DEF Answering
  <2>2. k - 1 \in 1 .. Len(Tail(s)) /\ Tail(s)[k - 1].kind \in Answers
    <3>1. k # 1
      BY <1>5, <2>1
    <3>2. k - 1 \in 1 .. Len(s) - 1 /\ (k - 1) + 1 = k
      BY <1>2, <3>1
    <3>. QED  BY <1>2, <2>1, <3>2
  <2>3. ASSUME NEW j \in 1 .. Len(Tail(s)), Tail(s)[j].kind \in Answers PROVE j = k - 1
    <3>1. j \in 1 .. Len(s) - 1 /\ s[j + 1].kind \in Answers
      BY <1>2, <2>3
    <3>2. j + 1 = k
      BY <1>2, <2>1, <3>1
    <3>. QED  BY <1>2, <3>1, <3>2
  <2>. QED  BY <2>2, <2>3 DEF Answering
<1>. QED  BY <1>2, <1>3, <1>4, <1>5 DEF IsSeq

LEMMA AcceptSubmits ==
    ASSUME NEW s, IsSeq(s), NEW op
    PROVE  /\ IsSeq(Append(s, op))
           /\ op.do # "submit" /\ Vacant(s) => Vacant(Append(s, op))
           /\ op.do # "submit" /\ Submitting(s) => Submitting(Append(s, op))
           /\ op.do = "submit" /\ Vacant(s) => Submitting(Append(s, op))
<1>1. PICK S : s \in Seq(S)
  BY DEF IsSeq
<1>2. s \in Seq(S \cup {op}) /\ op \in S \cup {op}
  BY <1>1
<1>. DEFINE t == Append(s, op)
<1>3. /\ t \in Seq(S \cup {op}) /\ Len(s) \in Nat
      /\ Len(t) = Len(s) + 1 /\ t[Len(s) + 1] = op
      /\ \A k \in 1 .. Len(s) : t[k] = s[k]
  BY <1>2
<1>. HIDE DEF t
<1>4. \A k \in 1 .. Len(t) : k \in 1 .. Len(s) \/ k = Len(s) + 1
  BY <1>3
<1>5. op.do # "submit" /\ Vacant(s) => Vacant(t)
  BY <1>3, <1>4 DEF Vacant
<1>6. ASSUME op.do # "submit", Submitting(s) PROVE Submitting(t)
  <2>1. PICK k \in 1 .. Len(s) :
            s[k].do = "submit" /\ \A j \in 1 .. Len(s) : s[j].do = "submit" => j = k
    BY <1>6 DEF Submitting
  <2>2. k \in 1 .. Len(t) /\ t[k].do = "submit"
    BY <1>3, <2>1
  <2>. QED  BY <1>3, <1>4, <1>6, <2>1, <2>2 DEF Submitting
<1>7. ASSUME op.do = "submit", Vacant(s) PROVE Submitting(t)
  <2>1. Len(s) + 1 \in 1 .. Len(t)
    BY <1>3
  <2>. QED  BY <1>3, <1>4, <1>7, <2>1 DEF Submitting, Vacant
<1>. QED  BY <1>3, <1>5, <1>6, <1>7 DEF IsSeq, t

LEMMA ApplySubmits ==
    ASSUME NEW s, IsSeq(s), s # <<>>
    PROVE  /\ IsSeq(Tail(s)) /\ Head(s) = s[1]
           /\ Vacant(s) => Vacant(Tail(s)) /\ s[1].do # "submit"
           /\ Submitting(s) => IF s[1].do = "submit" THEN Vacant(Tail(s))
                                                     ELSE Submitting(Tail(s))
<1>1. PICK S : s \in Seq(S)
  BY DEF IsSeq
<1>2. /\ Tail(s) \in Seq(S) /\ Len(s) \in Nat \ {0} /\ Len(Tail(s)) = Len(s) - 1
      /\ \A k \in 1 .. Len(s) - 1 : k + 1 \in 1 .. Len(s) /\ Tail(s)[k] = s[k + 1]
      /\ Head(s) = s[1] /\ 1 \in 1 .. Len(s)
  BY <1>1
<1>3. Vacant(s) => Vacant(Tail(s)) /\ s[1].do # "submit"
  BY <1>2 DEF Vacant
<1>4. ASSUME Submitting(s), s[1].do = "submit" PROVE Vacant(Tail(s))
  <2>1. ASSUME NEW k \in 1 .. Len(Tail(s)), Tail(s)[k].do = "submit" PROVE FALSE
    <3>1. k + 1 \in 1 .. Len(s) /\ s[k + 1].do = "submit" /\ k + 1 # 1
      BY <1>2, <2>1
    <3>. QED  BY <1>2, <1>4, <3>1 DEF Submitting
  <2>. QED  BY <2>1 DEF Vacant
<1>5. ASSUME Submitting(s), s[1].do # "submit" PROVE Submitting(Tail(s))
  <2>1. PICK k \in 1 .. Len(s) :
            s[k].do = "submit" /\ \A j \in 1 .. Len(s) : s[j].do = "submit" => j = k
    BY <1>5 DEF Submitting
  <2>2. k - 1 \in 1 .. Len(Tail(s)) /\ Tail(s)[k - 1].do = "submit"
    <3>1. k # 1
      BY <1>5, <2>1
    <3>2. k - 1 \in 1 .. Len(s) - 1 /\ (k - 1) + 1 = k
      BY <1>2, <3>1
    <3>. QED  BY <1>2, <2>1, <3>2
  <2>3. ASSUME NEW j \in 1 .. Len(Tail(s)), Tail(s)[j].do = "submit" PROVE j = k - 1
    <3>1. j \in 1 .. Len(s) - 1 /\ s[j + 1].do = "submit"
      BY <1>2, <2>3
    <3>2. j + 1 = k
      BY <1>2, <2>1, <3>1
    <3>. QED  BY <1>2, <3>1, <3>2
  <2>. QED  BY <2>2, <2>3 DEF Submitting
<1>. QED  BY <1>2, <1>3, <1>4, <1>5 DEF IsSeq

\* Every message of the front end is there at least once.
Counts(B) == \A e \in DOMAIN B : B[e] \in Nat \ {0}

LEMMA BagAdded ==
    ASSUME NEW B, Counts(B), NEW x
    PROVE  /\ Counts(BagAdd(B, x)) /\ DOMAIN BagAdd(B, x) = DOMAIN B \cup {x}
           /\ \A e \in DOMAIN B : e # x => BagAdd(B, x)[e] = B[e]
           /\ x \notin DOMAIN B => BagAdd(B, x)[x] = 1
BY DEF Counts, BagAdd

LEMMA BagRemoved ==
    ASSUME NEW B, Counts(B), NEW x \in DOMAIN B
    PROVE  /\ Counts(BagRemove(B, x))
           /\ DOMAIN B \ {x} \subseteq DOMAIN BagRemove(B, x)
           /\ DOMAIN BagRemove(B, x) \subseteq DOMAIN B
           /\ B[x] = 1 => DOMAIN BagRemove(B, x) = DOMAIN B \ {x}
           /\ \A e \in DOMAIN B \ {x} : BagRemove(B, x)[e] = B[e]
BY DEF Counts, BagRemove

(***************************************************************************)
(* The gate                                                                *)
(***************************************************************************)

\* The submissions the front end has not passed on yet.
Held == {c \in DOMAIN cmds : c.do = "submit"}

\* A submission is nowhere, or it is a message, an operation, or its answer.
Idle      == Held = {} /\ Vacant(ops) /\ Silent(events)
AsMessage == (\E c : Held = {c}) /\ Vacant(ops) /\ Silent(events)
AsOp      == Held = {} /\ Submitting(ops) /\ Silent(events)
AsEvent   == Held = {} /\ Vacant(ops) /\ Answering(events)

Gate ==
    /\ Counts(cmds) /\ IsSeq(ops)
    /\ \A c \in Held : cmds[c] = 1 /\ ui.awaiting = c.raw
    /\ ui.pending \in BOOLEAN
    /\ IF ui.pending THEN AsMessage \/ AsOp \/ AsEvent ELSE Idle

\* A step that neither starts nor ends a submission.
SameGate == ui'.pending = ui.pending /\ ui'.awaiting = ui.awaiting
SameHeld ==
    /\ Counts(cmds') /\ Held' = Held
    /\ \A c \in Held : cmds'[c] = cmds[c]
SameOps ==
    /\ IsSeq(ops')
    /\ Vacant(ops) => Vacant(ops')
    /\ Submitting(ops) => Submitting(ops')
SameEvents ==
    /\ Silent(events) => Silent(events')
    /\ Answering(events) => Answering(events')

LEMMA GateStays ==
    ASSUME Gate, SameGate, SameHeld, SameOps, SameEvents
    PROVE  Gate'
<1>1. ui'.pending = ui.pending /\ ui'.awaiting = ui.awaiting
  BY DEF SameGate
<1>2. Counts(cmds') /\ IsSeq(ops')
  BY DEF SameHeld, SameOps
<1>3. \A c \in Held' : cmds'[c] = 1 /\ ui'.awaiting = c.raw
  BY <1>1 DEF Gate, SameHeld
<1>4. /\ Idle => Idle'
      /\ AsMessage => AsMessage'
      /\ AsOp => AsOp'
      /\ AsEvent => AsEvent'
  BY DEF Idle, AsMessage, AsOp, AsEvent, SameHeld, SameOps, SameEvents
<1>5. CASE ui.pending = TRUE
  <2>1. AsMessage' \/ AsOp' \/ AsEvent'
    BY <1>4, <1>5 DEF Gate
  <2>2. ui'.pending = TRUE
    BY <1>1, <1>5
  <2>. QED  BY <1>2, <1>3, <2>1, <2>2 DEF Gate
<1>6. CASE ui.pending = FALSE
  <2>1. Idle'
    BY <1>4, <1>6 DEF Gate
  <2>2. ui'.pending = FALSE
    BY <1>1, <1>6
  <2>. QED  BY <1>2, <1>3, <2>1, <2>2 DEF Gate
<1>7. ui.pending = TRUE \/ ui.pending = FALSE
  BY DEF Gate
<1>. QED  BY <1>5, <1>6, <1>7

LEMMA HeldStarts ==
    ASSUME Gate, NEW c, c.do # "submit", Start(c)
    PROVE  SameHeld
<1>1. /\ Counts(cmds') /\ DOMAIN cmds' = DOMAIN cmds \cup {c}
      /\ \A e \in DOMAIN cmds : e # c => cmds'[e] = cmds[e]
  <2>1. Counts(cmds) /\ cmds' = BagAdd(cmds, c)
    BY DEF Gate, Start
  <2>. QED  BY <2>1 DEF BagAdd, Counts
<1>2. Held' = Held
  BY <1>1 DEF Held
<1>. QED  BY <1>1, <1>2 DEF SameHeld, Held

LEMMA HeldFinishes ==
    ASSUME Gate, NEW c \in DOMAIN cmds, c.do # "submit",
           \/ Finish(c)
           \/ \E d : d.do # "submit" /\ Continue(c, d)
    PROVE  SameHeld
<1>. DEFINE B == BagRemove(cmds, c)
<1>1. /\ Counts(B) /\ DOMAIN cmds \ {c} \subseteq DOMAIN B /\ DOMAIN B \subseteq DOMAIN cmds
      /\ \A e \in DOMAIN cmds \ {c} : B[e] = cmds[e]
  BY BagRemoved DEF Gate
<1>2. CASE Finish(c)
  <2>1. cmds' = B
    BY <1>2 DEF Finish
  <2>. HIDE DEF B
  <2>2. Held' = Held
    BY <1>1, <2>1 DEF Held
  <2>. QED  BY <1>1, <2>1, <2>2 DEF SameHeld, Held
<1>3. CASE \E d : d.do # "submit" /\ Continue(c, d)
  <2>1. PICK d : d.do # "submit" /\ cmds' = BagAdd(B, d)
    BY <1>3 DEF Continue
  <2>. HIDE DEF B
  <2>2. /\ Counts(cmds') /\ DOMAIN cmds' = DOMAIN B \cup {d}
        /\ \A e \in DOMAIN B : e # d => cmds'[e] = B[e]
    BY <1>1, <2>1, BagAdded
  <2>3. Held' = Held
    BY <1>1, <2>1, <2>2 DEF Held
  <2>. QED  BY <1>1, <2>1, <2>2, <2>3 DEF SameHeld, Held
<1>. QED  BY <1>2, <1>3

\* The only submission leaves the front end.
LEMMA HeldLeaves ==
    ASSUME Gate, NEW c \in Held, Finish(c)
    PROVE  /\ Held = {c} /\ Held' = {} /\ Counts(cmds')
           /\ ui.pending = TRUE /\ ui.awaiting = c.raw /\ Vacant(ops) /\ Silent(events)
<1>1. /\ ui.pending = TRUE /\ ui.awaiting = c.raw /\ cmds[c] = 1
      /\ Held = {c} /\ Vacant(ops) /\ Silent(events)
  BY DEF Gate, Idle, AsMessage, AsOp, AsEvent
<1>2. c \in DOMAIN cmds
  BY DEF Held
<1>3. Counts(cmds') /\ DOMAIN cmds' = DOMAIN cmds \ {c}
  BY <1>1, <1>2, BagRemoved DEF Gate, Finish
<1>. QED  BY <1>1, <1>3 DEF Held

LEMMA OpsAccept ==
    ASSUME Gate, NEW op, op.do # "submit", Accept(op)
    PROVE  SameOps
BY AcceptSubmits DEF Gate, Accept, SameOps

LEMMA OpsStay == Gate /\ UNCHANGED ops => SameOps
BY DEF Gate, SameOps

LEMMA EventsStay == UNCHANGED events => SameEvents
BY DEF SameEvents

LEMMA HeldStays == Gate /\ UNCHANGED cmds => SameHeld
BY DEF Gate, SameHeld, Held

LEMMA MsgFields ==
    /\ \A do : Msg(do).do = do
    /\ \A raw : /\ SubmitMsg(raw).do = "submit" /\ SubmitMsg(raw).raw = raw
                /\ EditorMsg(raw).do = "editor"
    /\ \A raw, ok : TakenMsg(raw, ok).do = "taken"
    /\ \A do, raw, id : Op(do, raw, id).do = do /\ Op(do, raw, id).raw = raw
BY DEF Msg, SubmitMsg, EditorMsg, TakenMsg, Op

LEMMA GateInit == Init => Gate
<1>. SUFFICES ASSUME Init PROVE Gate
  OBVIOUS
<1>1. Counts(cmds) /\ Held = {}
  BY DEF Init, EmptyBag, SetToBag, Counts, Held
<1>2. IsSeq(ops) /\ Vacant(ops)
  <2>1. ops \in Seq({}) /\ Len(ops) = 0
    BY DEF Init
  <2>. QED  BY <2>1 DEF IsSeq, Vacant
<1>3. Silent(events)
  <2>1. StateChanged(NoText, 0).kind \notin Answers
    BY EventFields DEF Answers
  <2>. DEFINE e == StateChanged(NoText, 0)
  <2>2. events = <<e>>
    BY DEF Init
  <2>. HIDE DEF e
  <2>. QED  BY <2>1, <2>2 DEF Silent, e
<1>4. ui.pending = FALSE
  BY DEF Init, NewUI
<1>. QED  BY <1>1, <1>2, <1>3, <1>4 DEF Gate, Idle

LEMMA GateKey ==
    ASSUME CInv, Gate, Key
    PROVE  Gate'
<1>1. ASSUME UNCHANGED ui, FrontEndOnly,
             \/ UNCHANGED cmds
             \/ \E c : c.do # "submit" /\ Start(c)
      PROVE  Gate'
  <2>1. SameHeld
    BY <1>1, HeldStarts, HeldStays
  <2>. QED  BY <1>1, <2>1, OpsStay, EventsStay, GateStays DEF FrontEndOnly, SameGate
<1>2. ASSUME NEW t, Type(t) PROVE Gate'
  BY <1>1, <1>2 DEF Type
<1>3. ASSUME NEW t, OpenEditor(t) PROVE Gate'
  BY <1>1, <1>3, MsgFields DEF OpenEditor
<1>4. CASE StagedEscape \/ StagedInterrupt \/ StagedClear \/ PromptKey \/ PromptCancel
  BY <1>1, <1>4, MsgFields
     DEF StagedEscape, StagedInterrupt, StagedClear, PromptKey, PromptCancel
<1>5. CASE ChangeFocus
  BY <1>1, <1>5 DEF ChangeFocus
<1>6. CASE Enter
  <2>1. CASE ui.pending
    BY <1>1, <1>6, <2>1 DEF Enter
  <2>2. CASE ~ ui.pending
    <3>. DEFINE c == SubmitMsg(room.text)
    <3>1. /\ ui' = [ui EXCEPT !.pending = TRUE, !.awaiting = room.text]
          /\ cmds' = BagAdd(cmds, c) /\ UNCHANGED <<ops, events>>
      BY <1>6, <2>2 DEF Enter, FrontEndOnly, Start
    <3>2. ui'.pending = TRUE /\ ui'.awaiting = room.text
      BY <3>1 DEF CInv, UIFields
    <3>3. Held = {} /\ Vacant(ops) /\ Silent(events) /\ Counts(cmds) /\ IsSeq(ops)
      BY <2>2 DEF Gate, Idle
    <3>4. c.do = "submit" /\ c.raw = room.text
      BY MsgFields
    <3>. HIDE DEF c
    <3>5. c \notin DOMAIN cmds
      BY <3>3, <3>4 DEF Held
    <3>6. Counts(cmds') /\ DOMAIN cmds' = DOMAIN cmds \cup {c} /\ cmds'[c] = 1
      BY <3>1, <3>3, <3>5, BagAdded
    <3>7. Held' = {c}
      BY <3>3, <3>4, <3>6 DEF Held
    <3>8. AsMessage'
      BY <3>1, <3>3, <3>7 DEF AsMessage
    <3>. QED  BY <3>1, <3>2, <3>3, <3>4, <3>6, <3>7, <3>8 DEF Gate
  <2>. QED  BY <2>1, <2>2
<1>. QED  BY <1>2, <1>3, <1>4, <1>5, <1>6 DEF Key

LEMMA GateMessage ==
    ASSUME CInv, Gate, NEW c \in BagToSet(cmds), Message(c)
    PROVE  Gate'
<1>1. c \in DOMAIN cmds
  BY DEF BagToSet
<1>. DEFINE Others == /\ c.do # "submit" /\ SameGate /\ UNCHANGED events
                      /\ Finish(c) \/ \E d : d.do # "submit" /\ Continue(c, d)
                      /\ UNCHANGED ops \/ \E op : op.do # "submit" /\ Accept(op)
<1>2. ASSUME Others PROVE Gate'
  <2>1. SameHeld
    BY <1>1, <1>2, HeldFinishes
  <2>2. SameOps
    BY <1>2, OpsAccept, OpsStay
  <2>. QED  BY <1>2, <2>1, <2>2, EventsStay, GateStays
<1>3. CASE SubmitUIOnly(c)
  <2>1. /\ ui' = [ui EXCEPT !.pending = FALSE, !.awaiting = NoText]
        /\ c \in Held /\ Finish(c) /\ UNCHANGED <<ops, events>>
    BY <1>1, <1>3 DEF SubmitUIOnly, Receive, Held, ReleaseGate
  <2>2. ui'.pending = FALSE
    BY <2>1 DEF CInv, UIFields
  <2>3. Counts(cmds') /\ Held' = {} /\ Vacant(ops) /\ Silent(events)
    BY <2>1, HeldLeaves
  <2>4. Idle'
    BY <2>1, <2>3 DEF Idle
  <2>. QED  BY <2>1, <2>2, <2>3, <2>4 DEF Gate
<1>4. CASE Submit(c)
  <2>1. c \in Held /\ Finish(c) /\ UNCHANGED events
    BY <1>1, <1>4 DEF Submit, Receive, Held
  <2>2. /\ Counts(cmds') /\ Held' = {} /\ Vacant(ops) /\ Silent(events)
        /\ ui.pending = TRUE /\ ui.awaiting = c.raw
    BY <2>1, HeldLeaves
  <2>3. ui' = [ui EXCEPT !.pending = ~ closed, !.awaiting = NoText]
    BY <1>4, <2>2 DEF Submit
  <2>4. CASE closed
    <3>1. UNCHANGED ops /\ ui'.pending = FALSE
      BY <1>4, <2>2, <2>3, <2>4 DEF Submit, CInv, UIFields
    <3>2. Idle'
      BY <2>1, <2>2, <3>1 DEF Idle
    <3>. QED  BY <2>2, <3>1, <3>2 DEF Gate
  <2>5. CASE ~ closed
    <3>1. Accept(Op("submit", c.raw, 0)) /\ ui'.pending = TRUE
      BY <1>4, <2>2, <2>3, <2>5 DEF Submit, CInv, UIFields
    <3>2. IsSeq(ops') /\ Submitting(ops')
      BY <2>2, <3>1, AcceptSubmits, MsgFields DEF Accept, Gate
    <3>3. AsOp'
      BY <2>1, <2>2, <3>2 DEF AsOp
    <3>. QED  BY <2>2, <3>1, <3>2, <3>3 DEF Gate
  <2>. QED  BY <2>4, <2>5
<1>5. CASE StageMessage(c)
  <2>1. c.do \in {"stagedEdit", "stagedClear", "stagedInterrupt"}
    BY <1>5, MsgFields DEF StageMessage, StageMsgs
  <2>2. \/ Finish(c)
        \/ \E do \in {"take", "discard", "interrupt"} : Continue(c, Msg(do))
    BY <1>5, <2>1 DEF StageMessage
  <2>3. Others
    BY <1>5, <2>1, <2>2, MsgFields DEF StageMessage, Receive, SameGate
  <2>. QED  BY <1>2, <2>3
<1>6. CASE StageCall(c)
  <2>1. c.do \in {"take", "discard", "interrupt"}
    BY <1>6, MsgFields DEF StageCall, CallMsgs
  <2>2. Others
    BY <1>6, <2>1, MsgFields DEF StageCall, Receive, SameGate
  <2>. QED  BY <1>2, <2>2
<1>7. CASE StageTaken(c)
  <2>1. SameGate
    BY <1>7 DEF StageTaken, SameGate, CInv, UIFields
  <2>2. Others
    BY <1>7, <2>1 DEF StageTaken, Receive
  <2>. QED  BY <1>2, <2>2
<1>8. CASE PromptAnswered(c)
  <2>1. Others
    BY <1>8, MsgFields DEF PromptAnswered, Receive, SameGate
  <2>. QED  BY <1>2, <2>1
<1>9. CASE Decide(c)
  <2>1. SameGate
    BY <1>9 DEF Decide, SameGate, CInv, UIFields
  <2>2. Others
    BY <1>9, <2>1, MsgFields DEF Decide, Receive
  <2>. QED  BY <1>2, <2>2
<1>10. CASE EditorDone(c)
  <2>1. Others
    BY <1>10 DEF EditorDone, Receive, SameGate
  <2>. QED  BY <1>2, <2>1
<1>. QED  BY <1>3, <1>4, <1>5, <1>6, <1>7, <1>8, <1>9, <1>10 DEF Message

\* An event that is an answer opens the gate, another leaves it alone.
LEMMA GateReleased ==
    ASSUME NEW m, NEW u, DOMAIN u = UIFields, NEW e, e.kind \in Answers
    PROVE  Present(m, u, e).ui.pending = FALSE
<1>1. CASE e.kind = "failed"
  BY <1>1 DEF Present, Shows, UIFields, ReleaseGate
<1>2. CASE e.kind \in {"succeeded", "rejected", "unknown"}
  BY <1>2 DEF Present, Shows, UIFields, ReleaseGate
<1>. QED  BY <1>1, <1>2 DEF Answers

LEMMA GateKept ==
    ASSUME NEW m, NEW u, DOMAIN u = UIFields, NEW e, e.kind \in EventKinds \ Answers
    PROVE  /\ Present(m, u, e).ui.pending = u.pending
           /\ Present(m, u, e).ui.awaiting = u.awaiting
<1>1. CASE e.kind = "state"
  <2>. DEFINE p == PresentStage(m, u, e.stage)
  <2>1. /\ DOMAIN p.ui = UIFields
        /\ p.ui.pending = u.pending /\ p.ui.awaiting = u.awaiting
    BY DEF PresentStage, ClearInterpreterStage, Shows, UIFields
  <2>2. Present(m, u, e) = PresentSnapshot(m, u, e)
    BY <1>1 DEF Present
  <2>3. \/ PresentSnapshot(m, u, e) = p
        \/ \E n \in {ClearApproval(p.room), ShowApproval(p.room)} :
              PresentSnapshot(m, u, e) = Shows(n, [p.ui EXCEPT !.approval = e.approval])
    BY DEF PresentSnapshot
  <2>. HIDE DEF p
  <2>. QED  BY <2>1, <2>2, <2>3 DEF Shows, UIFields
<1>2. CASE e.kind \in {"accepted", "dispatched"}
  BY <1>2 DEF Present, Shows, UIFields
<1>3. CASE e.kind = "discarded"
  BY <1>3 DEF Present, Shows, UIFields
<1>. QED  BY <1>1, <1>2, <1>3 DEF EventKinds, Answers

LEMMA GateEvent ==
    ASSUME CInv, Gate, HandleEvent
    PROVE  Gate'
<1>. DEFINE e == Head(events)
<1>1. /\ events # <<>> /\ IsSeq(events) /\ events' = Tail(events)
      /\ UNCHANGED <<cmds, ops>> /\ ui' = Present(room, ui, e).ui
  BY DEF HandleEvent, CInv, Ordered
<1>2. /\ e = events[1]
      /\ Silent(events) => Silent(events') /\ e.kind \notin Answers
      /\ Answering(events) =>
             IF e.kind \in Answers THEN Silent(events') ELSE Answering(events')
  BY <1>1, HandleAnswers
<1>3. e.kind \in EventKinds
  BY <1>1, HandledOrdered DEF CInv
<1>. HIDE DEF e
<1>4. DOMAIN ui = UIFields
  BY DEF CInv
<1>5. SameHeld /\ SameOps
  BY <1>1, HeldStays, OpsStay
<1>6. CASE e.kind \in Answers
  <2>1. ui'.pending = FALSE
    BY <1>1, <1>4, <1>6, GateReleased
  <2>2. AsEvent
    BY <1>2, <1>6 DEF Gate, Idle, AsMessage, AsOp
  <2>3. Idle'
    BY <1>2, <1>5, <1>6, <2>2 DEF AsEvent, Idle, SameHeld, SameOps
  <2>4. Held' = {} /\ Counts(cmds') /\ IsSeq(ops')
    BY <1>5, <2>3 DEF Idle, SameHeld, SameOps
  <2>. QED  BY <2>1, <2>3, <2>4 DEF Gate
<1>7. CASE e.kind \notin Answers
  <2>1. SameGate
    BY <1>1, <1>3, <1>4, <1>7, GateKept DEF SameGate
  <2>. QED  BY <1>2, <1>5, <1>7, <2>1, GateStays DEF SameEvents
<1>. QED  BY <1>6, <1>7

LEMMA AppendAnswers ==
    ASSUME NEW s, IsSeq(s), NEW e
    PROVE  /\ IsSeq(Append(s, e))
           /\ e.kind \notin Answers /\ Silent(s) => Silent(Append(s, e))
           /\ e.kind \notin Answers /\ Answering(s) => Answering(Append(s, e))
           /\ e.kind \in Answers /\ Silent(s) => Answering(Append(s, e))
<1>1. PICK S : s \in Seq(S)
  BY DEF IsSeq
<1>. DEFINE t == <<e>>
<1>2. IsSeq(t) /\ Len(t) = 1 /\ t[1] = e
  <2>1. t \in Seq({e})
    OBVIOUS
  <2>. QED  BY <2>1 DEF IsSeq
<1>3. Append(s, e) = s \o t
  BY <1>1
<1>. HIDE DEF t
<1>4. 1 \in 1 .. 1 /\ \A k \in 1 .. 1 : k = 1
  OBVIOUS
<1>5. e.kind \notin Answers => Silent(t)
  BY <1>2, <1>4 DEF Silent
<1>6. e.kind \in Answers => Answering(t)
  BY <1>2, <1>4 DEF Answering
<1>. QED  BY <1>2, <1>3, <1>5, <1>6, PublishAnswers

LEMMA FirstAnswer ==
    ASSUME NEW e
    PROVE  /\ IsSeq(<<e>>)
           /\ e.kind \notin Answers => Silent(<<e>>)
           /\ e.kind \in Answers => Answering(<<e>>)
<1>. DEFINE n == <<>>
<1>1. IsSeq(n) /\ Silent(n)
  <2>1. n \in Seq({}) /\ Len(n) = 0
    OBVIOUS
  <2>. QED  BY <2>1 DEF IsSeq, Silent
<1>2. <<e>> = Append(n, e)
  OBVIOUS
<1>. HIDE DEF n
<1>. QED  BY <1>1, <1>2, AppendAnswers

LEMMA KindsAnswer ==
    /\ \A s, a : StateChanged(s, a).kind \notin Answers
    /\ Accepted.kind \notin Answers
    /\ \A raw : Dispatched(raw).kind \notin Answers /\ Discarded(raw).kind \notin Answers
    /\ \A kind \in Answers : \A raw, sent : Event(kind, raw, sent).kind \in Answers
BY EventFields DEF Answers

LEMMA MessagesAnswer ==
    ASSUME NEW raw, NEW done \in MessageOutcomes(raw)
    PROVE  IsSeq(done.now) /\ Answering(done.now)
<1>. DEFINE st == StateChanged(NoText, approval)
            f1 == Event("failed", raw, FALSE)
            f2 == Event("failed", raw, TRUE)
            ok == Event("succeeded", raw, TRUE)
            in == Event("succeeded", raw, FALSE)
            sc == StateChanged(raw, approval)
            di == Dispatched(raw)
            ac == Accepted
            n1 == <<ac, f1>>
            n2 == <<ac, di, f2>>
            n3 == <<ac, di, ok>>
            n4 == <<ac, in, sc>>
<1>1. /\ st.kind \notin Answers /\ sc.kind \notin Answers
      /\ di.kind \notin Answers /\ ac.kind \notin Answers
      /\ f1.kind \in Answers /\ f2.kind \in Answers
      /\ ok.kind \in Answers /\ in.kind \in Answers
  <2>1. {"failed", "succeeded"} \subseteq Answers
    BY DEF Answers
  <2>. QED  BY <2>1, KindsAnswer
<1>2. \/ done.now = Append(n1, st) \/ done.now = Append(n2, st)
      \/ done.now = Append(n3, st) \/ done.now = n4
  <2>1. \/ done = Answer(Append(n1, st), NoText) \/ done = Answer(Append(n2, st), NoText)
        \/ done = Answer(Append(n3, st), NoText) \/ done = Answer(n4, raw)
    BY Zenon DEF MessageOutcomes
  <2>. HIDE DEF n1, n2, n3, n4, st
  <2>. QED  BY <2>1, AnswerFields
<1>. HIDE DEF st, f1, f2, ok, in, sc, di, ac
<1>3. IsSeq(<<ac>>) /\ Silent(<<ac>>)
  BY <1>1, FirstAnswer
<1>4. n1 = Append(<<ac>>, f1)
  OBVIOUS
<1>5. /\ <<ac, di>> = Append(<<ac>>, di) /\ <<ac, in>> = Append(<<ac>>, in)
      /\ n2 = Append(<<ac, di>>, f2) /\ n3 = Append(<<ac, di>>, ok)
      /\ n4 = Append(<<ac, in>>, sc)
  OBVIOUS
<1>. HIDE DEF n1, n2, n3, n4
<1>6. IsSeq(<<ac, di>>) /\ Silent(<<ac, di>>) /\ IsSeq(<<ac, in>>) /\ Answering(<<ac, in>>)
  BY <1>1, <1>3, <1>5, AppendAnswers
<1>7. /\ IsSeq(n1) /\ Answering(n1) /\ IsSeq(n2) /\ Answering(n2)
      /\ IsSeq(n3) /\ Answering(n3) /\ IsSeq(n4) /\ Answering(n4)
  BY <1>1, <1>3, <1>4, <1>5, <1>6, AppendAnswers
<1>. QED  BY <1>1, <1>2, <1>7, AppendAnswers

LEMMA CommandsAnswer ==
    ASSUME NEW raw, NEW done \in CommandOutcomes(raw)
    PROVE  IsSeq(done.now) /\ Answering(done.now)
<1>1. PICK kind \in {"succeeded", "failed"} :
          done = Answer(<<Accepted, StateChanged(NoText, approval),
                          Event(kind, raw, FALSE)>>, NoText)
  BY Zenon DEF CommandOutcomes
<1>. DEFINE ac == Accepted
            st == StateChanged(NoText, approval)
            e  == Event(kind, raw, FALSE)
<1>2. e.kind \in Answers /\ st.kind \notin Answers /\ ac.kind \notin Answers
  <2>1. kind \in Answers
    BY DEF Answers
  <2>. QED  BY <2>1, KindsAnswer
<1>3. done = Answer(<<ac, st, e>>, NoText)
  BY <1>1
<1>. HIDE DEF ac, st, e
<1>4. done.now = Append(Append(<<ac>>, st), e)
  <2>1. <<ac, st, e>> = Append(Append(<<ac>>, st), e)
    OBVIOUS
  <2>. QED  BY <1>3, <2>1, AnswerFields
<1>5. IsSeq(<<ac>>) /\ Silent(<<ac>>)
  BY <1>2, FirstAnswer
<1>6. IsSeq(Append(<<ac>>, st)) /\ Silent(Append(<<ac>>, st))
  BY <1>2, <1>5, AppendAnswers
<1>. QED  BY <1>2, <1>4, <1>6, AppendAnswers

LEMMA RefusalsAnswer ==
    ASSUME NEW raw, NEW refusal \in Refusals(raw)
    PROVE  IsSeq(<<refusal>>) /\ Answering(<<refusal>>)
<1>1. refusal.kind \in Answers
  <2>1. {"failed", "rejected", "unknown"} \subseteq Answers
    BY DEF Answers
  <2>. QED  BY <2>1, KindsAnswer DEF Refusals
<1>. QED  BY <1>1, FirstAnswer

LEMMA EndsSilent ==
    ASSUME NEW raw, NEW end \in StageOutcomes(raw), NEW s, NEW a
    PROVE  LET t == Append(end, StateChanged(s, a)) IN IsSeq(t) /\ Silent(t)
<1>1. IsSeq(end) /\ Silent(end)
  <2>1. CASE end = <<>>
    <3>1. end \in Seq({}) /\ Len(end) = 0
      BY <2>1
    <3>. QED  BY <3>1 DEF IsSeq, Silent
  <2>2. CASE end \in {<<Dispatched(raw)>>, <<Discarded(raw)>>}
    BY <2>2, KindsAnswer, FirstAnswer
  <2>. QED  BY <2>1, <2>2 DEF StageOutcomes
<1>. QED  BY <1>1, KindsAnswer, AppendAnswers

\* Publishing no answer, or one, after events that hold none.
LEMMA PublishSilent ==
    ASSUME CInv, NEW t, IsSeq(t), Silent(t), Publish(t)
    PROVE  SameEvents
BY PublishAnswers DEF CInv, Ordered, Publish, SameEvents

LEMMA PublishAnswer ==
    ASSUME CInv, Silent(events), NEW t, IsSeq(t), Answering(t), Publish(t)
    PROVE  Answering(events')
BY PublishAnswers DEF CInv, Ordered, Publish

LEMMA StatesSilent ==
    ASSUME CInv, NEW s, NEW a, Publish(<<StateChanged(s, a)>>)
    PROVE  SameEvents
BY FirstAnswer, KindsAnswer, PublishSilent

LEMMA GateApply ==
    ASSUME CInv, Gate, Apply
    PROVE  Gate'
<1>. DEFINE op == Head(ops)
<1>1. /\ ops # <<>> /\ IsSeq(ops) /\ ops' = Tail(ops) /\ UNCHANGED ui
      /\ \/ ApplySubmit(op) \/ ApplyTake(op) \/ ApplyDiscard(op) \/ ApplyInterrupt(op)
         \/ ApplyResolve(op) \/ ApplyShutdown(op)
  BY DEF Apply, Gate
<1>2. /\ IsSeq(ops') /\ op = ops[1]
      /\ Vacant(ops) => Vacant(ops') /\ op.do # "submit"
      /\ Submitting(ops) => IF op.do = "submit" THEN Vacant(ops') ELSE Submitting(ops')
  BY <1>1, ApplySubmits
<1>. HIDE DEF op
<1>3. CASE ApplySubmit(op)
  <2>1. op.do = "submit" /\ UNCHANGED cmds
    BY <1>3 DEF ApplySubmit
  <2>2. AsOp /\ ui.pending
    BY <1>2, <2>1 DEF Gate, Idle, AsMessage, AsOp, AsEvent
  <2>3. Answering(events')
    <3>1. CASE Publish(<<Event("rejected", op.raw, FALSE)>>)
      <4>1. "rejected" \in Answers
        BY DEF Answers
      <4>2. Event("rejected", op.raw, FALSE).kind \in Answers
        BY <4>1, KindsAnswer
      <4>. QED  BY <2>2, <3>1, <4>2, FirstAnswer, PublishAnswer DEF AsOp
    <3>2. CASE \E refusal \in Refusals(op.raw) : Publish(<<refusal>>)
      BY <2>2, <3>2, RefusalsAnswer, PublishAnswer DEF AsOp
    <3>3. CASE \E done \in IF op.raw \in Messages THEN MessageOutcomes(op.raw)
                                                 ELSE CommandOutcomes(op.raw) :
                   Publish(done.now)
      BY <2>2, <3>3, MessagesAnswer, CommandsAnswer, PublishAnswer DEF AsOp
    <3>. QED  BY <1>3, <3>1, <3>2, <3>3 DEF ApplySubmit
  <2>4. SameHeld
    BY <2>1, HeldStays
  <2>5. Held' = {} /\ Vacant(ops')
    BY <1>2, <2>1, <2>2, <2>4 DEF AsOp, SameHeld
  <2>6. AsEvent'
    BY <2>3, <2>5 DEF AsEvent
  <2>. QED  BY <1>1, <1>2, <2>2, <2>4, <2>5, <2>6 DEF Gate, SameHeld
<1>4. ASSUME op.do # "submit", SameHeld, SameEvents PROVE Gate'
  <2>1. SameOps
    BY <1>2, <1>4 DEF SameOps
  <2>. QED  BY <1>1, <1>4, <2>1, GateStays DEF SameGate
<1>5. CASE ApplyTake(op)
  <2>1. SameHeld
    BY <1>5, MsgFields, HeldStarts DEF ApplyTake
  <2>2. SameEvents
    BY <1>5, EventsStay, StatesSilent DEF ApplyTake
  <2>. QED  BY <1>4, <1>5, <2>1, <2>2 DEF ApplyTake
<1>6. CASE ApplyDiscard(op)
  <2>1. SameEvents
    BY <1>6, EventsStay, StatesSilent DEF ApplyDiscard
  <2>. QED  BY <1>4, <1>6, <2>1, HeldStays DEF ApplyDiscard
<1>7. CASE ApplyInterrupt(op)
  <2>1. SameEvents
    BY <1>7, EventsStay, StatesSilent, EndsSilent, PublishSilent DEF ApplyInterrupt
  <2>. QED  BY <1>4, <1>7, <2>1, HeldStays DEF ApplyInterrupt
<1>8. CASE ApplyResolve(op)
  <2>1. SameEvents
    BY <1>8, EventsStay, StatesSilent DEF ApplyResolve
  <2>. QED  BY <1>4, <1>8, <2>1, HeldStays DEF ApplyResolve
<1>9. CASE ApplyShutdown(op)
  BY <1>4, <1>9, EventsStay, HeldStays DEF ApplyShutdown
<1>. QED  BY <1>1, <1>3, <1>5, <1>6, <1>7, <1>8, <1>9

LEMMA GateInterpreter ==
    ASSUME CInv, Gate, Session \/ RequestClose
    PROVE  Gate'
<1>1. CASE Session
  <2>1. SameEvents
    BY <1>1, StatesSilent, EndsSilent, PublishSilent
       DEF Session, StageEnds, ApprovalRequested, ApprovalCleared
  <2>2. UNCHANGED <<ui, cmds, ops>>
    BY <1>1 DEF Session, StageEnds, ApprovalRequested, ApprovalCleared, SessionOnly
  <2>. QED  BY <2>1, <2>2, HeldStays, OpsStay, GateStays DEF SameGate
<1>2. CASE RequestClose
  <2>1. UNCHANGED <<ui, cmds, events>> /\ Accept(Op("shutdown", NoText, 0))
    BY <1>2 DEF RequestClose
  <2>2. SameOps
    BY <2>1, OpsAccept, MsgFields
  <2>. QED  BY <2>1, <2>2, HeldStays, EventsStay, GateStays DEF SameGate
<1>. QED  BY <1>1, <1>2

LEMMA GateNext == CInv /\ Gate /\ [Next]_vars => Gate'
<1>. SUFFICES ASSUME CInv, Gate, [Next]_vars PROVE Gate'
  OBVIOUS
<1>1. CASE UNCHANGED vars
  BY <1>1, HeldStays, OpsStay, EventsStay, GateStays DEF vars, SameGate
<1>. QED  BY <1>1, GateKey, GateMessage, GateEvent, GateApply, GateInterpreter DEF Next

LEMMA GateAlways == Spec => []Gate
BY GateInit, GateNext, Inductive, PTL DEF Spec

LEMMA GateCounts ==
    ASSUME CInv, Gate
    PROVE  GateTracksSubmission
<1>. DEFINE H == {c \in BagToSet(cmds) : c.do = "submit"}
            M == UNION {{<<"message", c, n>> : n \in 1 .. cmds[c]} : c \in H}
            O == {<<"operation", k>> : k \in {j \in DOMAIN ops : ops[j].do = "submit"}}
            E == {<<"event", k>> : k \in {j \in DOMAIN events : events[j].kind \in Answers}}
<1>0. H = Held
  BY DEF Held, BagToSet
<1>1. InTransit = M \cup O \cup E
  BY DEF InTransit
<1>. HIDE DEF H
<1>2. DOMAIN ops = 1 .. Len(ops) /\ DOMAIN events = 1 .. Len(events)
  BY DEF Gate, CInv, Ordered, IsSeq
<1>3. Held = {} => M = {}
  BY <1>0
<1>4. Vacant(ops) => O = {}
  BY <1>2 DEF Vacant
<1>5. Silent(events) => E = {}
  BY <1>2 DEF Silent
<1>6. ASSUME NEW c, Held = {c} PROVE M = {<<"message", c, 1>>}
  <2>1. cmds[c] = 1
    BY <1>6 DEF Gate
  <2>2. 1 .. cmds[c] = {1}
    BY <2>1
  <2>. QED  BY <1>0, <1>6, <2>2
<1>7. Submitting(ops) => \E k : O = {<<"operation", k>>}
  <2>1. ASSUME Submitting(ops) PROVE \E k : O = {<<"operation", k>>}
    <3>1. PICK k \in 1 .. Len(ops) :
              ops[k].do = "submit" /\ \A j \in 1 .. Len(ops) : ops[j].do = "submit" => j = k
      BY <2>1 DEF Submitting
    <3>2. {j \in DOMAIN ops : ops[j].do = "submit"} = {k}
      BY <1>2, <3>1
    <3>. QED  BY <3>2
  <2>. QED  BY <2>1
<1>8. Answering(events) => \E k : E = {<<"event", k>>}
  <2>1. ASSUME Answering(events) PROVE \E k : E = {<<"event", k>>}
    <3>1. PICK k \in 1 .. Len(events) :
              events[k].kind \in Answers
              /\ \A j \in 1 .. Len(events) : events[j].kind \in Answers => j = k
      BY <2>1 DEF Answering
    <3>2. {j \in DOMAIN events : events[j].kind \in Answers} = {k}
      BY <1>2, <3>1
    <3>. QED  BY <3>2
  <2>. QED  BY <2>1
<1>. HIDE DEF M, O, E
<1>9. ui.pending => \E x : InTransit = {x}
  <2>1. CASE AsMessage
    BY <1>1, <1>4, <1>5, <1>6, <2>1 DEF AsMessage
  <2>2. CASE AsOp
    BY <1>1, <1>3, <1>5, <1>7, <2>2 DEF AsOp
  <2>3. CASE AsEvent
    BY <1>1, <1>3, <1>4, <1>8, <2>3 DEF AsEvent
  <2>. QED  BY <2>1, <2>2, <2>3 DEF Gate
<1>10. ~ ui.pending => InTransit = {}
  BY <1>1, <1>3, <1>4, <1>5 DEF Gate, Idle
<1>. QED  BY <1>9, <1>10 DEF GateTracksSubmission

\* The gate is closed exactly while one submission is under way, whatever keys,
\* editor results and commands race for it, and however the interpreter answers
\* (handleKey, submitToInterpreter, and the handlers of outcomes).
THEOREM GateIsExact == Spec => []GateTracksSubmission
BY Inductive, GateAlways, GateCounts, PTL
===============================================================================
