------------------------------ MODULE CodexProofs ------------------------------
(***************************************************************************)
(* What holds of CodexClient for any number of turns, of notifications and *)
(* of messages, whatever the process says and however its callers meet:    *)
(* one turn at a time, every turn ends with the message of its kind, and   *)
(* maintenance and notices stay out of what is shown.                      *)
(***************************************************************************)
EXTENDS CodexClient, FiniteSetTheorems, TLAPS

(***************************************************************************)
(* The invariant                                                           *)
(***************************************************************************)

Shape ==
    /\ turn \in [kind : {"idle", "unknown", "known"}, id : Turns \cup {None}]
    /\ notice \in [state : NoticeStates, kind : {"none", "notice", "keepalive"},
                   reported : BOOLEAN]
    /\ call \in [Callers -> [pc : CallPCs, op : Kinds, n : Turns \cup {None}]]
    /\ rd \in [pc : {"read", "capture", "act", "dead"},
               note : Notifications \cup {NoNote},
               kind : {"none", "notice", "keepalive"}]
    /\ phase \in [Turns -> {"none", "done"} \cup Active]
    /\ stdout \in Seq(Notifications)
    /\ last \in 0 .. MaxTurns
    /\ kindOf \in [Turns -> Kinds \cup {"none"}]

\* A caller that has claimed the turn, and written nothing yet.
Claims(c) == call[c].pc \in {"mark", "write", "undoTurn"}
Claimed   == \E c \in Callers : Claims(c)

\* A caller whose notice is marked, and not requested.
Marked(c) ==
    \/ call[c].pc \in {"write", "undoTurn"} /\ call[c].op # "turn"
    \/ call[c].pc = "undoNotice"

\* A turn was requested, and the worker has not read its end.
Open == turn.kind # "idle" /\ ~ Claimed

\* The process has no turn, and nothing it said is left to read.
Quiescent == InFlight = {} /\ stdout = <<>>

\* What the worker holds.
Handles == rd.pc \in {"capture", "act"}
Ending  == Handles /\ rd.note.what \in Endings
Within  == Handles /\ rd.note.what \notin Endings

\* The turns and their requests: turns are numbered as they are written, and
\* only the last can be in flight.
Numbered ==
    \A n \in Turns :
        /\ IF n > last THEN phase[n] = "none" /\ kindOf[n] = "none" ELSE kindOf[n] # "none"
        /\ n < last => phase[n] = "done"
        /\ n = last => phase[n] # "none"

\* One caller claims the turn, and while it does, or while the turn is idle,
\* the process is quiet.
OneClaim ==
    /\ \A c, d \in Callers : Claims(c) /\ Claims(d) => c = d
    /\ Claimed => turn.kind = "unknown" /\ Quiescent
    /\ turn.kind = "idle" => Quiescent
    /\ Open => last \in Turns

\* What there is to read is about the last turn; its end is the last of it.
Said ==
    \A k \in 1 .. Len(stdout) :
        /\ stdout[k].n = last
        /\ phase[last] # "asked"
        /\ stdout[k].what \in Endings => InFlight = {} /\ k = Len(stdout)

\* What the worker holds is about the last turn, or the end of an earlier one.
Held ==
    /\ Handles => rd.note \in Notifications /\ rd.note.what # "ask" /\ rd.note.n <= last
    /\ Within => Open /\ rd.note.n = last /\ phase[last] # "asked"

Flow == Numbered /\ OneClaim /\ Said /\ Held

\* The notice is that of a turn of kind k.
Fits(k) == IF k = "turn" THEN notice.state = "idle"
                         ELSE notice.kind = k /\ notice.state # "idle"

\* What is said of a turn of kind k holds always when it is maintenance, and
\* otherwise unless a notice was marked while the end of a turn was handled.
Sound(k) == k = "keepalive" \/ ~ torn

\* Between turns there is no notice.
Rested ==
    StdinOpen /\ ~ Ending /\ ~ Open /\ (\A c \in Callers : ~ Marked(c))
        => notice.state = "idle"

\* During a turn the notice is its own.
Current == Open /\ ~ Ending /\ Sound(kindOf[last]) => Fits(kindOf[last])

\* And at its end.
AtEnd ==
    Ending /\ Sound(kindOf[rd.note.n]) =>
        /\ Fits(kindOf[rd.note.n])
        /\ kindOf[rd.note.n] = "notice" => notice.state # "pending"

\* What the worker captured is the kind of the turn.
Captured == rd.pc = "act" /\ Sound(kindOf[rd.note.n]) => rd.kind = kindOf[rd.note.n]

\* A caller with a notice of its own.
Requests(c) ==
    /\ call[c].pc \in {"mark", "undoNotice"} => call[c].op # "turn"
    /\ call[c].pc = "write" /\ call[c].op # "turn" /\ StdinOpen /\ Sound(call[c].op)
           => notice.kind = call[c].op /\ notice.state = "pending"
    /\ Marked(c) /\ Ending => torn
    /\ Claims(c) /\ Ending => call[c].op # "keepalive"
    /\ call[c].pc \in {"undoTurn", "undoNotice"} => ~ StdinOpen
    /\ call[c].pc = "undoNotice" => Quiescent /\ ~ Open

\* Nobody claims the turn while the end of maintenance is handled; while the
\* end of another is, only an ordinary turn leaves the notice alone.
Alone ==
    /\ Ending /\ kindOf[rd.note.n] = "keepalive"
           => turn.kind = "idle" /\ \A c \in Callers : ~ Marked(c)
    /\ Ending /\ Open => kindOf[last] # "keepalive" /\ (torn \/ kindOf[last] = "turn")

\* A pending notice is to be told first of all that its turn has started.
StartAhead ==
    \/ Handles /\ rd.note.what = "started"
    \/ ~ Handles /\ stdout # <<>> /\ stdout[1].what = "started"

Begun == stdout # <<>> \/ Within \/ phase[last] \in {"running", "approval"}

StartFirst ==
    Open /\ ~ Ending /\ ~ torn /\ kindOf[last] = "notice" /\ notice.state = "pending" /\ Begun
        => StartAhead

Layered ==
    /\ Rested /\ Current /\ AtEnd /\ Captured /\ Alone /\ StartFirst
    /\ \A c \in Callers : Requests(c)

\* What was said of a turn.
Heard ==
    /\ last \in Nat
    /\ told \in [Turns -> Kinds \cup {"none"}]
    /\ \A n \in Turns : told[n] # "none" => n <= last
    /\ EndsInKind

\* What is on its way to the user.
Quiet ==
    /\ buf \in Seq(Messages)
    /\ asks \in Seq(Turns)
    /\ asking \in Turns \cup {None}
    /\ \A k \in DOMAIN buf : buf[k].n <= last
    /\ \A k \in DOMAIN asks : asks[k] <= last
    /\ asking <= last
    /\ NoticesStayQuiet

Core == Shape /\ Flow /\ Layered

IInv == Core /\ Heard /\ Quiet

USE DEF flight, channel, approve, server, answers, ghosts

(***************************************************************************)
(* Steps that leave turns and notices alone                                *)
(***************************************************************************)

LEMMA SettledStep ==
    ASSUME Core, UNCHANGED <<flight, call, rd, phase, stdout, last, kindOf, torn>>,
           StdinOpen' => StdinOpen
    PROVE  Core'
<1>1. Shape'
  BY DEF Core, Shape
<1>2. /\ InFlight' = InFlight /\ Claimed' = Claimed /\ Quiescent' = Quiescent
      /\ Open' = Open /\ Handles' = Handles /\ Ending' = Ending /\ Within' = Within
      /\ Begun' = Begun /\ StartAhead' = StartAhead
      /\ \A c \in Callers : Claims(c)' = Claims(c) /\ Marked(c)' = Marked(c)
      /\ \A k : Fits(k)' = Fits(k) /\ Sound(k)' = Sound(k)
  BY DEF InFlight, Claimed, Claims, Marked, Quiescent, Open, Handles, Ending, Within, Begun,
         StartAhead, Fits, Sound
<1>3. Flow'
  BY <1>2 DEF Core, Flow, Numbered, OneClaim, Said, Held
<1>4. Layered'
  BY <1>2 DEF Core, Layered, Rested, Current, AtEnd, Captured, Alone, StartFirst, Requests
<1>. QED  BY <1>1, <1>3, <1>4 DEF Core

(***************************************************************************)
(* The callers                                                             *)
(***************************************************************************)

\* What a caller changes shows in the claims and the marks.
LEMMA IdleFacts ==
    ASSUME Core, turn.kind = "idle"
    PROVE  ~ Claimed /\ ~ Open /\ ~ Within /\ Quiescent
BY DEF Core, Flow, OneClaim, Held, Open

LEMMA ClaimFacts ==
    ASSUME Core, NEW c \in Callers, Claims(c)
    PROVE  /\ turn.kind = "unknown" /\ ~ Open /\ ~ Within /\ Quiescent
           /\ \A d \in Callers : Claims(d) => d = c
BY DEF Core, Flow, OneClaim, Held, Open, Claimed

LEMMA BeginKeeps ==
    ASSUME Core, NEW c \in Callers, NEW op \in Kinds, Begin(c, op),
           op = "keepalive" <=> c = "keeper"
    PROVE  Core'
<1>. USE DEF Begin
<1>1. ~ Claimed /\ ~ Open /\ ~ Within /\ Quiescent
  BY IdleFacts
<1>2. Shape'
  <2>1. turn' \in [kind : {"idle", "unknown", "known"}, id : Turns \cup {None}]
    OBVIOUS
  <2>2. call' \in [Callers -> [pc : CallPCs, op : Kinds, n : Turns \cup {None}]]
    BY DEF Core, Shape, CallPCs
  <2>. QED  BY <2>1, <2>2 DEF Core, Shape
<1>3. /\ Quiescent' /\ Claims(c)' /\ Claimed' /\ ~ Open' /\ ~ Within' /\ ~ Marked(c)'
      /\ (Ending' <=> Ending) /\ (Handles' <=> Handles)
      /\ \A d \in Callers : d # c => ~ Claims(d)' /\ (Marked(d)' <=> Marked(d))
  BY <1>1 DEF Core, Shape, Claims, Claimed, Open, Within, Ending, Handles, Marked, Quiescent,
              InFlight
<1>4. Flow'
  BY <1>1, <1>3 DEF Core, Flow, Numbered, OneClaim, Said, Held, Quiescent
<1>5. \A k : Fits(k)' = Fits(k) /\ Sound(k)' = Sound(k)
  BY DEF Fits, Sound
<1>6. Rested' /\ Current' /\ StartFirst'
  BY <1>1, <1>3 DEF Core, Layered, Rested, Current, StartFirst, StdinOpen, Marked, Shape
<1>7. AtEnd' /\ Captured'
  BY <1>3, <1>5 DEF Core, Layered, AtEnd, Captured
<1>8. Alone'
  BY <1>3 DEF Core, Layered, Alone, HandlesEnding, Ending, Handles
<1>9. ASSUME NEW d \in Callers PROVE Requests(d)'
  <2>1. CASE d = c
    BY <1>3, <2>1 DEF Core, Layered, Shape, Requests, HandlesEnding, Ending, Handles, Marked
  <2>2. CASE d # c
    BY <1>3, <1>5, <2>2 DEF Core, Layered, Shape, Requests, StdinOpen
  <2>. QED  BY <2>1, <2>2
<1>. QED  BY <1>2, <1>4, <1>6, <1>7, <1>8, <1>9 DEF Core, Layered

LEMMA MarkKeeps ==
    ASSUME Core, NEW c \in Callers, Mark(c)
    PROVE  Core'
<1>. USE DEF Mark, CallGo
<1>1. /\ Claims(c) /\ turn.kind = "unknown" /\ ~ Open /\ ~ Within /\ Quiescent
      /\ \A d \in Callers : Claims(d) => d = c
  BY ClaimFacts DEF Claims
<1>2. /\ call' \in [Callers -> [pc : CallPCs, op : Kinds, n : Turns \cup {None}]]
      /\ call'[c].pc = "write" /\ call'[c].op = call[c].op
      /\ call[c].op \in {"notice", "keepalive"}
      /\ \A d \in Callers : d # c => call'[d] = call[d]
  BY DEF Core, Shape, CallPCs, Kinds, Layered, Requests
<1>3. Shape'
  BY <1>2 DEF Core, Shape, NoticeStates
<1>4. /\ Quiescent' /\ Claims(c)' /\ Claimed' /\ ~ Open' /\ ~ Within'
      /\ (Ending' <=> Ending) /\ (Handles' <=> Handles) /\ (Ending <=> HandlesEnding)
      /\ \A d \in Callers : d # c => ~ Claims(d)' /\ (Marked(d)' <=> Marked(d))
  BY <1>1, <1>2 DEF Claims, Claimed, Open, Within, Ending, Handles, Marked, Quiescent,
                    InFlight, HandlesEnding
<1>5. Flow'
  BY <1>1, <1>4 DEF Core, Flow, Numbered, OneClaim, Said, Held, Quiescent
<1>6. Rested' /\ Current' /\ StartFirst'
  BY <1>2, <1>4 DEF Rested, Current, StartFirst, Marked
<1>7. AtEnd' /\ Captured' /\ Alone'
  BY <1>1, <1>4 DEF Core, Layered, AtEnd, Captured, Alone, Sound
<1>8. ASSUME NEW d \in Callers PROVE Requests(d)'
  <2>1. CASE d = c
    BY <1>1, <1>2, <1>4, <2>1 DEF Core, Layered, Requests
  <2>2. CASE d # c
    BY <1>1, <1>2, <1>4, <2>2 DEF Core, Layered, Requests, Claims, StdinOpen
  <2>. QED  BY <2>1, <2>2
<1>. QED  BY <1>3, <1>5, <1>6, <1>7, <1>8 DEF Core, Layered

LEMMA WriteKeeps ==
    ASSUME Core, NEW c \in Callers, Write(c)
    PROVE  Core'
<1>. USE DEF Write, CallGo
<1>1. /\ Claims(c) /\ turn.kind = "unknown" /\ ~ Open /\ ~ Within /\ Quiescent
      /\ \A d \in Callers : Claims(d) => d = c
  BY ClaimFacts DEF Claims
<1>2. /\ call' \in [Callers -> [pc : CallPCs, op : Kinds, n : Turns \cup {None}]]
      /\ call'[c].pc = "idle"
      /\ \A d \in Callers : d # c => call'[d] = call[d]
      /\ call[c].pc = "write" /\ call[c].op \in Kinds
  BY DEF Core, Shape, CallPCs, Kinds
<1>3. /\ last \in Nat /\ last' = last + 1 /\ last' \in Turns /\ last' \in 0 .. MaxTurns
      /\ kindOf'[last'] = call[c].op /\ phase'[last'] = "asked"
      /\ kindOf' \in [Turns -> Kinds \cup {"none"}]
      /\ phase' \in [Turns -> {"none", "done"} \cup Active]
      /\ \A n \in Turns : n # last' => kindOf'[n] = kindOf[n] /\ phase'[n] = phase[n]
  BY <1>2, CodexAssumption DEF Core, Shape, Turns, Active
<1>4. Shape'
  BY <1>2, <1>3 DEF Core, Shape
<1>5. /\ ~ Claimed' /\ Open' /\ ~ Within' /\ ~ Begun' /\ ~ Marked(c)' /\ stdout' = <<>>
      /\ (Ending' <=> Ending) /\ (Handles' <=> Handles)
      /\ \A d \in Callers : ~ Claims(d)' /\ (d # c => (Marked(d)' <=> Marked(d)))
  BY <1>1, <1>2, <1>3 DEF Claims, Claimed, Open, Within, Ending, Handles, Marked, Quiescent, Begun
<1>6. \A n \in Turns : phase[n] \notin Active
  BY <1>1 DEF Quiescent, InFlight
<1>7. Numbered'
  <2>1. last # 0 => phase[last] = "done"
    BY <1>6 DEF Core, Shape, Flow, Numbered, Active, Turns
  <2>2. ASSUME NEW n \in Turns, n < last' PROVE phase[n] = "done" /\ kindOf[n] # "none"
    BY <1>3, <2>1, <2>2 DEF Core, Flow, Numbered, Turns
  <2>3. ASSUME NEW n \in Turns, n > last' PROVE phase[n] = "none" /\ kindOf[n] = "none"
    BY <1>3, <2>3 DEF Core, Flow, Numbered, Turns
  <2>. QED  BY <1>2, <1>3, <2>2, <2>3 DEF Numbered, Turns, Kinds
<1>8. OneClaim' /\ Said' /\ Held'
  <2>1. OneClaim'
    BY <1>1, <1>3, <1>5 DEF OneClaim
  <2>2. Said'
    BY <1>5 DEF Said
  <2>3. rd.note \in Notifications /\ rd.note.n <= last => rd.note.n <= last'
    BY <1>3 DEF Notifications, Turns
  <2>4. Held'
    BY <1>5, <2>3 DEF Core, Flow, Held
  <2>. QED  BY <2>1, <2>2, <2>4
<1>9. Handles => rd.note.n # last' /\ rd.note.n \in Turns
  BY <1>3 DEF Core, Flow, Held, Notifications, Turns
<1>10. Rested' /\ StartFirst'
  BY <1>5 DEF Rested, StartFirst
<1>11. Current'
  BY <1>1, <1>2, <1>3, <1>5 DEF Core, Layered, Current, Rested, Requests, Marked, Fits, Sound,
                               Claims, Kinds
<1>12. AtEnd' /\ Captured'
  BY <1>3, <1>5, <1>9 DEF Core, Layered, AtEnd, Captured, Fits, Sound, Ending, Handles
<1>13. Alone'
  BY <1>1, <1>2, <1>3, <1>5, <1>9 DEF Core, Layered, Alone, Requests, Marked, Ending
<1>14. ASSUME NEW d \in Callers PROVE Requests(d)'
  BY <1>1, <1>2, <1>5 DEF Core, Layered, Requests, Claims, StdinOpen
<1>. QED  BY <1>4, <1>7, <1>8, <1>10, <1>11, <1>12, <1>13, <1>14 DEF Core, Flow, Layered

\* Nothing can be written any more: a claim is given up.
LEMMA WriteFailsKeeps ==
    ASSUME Core, NEW c \in Callers, WriteFails(c)
    PROVE  Core'
<1>. USE DEF WriteFails, CallGo
<1>1. /\ Claims(c) /\ turn.kind = "unknown" /\ ~ Open /\ ~ Within /\ Quiescent
      /\ \A d \in Callers : Claims(d) => d = c
  BY ClaimFacts DEF Claims
<1>2. /\ call' \in [Callers -> [pc : CallPCs, op : Kinds, n : Turns \cup {None}]]
      /\ call'[c].pc = "undoTurn" /\ call'[c].op = call[c].op
      /\ \A d \in Callers : d # c => call'[d] = call[d]
  BY DEF Core, Shape, CallPCs, Kinds
<1>3. Shape'
  BY <1>2 DEF Core, Shape
<1>4. /\ Quiescent' /\ Claims(c)' /\ Claimed' /\ ~ Open' /\ ~ Within' /\ ~ StdinOpen'
      /\ (Ending' <=> Ending) /\ (Handles' <=> Handles)
      /\ \A d \in Callers : /\ d # c => ~ Claims(d)'
                            /\ Marked(d)' <=> Marked(d)
  BY <1>1, <1>2 DEF Claims, Claimed, Open, Within, Ending, Handles, Marked, Quiescent,
                    InFlight, StdinOpen
<1>5. Flow'
  <2>1. Numbered'
    BY DEF Core, Flow, Numbered
  <2>2. OneClaim'
    BY <1>1, <1>4 DEF Core, Flow, OneClaim
  <2>3. Said'
    BY <1>1 DEF Said, Quiescent
  <2>4. Held'
    BY <1>4 DEF Core, Flow, Held
  <2>. QED  BY <2>1, <2>2, <2>3, <2>4 DEF Flow
<1>6. Rested' /\ Current' /\ StartFirst'
  BY <1>4 DEF Rested, Current, StartFirst
<1>7. AtEnd' /\ Captured' /\ Alone'
  BY <1>1, <1>4 DEF Core, Layered, AtEnd, Captured, Alone, Fits, Sound
<1>8. ASSUME NEW d \in Callers PROVE Requests(d)'
  <2>1. CASE d = c
    BY <1>1, <1>2, <1>4, <2>1 DEF Core, Layered, Requests
  <2>2. CASE d # c
    BY <1>1, <1>2, <1>4, <2>2 DEF Core, Layered, Requests
  <2>. QED  BY <2>1, <2>2
<1>. QED  BY <1>3, <1>5, <1>6, <1>7, <1>8 DEF Core, Layered

LEMMA UndoTurnKeeps ==
    ASSUME Core, NEW c \in Callers, UndoTurn(c)
    PROVE  Core'
<1>. USE DEF UndoTurn, CallGo
<1>1. /\ Claims(c) /\ turn.kind = "unknown" /\ ~ Open /\ ~ Within /\ Quiescent
      /\ \A d \in Callers : Claims(d) => d = c
  BY ClaimFacts DEF Claims
<1>2. /\ call' \in [Callers -> [pc : CallPCs, op : Kinds, n : Turns \cup {None}]]
      /\ call'[c].pc = (IF call[c].op = "turn" THEN "idle" ELSE "undoNotice")
      /\ call'[c].op = call[c].op
      /\ \A d \in Callers : d # c => call'[d] = call[d]
  <2>. DEFINE to == IF call[c].op = "turn" THEN "idle" ELSE "undoNotice"
  <2>1. to \in CallPCs
    BY DEF CallPCs
  <2>2. call' = [call EXCEPT ![c].pc = to]
    OBVIOUS
  <2>. HIDE DEF to
  <2>3. call \in [Callers -> [pc : CallPCs, op : Kinds, n : Turns \cup {None}]]
    BY DEF Core, Shape
  <2>4. /\ call' \in [Callers -> [pc : CallPCs, op : Kinds, n : Turns \cup {None}]]
        /\ call'[c].pc = to /\ call'[c].op = call[c].op
        /\ \A d \in Callers : d # c => call'[d] = call[d]
    BY <2>1, <2>2, <2>3
  <2>. QED  BY <2>4 DEF to
<1>3. Shape'
  BY <1>2 DEF Core, Shape
<1>4. /\ Quiescent' /\ ~ Claimed' /\ ~ Open' /\ ~ Within' /\ ~ StdinOpen'
      /\ (Ending' <=> Ending) /\ (Handles' <=> Handles)
      /\ \A d \in Callers : ~ Claims(d)' /\ (Marked(d)' <=> Marked(d))
  BY <1>1, <1>2 DEF Core, Layered, Requests, Claims, Claimed, Open, Within, Ending, Handles,
                    Marked, Quiescent, InFlight, StdinOpen
<1>5. Flow'
  <2>1. Numbered'
    BY DEF Core, Flow, Numbered
  <2>2. OneClaim'
    BY <1>1, <1>4 DEF Core, Flow, OneClaim
  <2>3. Said'
    BY <1>1 DEF Said, Quiescent
  <2>4. Held'
    BY <1>4 DEF Core, Flow, Held
  <2>. QED  BY <2>1, <2>2, <2>3, <2>4 DEF Flow
<1>6. Rested' /\ Current' /\ StartFirst'
  BY <1>4 DEF Rested, Current, StartFirst
<1>7. AtEnd' /\ Captured' /\ Alone'
  BY <1>1, <1>4 DEF Core, Layered, AtEnd, Captured, Alone, Fits, Sound
<1>8. ASSUME NEW d \in Callers PROVE Requests(d)'
  BY <1>1, <1>2, <1>4 DEF Core, Layered, Requests
<1>. QED  BY <1>3, <1>5, <1>6, <1>7, <1>8 DEF Core, Layered

LEMMA UndoNoticeKeeps ==
    ASSUME Core, NEW c \in Callers, UndoNotice(c)
    PROVE  Core'
<1>. USE DEF UndoNotice, CallGo
<1>1. ~ StdinOpen /\ ~ Open /\ ~ Within /\ Quiescent /\ (Ending => torn)
  BY DEF Core, Layered, Requests, Flow, Held, Marked
<1>2. /\ call' \in [Callers -> [pc : CallPCs, op : Kinds, n : Turns \cup {None}]]
      /\ call'[c].pc = "idle"
      /\ \A d \in Callers : d # c => call'[d] = call[d]
  BY DEF Core, Shape, CallPCs, Kinds
<1>3. Shape'
  BY <1>2 DEF Core, Shape, NoticeStates
<1>4. /\ Quiescent' /\ (Claimed' <=> Claimed) /\ ~ Open' /\ ~ Within' /\ ~ StdinOpen'
      /\ (Ending' <=> Ending) /\ (Handles' <=> Handles)
      /\ \A d \in Callers : /\ Claims(d)' <=> Claims(d)
                            /\ Marked(d)' => Marked(d)
  BY <1>1, <1>2 DEF Claims, Claimed, Open, Within, Ending, Handles, Marked, Quiescent,
                    InFlight, StdinOpen
<1>5. Flow'
  <2>1. Numbered'
    BY DEF Core, Flow, Numbered
  <2>2. OneClaim'
    BY <1>1, <1>4 DEF Core, Flow, OneClaim
  <2>3. Said'
    BY <1>1 DEF Said, Quiescent
  <2>4. Held'
    BY <1>4 DEF Core, Flow, Held
  <2>. QED  BY <2>1, <2>2, <2>3, <2>4 DEF Flow
<1>6. Rested' /\ Current' /\ StartFirst'
  BY <1>4 DEF Rested, Current, StartFirst
<1>7. AtEnd' /\ Captured' /\ Alone'
  BY <1>1, <1>4 DEF Core, Layered, AtEnd, Captured, Alone, Sound, Marked
<1>8. ASSUME NEW d \in Callers PROVE Requests(d)'
  BY <1>1, <1>2, <1>4 DEF Core, Layered, Requests
<1>. QED  BY <1>3, <1>5, <1>6, <1>7, <1>8 DEF Core, Layered

(***************************************************************************)
(* The process                                                             *)
(***************************************************************************)

\* A turn in flight is the last, it is claimed by nobody, and its end is not
\* told.
LEMMA FlightFacts ==
    ASSUME Core, NEW n \in Turns, phase[n] \in Active
    PROVE  /\ n = last /\ Open /\ n \in InFlight
           /\ \A k \in 1 .. Len(stdout) : stdout[k].what \notin Endings
<1>1. n \in InFlight
  BY DEF InFlight
<1>2. n = last
  <2>1. ~ (n > last) /\ ~ (n < last)
    BY DEF Core, Flow, Numbered, Active
  <2>. QED  BY <2>1 DEF Core, Shape, Turns
<1>. QED  BY <1>1, <1>2 DEF Core, Flow, OneClaim, Said, Quiescent, Open

LEMMA AppendFacts ==
    ASSUME NEW S, NEW q \in Seq(S), NEW e \in S
    PROVE  /\ Append(q, e) \in Seq(S) /\ Len(q) \in Nat /\ Len(Append(q, e)) = Len(q) + 1
           /\ Append(q, e) # <<>> /\ Append(q, e)[Len(q) + 1] = e
           /\ \A k \in 1 .. Len(q) : Append(q, e)[k] = q[k]
OBVIOUS

LEMMA SaysKeeps ==
    ASSUME Core, NEW n \in Turns, phase[n] \in Active,
           NEW what \in (Content \cup Endings \cup {"started", "ask"}),
           Tell(what, n), NEW next \in {"running", "approval", "done"},
           what = "started" <=> phase[n] = "asked",
           what \in Endings <=> next = "done",
           phase' = [phase EXCEPT ![n] = next],
           UNCHANGED <<turn, notice, call, rd, alive, stop, last, kindOf, torn>>
    PROVE  Core'
<1>1. /\ n = last /\ Open /\ \A k \in 1 .. Len(stdout) : stdout[k].what \notin Endings
  BY FlightFacts
<1>. DEFINE m == [what |-> what, n |-> n]
<1>2. m \in Notifications /\ m.what = what /\ m.n = n
  BY DEF Notifications
<1>3. stdout' = Append(stdout, m)
  BY DEF Tell
<1>. HIDE DEF m
<1>4. /\ stdout' \in Seq(Notifications) /\ Len(stdout') = Len(stdout) + 1 /\ Len(stdout) \in Nat
      /\ stdout' # <<>> /\ stdout'[Len(stdout')] = m
      /\ \A k \in 1 .. Len(stdout) : stdout'[k] = stdout[k]
  <2>1. stdout \in Seq(Notifications)
    BY DEF Core, Shape
  <2>. QED  BY <1>2, <1>3, <2>1, AppendFacts
<1>5. /\ phase' \in [Turns -> {"none", "done"} \cup Active]
      /\ phase'[n] = next /\ \A m1 \in Turns : m1 # n => phase'[m1] = phase[m1]
  BY DEF Core, Shape, Active
<1>6. Shape'
  BY <1>4, <1>5 DEF Core, Shape
<1>7. /\ (Claimed' <=> Claimed) /\ Open' /\ ~ Claimed
      /\ (Ending' <=> Ending) /\ (Handles' <=> Handles) /\ (Within' <=> Within)
      /\ \A d \in Callers : /\ Claims(d)' <=> Claims(d)
                            /\ Marked(d)' <=> Marked(d)
      /\ (StdinOpen' <=> StdinOpen)
  BY <1>1 DEF Claims, Claimed, Open, Within, Ending, Handles, Marked, StdinOpen
<1>8. Numbered'
  BY <1>1, <1>5 DEF Core, Flow, Numbered
<1>9. OneClaim'
  BY <1>1, <1>7 DEF Core, Flow, OneClaim, Open
<1>10. Said'
  <2>1. ASSUME NEW k \in 1 .. Len(stdout')
        PROVE  /\ stdout'[k].n = last /\ phase'[last] # "asked"
               /\ stdout'[k].what \in Endings => k = Len(stdout') /\ next = "done"
    BY <1>1, <1>2, <1>4, <1>5 DEF Core, Flow, Said
  <2>2. next = "done" => InFlight' = {}
    BY <1>1, <1>5, <1>8 DEF InFlight, Numbered, Core, Shape, Turns, Active
  <2>. QED  BY <2>1, <2>2 DEF Said
<1>11. Held'
  BY <1>1, <1>5, <1>7 DEF Core, Flow, Held
<1>12. Rested' /\ Current' /\ AtEnd' /\ Captured' /\ Alone'
  <2>1. \A k : Fits(k)' = Fits(k) /\ Sound(k)' = Sound(k)
    BY DEF Fits, Sound
  <2>2. Rested' /\ Current'
    BY <1>1, <1>7, <2>1 DEF Core, Layered, Rested, Current
  <2>3. AtEnd' /\ Captured' /\ Alone'
    BY <1>1, <1>7, <2>1 DEF Core, Layered, AtEnd, Captured, Alone
  <2>. QED  BY <2>2, <2>3
<1>13. StartFirst'
  <2>1. phase[n] # "asked" => Begun
    BY <1>1 DEF Begun, Active
  <2>2. phase[n] = "asked" => stdout = <<>> /\ ~ Within
    BY <1>1, <1>4 DEF Core, Flow, Said, Held
  <2>3. stdout # <<>> => 1 \in 1 .. Len(stdout)
    BY DEF Core, Shape
  <2>4. StartAhead /\ phase[n] # "asked" => StartAhead'
    BY <1>4, <1>7, <2>3 DEF StartAhead, Handles
  <2>5. phase[n] = "asked" /\ ~ Ending => StartAhead'
    BY <1>2, <1>4, <1>7, <2>2 DEF StartAhead, Within, Ending
  <2>. QED  BY <1>1, <1>7, <2>1, <2>4, <2>5 DEF Core, Layered, StartFirst
<1>14. ASSUME NEW d \in Callers PROVE Requests(d)'
  BY <1>1, <1>7 DEF Core, Layered, Requests, Claims, Open, Sound
<1>. QED  BY <1>6, <1>8, <1>9, <1>10, <1>11, <1>12, <1>13, <1>14 DEF Core, Flow, Layered

LEMMA ServerKeeps ==
    ASSUME Core, NEW n \in Turns,
           ServerStart(n) \/ ServerContent(n) \/ ServerAsk(n) \/ ServerEnd(n)
    PROVE  Core'
<1>1. CASE ServerStart(n)
  <2>1. phase[n] \in Active
    BY <1>1 DEF ServerStart, Reach, Active
  <2>. QED  BY <1>1, <2>1, SaysKeeps DEF ServerStart, Reach, Content, Endings
<1>2. CASE ServerContent(n)
  <2>1. PICK what \in Content : Tell(what, n)
    BY <1>2 DEF ServerContent
  <2>2. what \notin Endings /\ what # "started" /\ what \in (Content \cup Endings \cup {"started", "ask"})
    BY <2>1 DEF Content, Endings
  <2>3. phase[n] \in Active /\ phase[n] # "asked" /\ phase' = [phase EXCEPT ![n] = "running"]
    BY <1>2 DEF ServerContent, Active, Core, Shape
  <2>4. UNCHANGED <<turn, notice, call, rd, alive, stop, last, kindOf, torn>>
    BY <1>2 DEF ServerContent
  <2>5. "running" \in {"running", "approval", "done"} /\ "running" # "done"
    OBVIOUS
  <2>. QED  BY <2>1, <2>2, <2>3, <2>4, <2>5, SaysKeeps
<1>3. CASE ServerAsk(n)
  <2>1. "ask" \notin Endings /\ "ask" \in (Content \cup Endings \cup {"started", "ask"})
    BY DEF Endings
  <2>2. phase[n] \in Active /\ phase[n] # "asked" /\ phase' = [phase EXCEPT ![n] = "approval"]
    BY <1>3 DEF ServerAsk, Reach, Active
  <2>3. Tell("ask", n) /\ UNCHANGED <<turn, notice, call, rd, alive, stop, last, kindOf, torn>>
    BY <1>3 DEF ServerAsk
  <2>4. "approval" \in {"running", "approval", "done"} /\ "approval" # "done" /\ "ask" # "started"
    OBVIOUS
  <2>. QED  BY <2>1, <2>2, <2>3, <2>4, SaysKeeps
<1>4. CASE ServerEnd(n)
  <2>1. PICK what \in Endings : Tell(what, n)
    BY <1>4 DEF ServerEnd
  <2>2. phase[n] \in Active /\ phase[n] # "asked" /\ phase' = [phase EXCEPT ![n] = "done"]
    BY <1>4 DEF ServerEnd, Reach, Active
  <2>. QED  BY <1>4, <2>1, <2>2, SaysKeeps DEF ServerEnd, Content, Endings
<1>. QED  BY <1>1, <1>2, <1>3, <1>4

\* The turn of a process that is answered goes on; that of one that exits is
\* over, and nothing is said of it.
Moved(n) ==
    \/ phase'[n] = phase[n]
    \/ phase[n] \in Active /\ phase'[n] = "done"
    \/ phase[n] \in Active \ {"asked"} /\ phase'[n] = "running"

LEMMA PhaseKeeps ==
    ASSUME Core,
           phase' \in [Turns -> {"none", "done"} \cup Active],
           \A n \in Turns : Moved(n),
           StdinOpen' => StdinOpen,
           UNCHANGED <<turn, notice, call, rd, stdout, last, kindOf, torn>>
    PROVE  Core'
<1>1. Shape'
  BY DEF Core, Shape
<1>2. InFlight' \subseteq InFlight
  BY DEF InFlight, Active, Moved
<1>3. /\ (Claimed' <=> Claimed) /\ (Open' <=> Open) /\ (Quiescent => Quiescent')
      /\ (Ending' <=> Ending) /\ (Handles' <=> Handles) /\ (Within' <=> Within)
      /\ \A d \in Callers : /\ Claims(d)' <=> Claims(d)
                            /\ Marked(d)' <=> Marked(d)
      /\ (StartAhead' <=> StartAhead)
  BY <1>2 DEF Claims, Claimed, Open, Within, Ending, Handles, Marked, Quiescent, StartAhead
<1>4. \A k : Fits(k)' = Fits(k) /\ Sound(k)' = Sound(k)
  BY DEF Fits, Sound
<1>5. Numbered'
  BY DEF Core, Flow, Numbered, Active, Moved
<1>6. OneClaim'
  BY <1>3 DEF Core, Flow, OneClaim
<1>7. last \in Turns => (phase[last] # "asked" => phase'[last] # "asked")
                        /\ (phase'[last] \in {"running", "approval"}
                               => phase[last] \in {"running", "approval"})
  BY DEF Active, Moved
<1>8. Said'
  <2>1. ASSUME NEW k \in 1 .. Len(stdout) PROVE stdout[k].n \in Turns
    <3>1. stdout[k] \in Notifications
      BY DEF Core, Shape
    <3>. QED  BY <3>1 DEF Notifications
  <2>2. InFlight = {} => InFlight' = {}
    BY <1>2
  <2>. QED  BY <1>7, <2>1, <2>2 DEF Core, Flow, Said
<1>9. Held'
  <2>1. Open => last \in Turns
    BY DEF Core, Flow, OneClaim
  <2>. QED  BY <1>3, <1>7, <2>1 DEF Core, Flow, Held
<1>10. Rested' /\ Current' /\ AtEnd' /\ Captured' /\ Alone'
  BY <1>3, <1>4 DEF Core, Layered, Rested, Current, AtEnd, Captured, Alone
<1>11. StartFirst'
  <2>1. Begun' => Begun \/ last \notin Turns
    BY <1>3, <1>7 DEF Begun
  <2>2. Open => last \in Turns
    BY DEF Core, Flow, OneClaim
  <2>. QED  BY <1>3, <2>1, <2>2 DEF Core, Layered, StartFirst
<1>12. ASSUME NEW d \in Callers PROVE Requests(d)'
  BY <1>3, <1>4 DEF Core, Layered, Requests
<1>. QED  BY <1>1, <1>5, <1>6, <1>8, <1>9, <1>10, <1>11, <1>12 DEF Core, Flow, Layered

LEMMA ServerRestKeeps ==
    ASSUME Core, ServerExit \/ \E n \in Turns : ServerResume(n)
    PROVE  Core'
<1>1. CASE ServerExit
  <2>1. /\ phase' \in [Turns -> {"none", "done"} \cup Active]
        /\ \A n \in Turns : phase'[n] = phase[n] \/ (phase[n] \in Active /\ phase'[n] = "done")
    <3>1. phase' = [n \in Turns |-> IF phase[n] \in Active THEN "done" ELSE phase[n]]
      BY <1>1 DEF ServerExit
    <3>2. phase \in [Turns -> {"none", "done"} \cup Active]
      BY DEF Core, Shape
    <3>. QED  BY <3>1, <3>2
  <2>2. StdinOpen' => StdinOpen
    BY <1>1 DEF ServerExit, StdinOpen
  <2>3. UNCHANGED <<turn, notice, call, rd, stdout, last, kindOf, torn>>
    BY <1>1 DEF ServerExit
  <2>4. \A n \in Turns : Moved(n)
    BY <2>1 DEF Moved
  <2>. QED  BY <2>1, <2>2, <2>3, <2>4, PhaseKeeps
<1>2. CASE \E n \in Turns : ServerResume(n)
  <2>1. PICK n \in Turns : ServerResume(n)
    BY <1>2
  <2>2. /\ phase' \in [Turns -> {"none", "done"} \cup Active]
        /\ phase[n] = "approval" /\ phase'[n] = "running"
        /\ \A m \in Turns : m # n => phase'[m] = phase[m]
    BY <2>1 DEF ServerResume, Reach, Core, Shape, Active
  <2>3. \A m \in Turns : Moved(m)
    <3>1. "approval" \in Active
      BY DEF Active
    <3>. QED  BY <2>2, <3>1 DEF Moved
  <2>4. StdinOpen' => StdinOpen
    BY <2>1 DEF ServerResume, Reach, StdinOpen
  <2>. QED  BY <2>1, <2>2, <2>3, <2>4, PhaseKeeps DEF ServerResume
<1>. QED  BY <1>1, <1>2

(***************************************************************************)
(* The worker that reads stdout                                            *)
(***************************************************************************)

\* What there is to read is of a turn in flight, that nobody claims.
LEMMA ReadFacts ==
    ASSUME Core, stdout # <<>>
    PROVE  /\ Open /\ ~ Claimed /\ turn.kind # "idle" /\ last \in Turns
           /\ Head(stdout) = stdout[1] /\ stdout[1] \in Notifications /\ stdout[1].n = last
           /\ phase[last] # "asked"
           /\ stdout[1].what \in Endings => InFlight = {} /\ Tail(stdout) = <<>>
           /\ Tail(stdout) \in Seq(Notifications)
           /\ \A k \in 1 .. Len(Tail(stdout)) :
                 /\ Tail(stdout)[k].n = last
                 /\ Tail(stdout)[k].what \in Endings => InFlight = {} /\ k = Len(Tail(stdout))
           /\ \A c \in Callers : ~ Claims(c) /\ ~ Marked(c)
<1>1. stdout \in Seq(Notifications)
  BY DEF Core, Shape
<1>2. ~ Quiescent
  BY DEF Quiescent
<1>3. Open /\ ~ Claimed /\ turn.kind # "idle" /\ last \in Turns
  BY <1>2 DEF Core, Flow, OneClaim, Open
<1>4. /\ 1 \in 1 .. Len(stdout) /\ Head(stdout) = stdout[1] /\ stdout[1] \in Notifications
      /\ Tail(stdout) \in Seq(Notifications) /\ Len(Tail(stdout)) = Len(stdout) - 1
      /\ Len(stdout) \in Nat
      /\ \A k \in 1 .. Len(Tail(stdout)) : Tail(stdout)[k] = stdout[k + 1] /\ k + 1 \in 1 .. Len(stdout)
  BY <1>1
<1>5. \A k \in 1 .. Len(stdout) :
         /\ stdout[k].n = last
         /\ phase[last] # "asked"
         /\ stdout[k].what \in Endings => InFlight = {} /\ k = Len(stdout)
  BY DEF Core, Flow, Said
<1>6. stdout[1].what \in Endings => InFlight = {} /\ Tail(stdout) = <<>>
  <2>1. ASSUME stdout[1].what \in Endings PROVE InFlight = {} /\ Len(stdout) = 1
    BY <1>4, <1>5, <2>1
  <2>2. Len(stdout) = 1 => Tail(stdout) = <<>>
    BY <1>4
  <2>. QED  BY <2>1, <2>2
<1>7. ASSUME NEW k \in 1 .. Len(Tail(stdout))
      PROVE  /\ Tail(stdout)[k].n = last
             /\ Tail(stdout)[k].what \in Endings => InFlight = {} /\ k = Len(Tail(stdout))
  <2>1. k + 1 \in 1 .. Len(stdout) /\ Tail(stdout)[k] = stdout[k + 1]
    BY <1>4
  <2>2. /\ stdout[k + 1].n = last
        /\ stdout[k + 1].what \in Endings => InFlight = {} /\ k + 1 = Len(stdout)
    BY <1>5, <2>1
  <2>3. Len(Tail(stdout)) = Len(stdout) - 1 /\ Len(stdout) \in Nat
    BY <1>4
  <2>. DEFINE l == Len(Tail(stdout))
  <2>4. k \in 1 .. l /\ l = Len(stdout) - 1 /\ Len(stdout) \in Nat
    BY <2>3
  <2>. HIDE DEF l
  <2>5. k + 1 = Len(stdout) => k = l
    BY <2>4
  <2>. QED  BY <2>1, <2>2, <2>5 DEF l
<1>8. ASSUME NEW c \in Callers PROVE ~ Claims(c) /\ ~ Marked(c)
  BY <1>3 DEF Claimed, Claims, Marked, Core, Layered, Requests
<1>. QED  BY <1>3, <1>4, <1>5, <1>6, <1>7, <1>8

LEMMA ReaderTakeKeeps ==
    ASSUME Core, ReaderTake
    PROVE  Core'
<1>. USE DEF ReaderTake
<1>. DEFINE m == Head(stdout)
<1>1. /\ Open /\ ~ Claimed /\ turn.kind # "idle" /\ last \in Turns
      /\ m = stdout[1] /\ m \in Notifications /\ m.n = last
      /\ phase[last] # "asked"
      /\ m.what \in Endings => InFlight = {} /\ Tail(stdout) = <<>>
      /\ Tail(stdout) \in Seq(Notifications)
      /\ \A k \in 1 .. Len(Tail(stdout)) :
            /\ Tail(stdout)[k].n = last
            /\ Tail(stdout)[k].what \in Endings => InFlight = {} /\ k = Len(Tail(stdout))
      /\ \A c \in Callers : ~ Claims(c) /\ ~ Marked(c)
  BY ReadFacts
<1>2. /\ rd.pc = "read" /\ rd'.pc = "capture" /\ rd'.note = m /\ rd'.kind = "none"
      /\ stdout # <<>> /\ stdout' = Tail(stdout) /\ m.what # "ask" /\ turn' = TurnAfter(m)
  OBVIOUS
<1>. HIDE DEF m
<1>3. /\ turn' \in [kind : {"idle", "unknown", "known"}, id : Turns \cup {None}]
      /\ IF m.what \in Endings THEN turn'.kind = "idle" ELSE turn'.kind # "idle"
  BY <1>1, <1>2 DEF TurnAfter, Core, Shape, Endings
<1>4. rd' \in [pc : {"read", "capture", "act", "dead"}, note : Notifications \cup {NoNote},
               kind : {"none", "notice", "keepalive"}]
  BY <1>1 DEF m
<1>5. Shape'
  BY <1>1, <1>2, <1>3, <1>4 DEF Core, Shape
<1>6. /\ \A c \in Callers : ~ Claims(c)' /\ ~ Marked(c)'
      /\ ~ Claimed' /\ Handles' /\ ~ Handles /\ InFlight' = InFlight
      /\ IF m.what \in Endings THEN Ending' /\ ~ Within' /\ ~ Open' /\ Quiescent'
         ELSE ~ Ending' /\ Within' /\ Open'
  BY <1>1, <1>2, <1>3 DEF Claims, Claimed, Marked, Handles, Ending, Within, Open, InFlight, Quiescent
<1>7. Numbered'
  BY DEF Core, Flow, Numbered
<1>8. OneClaim'
  BY <1>1, <1>3, <1>6 DEF OneClaim
<1>9. Said'
  BY <1>1, <1>2, <1>6 DEF Said
<1>10. Held'
  BY <1>1, <1>2, <1>6 DEF Held, Turns
<1>11. /\ \A k : Fits(k)' = Fits(k) /\ Sound(k)' = Sound(k)
       /\ ~ Ending /\ ~ Within
  BY <1>6 DEF Fits, Sound, Ending, Within
<1>12. Rested' /\ Captured'
  BY <1>2, <1>6 DEF Rested, Captured
<1>13. Current'
  BY <1>1, <1>11 DEF Core, Layered, Current
<1>14. AtEnd'
  <2>1. SUFFICES ASSUME Ending', Sound(kindOf[last])
                 PROVE  /\ Fits(kindOf[last])
                        /\ kindOf[last] = "notice" => notice.state # "pending"
    BY <1>1, <1>2, <1>11 DEF AtEnd
  <2>2. m.what \in Endings
    BY <1>6, <2>1
  <2>3. Fits(kindOf[last])
    BY <1>1, <1>11, <2>1 DEF Core, Layered, Current
  <2>4. kindOf[last] = "notice" /\ notice.state = "pending" => StartAhead
    BY <1>1, <1>2, <1>11, <2>1 DEF Core, Layered, StartFirst, Begun, Sound
  <2>5. ~ StartAhead
    <3>1. stdout[1].what # "started" /\ ~ Handles
      BY <1>1, <1>6, <2>2 DEF Endings
    <3>. QED  BY <3>1 DEF StartAhead
  <2>. QED  BY <2>3, <2>4, <2>5
<1>15. Alone'
  BY <1>3, <1>6 DEF Alone
<1>16. StartFirst'
  <2>1. Begun /\ (StartAhead => m.what = "started")
    BY <1>1, <1>2, <1>6 DEF Begun, StartAhead
  <2>2. m.what = "started" => StartAhead'
    BY <1>2, <1>6 DEF StartAhead
  <2>. QED  BY <1>1, <1>11, <2>1, <2>2 DEF Core, Layered, StartFirst
<1>17. ASSUME NEW c \in Callers PROVE Requests(c)'
  BY <1>6 DEF Core, Layered, Requests, Claims, Marked
<1>. QED  BY <1>5, <1>7, <1>8, <1>9, <1>10, <1>12, <1>13, <1>14, <1>15, <1>16, <1>17
          DEF Core, Flow, Layered

LEMMA ReaderAskKeeps ==
    ASSUME Core, ReaderAsk
    PROVE  Core'
<1>. DEFINE m == Head(stdout)
<1>1. /\ rd.pc = "read" /\ stdout # <<>> /\ m.what = "ask" /\ stdout' = Tail(stdout)
      /\ notice' \in {notice, [notice EXCEPT !.reported = TRUE]}
      /\ UNCHANGED <<turn, call, rd, stop, alive, phase, last, kindOf, torn>>
  BY DEF ReaderAsk, Report
<1>2. /\ Open /\ ~ Claimed /\ turn.kind # "idle" /\ last \in Turns
      /\ m = stdout[1] /\ m \in Notifications /\ m.n = last
      /\ phase[last] # "asked"
      /\ Tail(stdout) \in Seq(Notifications)
      /\ \A k \in 1 .. Len(Tail(stdout)) :
            /\ Tail(stdout)[k].n = last
            /\ Tail(stdout)[k].what \in Endings => InFlight = {} /\ k = Len(Tail(stdout))
      /\ \A c \in Callers : ~ Claims(c) /\ ~ Marked(c)
  BY <1>1, ReadFacts
<1>. HIDE DEF m
<1>3. /\ notice' \in [state : NoticeStates, kind : {"none", "notice", "keepalive"},
                      reported : BOOLEAN]
      /\ notice'.state = notice.state /\ notice'.kind = notice.kind
  BY <1>1 DEF Core, Shape
<1>4. Shape'
  BY <1>1, <1>2, <1>3 DEF Core, Shape
<1>5. /\ \A c \in Callers : ~ Claims(c)' /\ ~ Marked(c)'
      /\ ~ Claimed' /\ ~ Handles' /\ ~ Handles /\ InFlight' = InFlight /\ Open'
      /\ ~ Ending' /\ ~ Within' /\ ~ Ending /\ ~ Within
  BY <1>1, <1>2 DEF Claims, Claimed, Marked, Handles, Ending, Within, Open, InFlight
<1>6. Numbered'
  BY <1>1 DEF Core, Flow, Numbered
<1>7. OneClaim'
  BY <1>1, <1>2, <1>5 DEF OneClaim
<1>8. Said'
  BY <1>1, <1>2, <1>5 DEF Said
<1>9. Held'
  BY <1>5 DEF Held
<1>10. \A k : Fits(k)' = Fits(k) /\ Sound(k)' = Sound(k)
  BY <1>1, <1>3 DEF Fits, Sound
<1>11. Rested' /\ Captured' /\ AtEnd' /\ Alone'
  BY <1>1, <1>5 DEF Rested, Captured, AtEnd, Alone
<1>12. Current'
  BY <1>1, <1>2, <1>5, <1>10 DEF Core, Layered, Current
<1>13. StartFirst'
  <2>1. Begun /\ ~ StartAhead
    BY <1>1, <1>2, <1>5 DEF Begun, StartAhead
  <2>. QED  BY <1>1, <1>2, <1>3, <1>5, <2>1 DEF Core, Layered, StartFirst
<1>14. ASSUME NEW c \in Callers PROVE Requests(c)'
  BY <1>1, <1>5 DEF Core, Layered, Requests, Claims, Marked
<1>. QED  BY <1>4, <1>6, <1>7, <1>8, <1>9, <1>11, <1>12, <1>13, <1>14 DEF Core, Flow, Layered

\* A notification is handled: the end of a turn leaves no notice, and what
\* comes before leaves the notice of the turn.
LEMMA HandledKeeps ==
    ASSUME Core, Handles,
           rd' \in {ToRead, ToDead},
           notice' \in [state : NoticeStates, kind : {"none", "notice", "keepalive"},
                        reported : BOOLEAN],
           Ending => notice'.state = "idle",
           Within /\ Sound(kindOf[last]) => Fits(kindOf[last])',
           Within /\ ~ torn /\ kindOf[last] = "notice" => notice'.state # "pending",
           UNCHANGED <<turn, call, stop, alive, phase, stdout, last, kindOf, torn>>
    PROVE  Core'
<1>1. rd'.pc \in {"read", "dead"} /\ rd'.note = NoNote /\ rd'.kind = "none"
  BY DEF ToRead, ToDead
<1>2. Shape'
  <2>1. rd' \in [pc : {"read", "capture", "act", "dead"}, note : Notifications \cup {NoNote},
                 kind : {"none", "notice", "keepalive"}]
    BY DEF ToRead, ToDead
  <2>. QED  BY <2>1 DEF Core, Shape
<1>3. /\ ~ Handles' /\ ~ Ending' /\ ~ Within' /\ Claimed' = Claimed /\ Open' = Open
      /\ InFlight' = InFlight /\ Quiescent' = Quiescent
      /\ StdinOpen' = StdinOpen
      /\ \A c \in Callers : Claims(c)' = Claims(c) /\ Marked(c)' = Marked(c)
  BY <1>1 DEF Handles, Ending, Within, Claimed, Claims, Marked, Open, InFlight, Quiescent, StdinOpen
<1>4. Ending \/ Within
  BY DEF Ending, Within
<1>5. Flow'
  BY <1>3 DEF Core, Flow, Numbered, OneClaim, Said, Held
<1>6. Captured' /\ AtEnd' /\ Alone'
  BY <1>1, <1>3 DEF Captured, AtEnd, Alone
<1>7. Within => Open
  BY DEF Core, Flow, Held
<1>8. Rested'
  BY <1>3, <1>4, <1>7 DEF Rested
<1>9. Current'
  <2>1. SUFFICES ASSUME Open, Ending, Sound(kindOf[last]) PROVE Fits(kindOf[last])'
    BY <1>3, <1>4 DEF Current, Sound
  <2>2. kindOf[last] = "turn"
    BY <2>1 DEF Core, Layered, Alone, Sound
  <2>. QED  BY <2>1, <2>2 DEF Fits
<1>10. StartFirst'
  BY <1>4 DEF StartFirst
<1>11. ASSUME NEW c \in Callers PROVE Requests(c)'
  <2>1. CASE Ending
    BY <1>3, <2>1 DEF Core, Layered, Requests, Marked, Claims, Sound
  <2>2. CASE Within
    BY <1>3, <1>7, <2>2 DEF Core, Layered, Requests, Claims, Claimed, Open
  <2>. QED  BY <1>4, <2>1, <2>2
<1>. QED  BY <1>2, <1>5, <1>6, <1>8, <1>9, <1>10, <1>11 DEF Core, Layered

\* What the notice is when the worker turns to a notification.
LEMMA HandlesFacts ==
    ASSUME Core, Handles
    PROVE  /\ rd.note \in Notifications /\ rd.note.n \in Turns /\ rd.note.n <= last
           /\ rd.note.what \in Content \cup Endings \cup {"started"}
           /\ kindOf[rd.note.n] \in Kinds
           /\ Within => rd.note.n = last /\ Open
           /\ Ending \/ Within
           /\ Sound(kindOf[rd.note.n]) => Fits(kindOf[rd.note.n])
           /\ rd.pc = "act" /\ Sound(kindOf[rd.note.n]) => rd.kind = kindOf[rd.note.n]
<1>1. /\ rd.note \in Notifications /\ rd.note.n <= last
      /\ rd.note.what # "ask"
      /\ Within => rd.note.n = last /\ Open
  BY DEF Core, Flow, Held
<1>2. rd.note.n \in Turns /\ rd.note.what \in Content \cup Endings \cup {"started"}
  BY <1>1 DEF Notifications
<1>3. kindOf[rd.note.n] \in Kinds
  <2>1. ~ (rd.note.n > last)
    BY <1>1, <1>2 DEF Core, Shape, Turns
  <2>2. kindOf[rd.note.n] # "none"
    BY <1>2, <2>1 DEF Core, Flow, Numbered
  <2>. QED  BY <1>2, <2>2 DEF Core, Shape
<1>4. (Ending \/ Within) /\ ~ (Ending /\ Within)
  BY DEF Ending, Within
<1>5. Sound(kindOf[rd.note.n]) => Fits(kindOf[rd.note.n])
  <2>1. CASE Ending
    BY <2>1 DEF Core, Layered, AtEnd
  <2>2. CASE Within
    BY <1>1, <1>4, <2>2 DEF Core, Layered, Current
  <2>. QED  BY <1>4, <2>1, <2>2
<1>. QED  BY <1>1, <1>2, <1>3, <1>4, <1>5 DEF Core, Layered, Captured

LEMMA EmitEnds ==
    ASSUME NEW msgs, NEW next, Emit(msgs, next)
    PROVE  rd' \in {next, ToDead}
BY DEF Emit

LEMMA DeliverEnds ==
    ASSUME NEW note, Deliver(note), note.what \in Content \cup Endings \cup {"started"}
    PROVE  rd' \in {ToRead, ToDead}
<1>1. CASE note.what = "started"
  BY <1>1, EmitEnds DEF Deliver
<1>2. CASE note.what \in {"text", "brace"}
  <2>1. Emit(Msg("output", note.n), ToRead)
    BY <1>2 DEF Deliver
  <2>. QED  BY <2>1, EmitEnds
<1>3. CASE note.what \in {"reason", "tool"}
  <2>1. Emit(Msg("item", note.n), ToRead)
    BY <1>3 DEF Deliver
  <2>. QED  BY <2>1, EmitEnds
<1>4. CASE note.what = "completed"
  BY <1>4, EmitEnds DEF Deliver
<1>5. CASE note.what = "failed"
  BY <1>5, EmitEnds DEF Deliver
<1>. QED  BY <1>1, <1>2, <1>3, <1>4, <1>5 DEF Content, Endings

LEMMA CaptureKeeps ==
    ASSUME Core, ReaderCapture
    PROVE  Core'
<1>1. /\ rd.pc = "capture" /\ Handles
      /\ UNCHANGED <<turn, notice, call, stop, alive, phase, stdout, last, kindOf, torn>>
  BY DEF ReaderCapture, Handles
<1>2. CASE notice.state = "idle"
  <2>1. rd' \in {ToRead, ToDead}
    BY <1>1, <1>2, DeliverEnds, HandlesFacts DEF ReaderCapture
  <2>2. \A k : Fits(k)' = Fits(k)
    BY <1>1 DEF Fits
  <2>3. notice' \in [state : NoticeStates, kind : {"none", "notice", "keepalive"},
                     reported : BOOLEAN]
    BY <1>1 DEF Core, Shape
  <2>4. Within /\ Sound(kindOf[last]) => Fits(kindOf[last])'
    BY <1>1, <2>2, HandlesFacts
  <2>. QED  BY <1>1, <1>2, <2>1, <2>3, <2>4, HandledKeeps
<1>3. CASE notice.state # "idle"
  <2>1. rd' = [rd EXCEPT !.pc = "act", !.kind = notice.kind]
    BY <1>1, <1>3 DEF ReaderCapture
  <2>2. rd'.pc = "act" /\ rd'.note = rd.note /\ rd'.kind = notice.kind
    BY <1>1, <2>1 DEF Core, Shape
  <2>3. /\ Handles' /\ (Ending' <=> Ending) /\ (Within' <=> Within)
        /\ Claimed' = Claimed /\ Open' = Open /\ InFlight' = InFlight /\ Quiescent' = Quiescent
        /\ StdinOpen' = StdinOpen
        /\ Begun' = Begun /\ StartAhead' = StartAhead
        /\ \A c \in Callers : Claims(c)' = Claims(c) /\ Marked(c)' = Marked(c)
        /\ \A k : Fits(k)' = Fits(k) /\ Sound(k)' = Sound(k)
    BY <1>1, <2>2 DEF Handles, Ending, Within, Claimed, Claims, Marked, Open, InFlight, Quiescent,
                      StdinOpen, Begun, StartAhead, Fits, Sound
  <2>4. Shape'
    BY <1>1, <2>1 DEF Core, Shape
  <2>5. Flow'
    BY <1>1, <2>2, <2>3 DEF Core, Flow, Numbered, OneClaim, Said, Held
  <2>6. Captured'
    <3>1. Sound(kindOf[rd.note.n]) => Fits(kindOf[rd.note.n])
      BY <1>1, HandlesFacts
    <3>2. Sound(kindOf[rd.note.n]) => notice.kind = kindOf[rd.note.n]
      BY <1>3, <3>1 DEF Fits
    <3>. QED  BY <1>1, <2>2, <2>3, <3>2 DEF Captured
  <2>7. Rested' /\ Current' /\ Alone' /\ StartFirst'
    BY <1>1, <2>2, <2>3 DEF Core, Layered, Rested, Current, Alone, StartFirst
  <2>8. AtEnd'
    BY <1>1, <2>2, <2>3 DEF Core, Layered, AtEnd
  <2>9. ASSUME NEW c \in Callers PROVE Requests(c)'
    BY <1>1, <2>3 DEF Core, Layered, Requests
  <2>. QED  BY <2>4, <2>5, <2>6, <2>7, <2>8, <2>9 DEF Core, Layered
<1>. QED  BY <1>2, <1>3

\* A notice that its turn left alone, or that it brought a state further.
LEMMA ActKeeps ==
    ASSUME Core, ReaderAct
    PROVE  Core'
<1>. DEFINE Notices == [state : NoticeStates, kind : {"none", "notice", "keepalive"},
                        reported : BOOLEAN]
<1>k. PICK k : k = kindOf[rd.note.n]
  OBVIOUS
<1>1. /\ rd.pc = "act" /\ Handles
      /\ UNCHANGED <<turn, call, stop, alive, phase, stdout, last, kindOf, torn>>
      /\ rd.kind = "keepalive" => KeepaliveAct(rd.note)
      /\ rd.kind # "keepalive" => DeliveryAct(rd.note)
  BY DEF ReaderAct, Handles
<1>2. /\ Within => rd.note.n = last /\ Open
      /\ Ending \/ Within
      /\ Sound(k) => Fits(k) /\ rd.kind = k
      /\ rd.note.what \in Content \cup Endings \cup {"started"}
      /\ k \in Kinds
  BY <1>1, <1>k, HandlesFacts
<1>3. notice \in Notices
  BY DEF Core, Shape
<1>4. rd.kind \in {"none", "notice", "keepalive"}
  BY DEF Core, Shape
<1>5. rd' \in {ToRead, ToDead}
  BY <1>1, EmitEnds DEF KeepaliveAct, DeliveryAct, NoticeDelta, NoticeCompleted, NoticeFailed,
                        Deliver
<1>. HIDE DEF Notices
<1>6. CASE Ending
  <2>1. notice' \in Notices /\ notice'.state = "idle"
    <3>1. rd.note.what \in {"completed", "failed"}
      BY <1>6 DEF Ending, Endings
    <3>2. CASE rd.kind = "keepalive"
      <4>1. notice' = [state |-> "idle", kind |-> "none", reported |-> FALSE]
        BY <1>1, <3>1, <3>2 DEF KeepaliveAct, Endings
      <4>. QED  BY <4>1 DEF Notices, NoticeStates
    <3>3. CASE rd.kind # "keepalive"
      <4>1. NoticeOver
        BY <1>1, <3>1, <3>3 DEF DeliveryAct, NoticeCompleted, NoticeFailed
      <4>. QED  BY <1>3, <4>1 DEF NoticeOver, Notices, NoticeStates
    <3>. QED  BY <3>2, <3>3
  <2>2. ~ Within
    BY <1>6 DEF Ending, Within
  <2>. QED  BY <1>1, <1>5, <2>1, <2>2, HandledKeeps DEF Notices
<1>7. CASE Within
  <2>1. rd.note.what \notin Endings
    BY <1>7 DEF Within
  <2>2. notice' \in Notices /\ notice'.kind = notice.kind
    BY <1>1, <1>3, <2>1 DEF KeepaliveAct, DeliveryAct, NoticeDelta, Report, Endings, Notices,
                            NoticeStates
  <2>3. notice.state # "idle" => notice'.state # "idle"
    BY <1>1, <1>3, <2>1 DEF KeepaliveAct, DeliveryAct, NoticeDelta, Report, Endings, Notices,
                            NoticeStates
  <2>4. ~ Ending
    BY <2>1 DEF Ending
  <2>5. Sound(k) => Fits(k)'
    BY <1>2, <1>4, <2>2, <2>3 DEF Fits
  <2>6. ~ torn /\ k = "notice" => notice'.state # "pending"
    <3>1. SUFFICES ASSUME ~ torn, k = "notice" PROVE notice'.state # "pending"
      OBVIOUS
    <3>2. rd.kind = "notice" /\ DeliveryAct(rd.note) /\ notice.state # "idle"
      BY <1>1, <1>2, <3>1 DEF Sound, Fits
    <3>3. notice.state = "pending" => rd.note.what = "started"
      BY <1>1, <1>2, <1>k, <1>7, <2>4, <3>1 DEF Core, Layered, StartFirst, Begun, StartAhead
    <3>4. CASE notice.state = "pending"
      BY <1>3, <3>2, <3>3, <3>4 DEF DeliveryAct, Notices, Endings
    <3>5. CASE notice.state # "pending"
      BY <1>3, <2>1, <3>2, <3>5 DEF DeliveryAct, NoticeDelta, Notices, Endings
    <3>. QED  BY <3>4, <3>5
  <2>7. k = kindOf[last]
    BY <1>2, <1>k, <1>7
  <2>8. Within /\ Sound(kindOf[last]) => Fits(kindOf[last])'
    BY <1>1, <2>5, <2>7 DEF Fits
  <2>. QED  BY <1>1, <1>5, <2>2, <2>4, <2>6, <2>7, <2>8, HandledKeeps DEF Notices
<1>. QED  BY <1>2, <1>6, <1>7

LEMMA EOFKeeps ==
    ASSUME Core, ReaderEOF
    PROVE  Core'
<1>1. /\ rd.pc = "read" /\ rd' = ToDead
      /\ UNCHANGED <<turn, notice, call, stop, alive, phase, stdout, last, kindOf, torn>>
  BY EmitEnds DEF ReaderEOF
<1>2. rd'.pc = "dead" /\ Shape'
  BY <1>1 DEF ToDead, Core, Shape
<1>3. /\ ~ Handles' /\ ~ Handles /\ ~ Ending' /\ ~ Within' /\ ~ Ending /\ ~ Within
      /\ Claimed' = Claimed /\ Open' = Open /\ InFlight' = InFlight /\ Quiescent' = Quiescent
      /\ StdinOpen' = StdinOpen
      /\ Begun' = Begun /\ StartAhead' = StartAhead
      /\ \A c \in Callers : Claims(c)' = Claims(c) /\ Marked(c)' = Marked(c)
      /\ \A k : Fits(k)' = Fits(k) /\ Sound(k)' = Sound(k)
  BY <1>1, <1>2 DEF Handles, Ending, Within, Claimed, Claims, Marked, Open, InFlight, Quiescent,
                    StdinOpen, Begun, StartAhead, Fits, Sound
<1>4. Flow'
  BY <1>1, <1>3 DEF Core, Flow, Numbered, OneClaim, Said, Held
<1>5. Rested' /\ Current' /\ AtEnd' /\ Captured' /\ Alone' /\ StartFirst'
  BY <1>1, <1>2, <1>3 DEF Core, Layered, Rested, Current, AtEnd, Captured, Alone, StartFirst
<1>6. ASSUME NEW c \in Callers PROVE Requests(c)'
  BY <1>1, <1>3 DEF Core, Layered, Requests
<1>. QED  BY <1>2, <1>4, <1>5, <1>6 DEF Core, Layered

(***************************************************************************)
(* What is emitted                                                         *)
(***************************************************************************)

\* A message that may be emitted: it is of a turn that was requested, and it
\* says of that turn what its kind allows.
Proper(m) ==
    m.n # None =>
        /\ m.n <= last
        /\ m.what \in Kinds => torn \/ m.what = kindOf[m.n]
        /\ kindOf[m.n] = "keepalive" => m.what = "keepalive"
        /\ kindOf[m.n] = "notice" => m.what # "output" \/ torn

\* Nothing is told, shown or asked, and no turn requested.
LEMMA HushKeeps ==
    ASSUME Heard, Quiet,
           UNCHANGED <<told, last, kindOf>>,
           torn => torn',
           buf' = buf \/ (buf # <<>> /\ buf' = Tail(buf)),
           \/ UNCHANGED <<asks, asking>>
           \/ asks # <<>> /\ asking' = Head(asks) /\ asks' = Tail(asks)
           \/ asking' = None /\ UNCHANGED asks
    PROVE  Heard' /\ Quiet'
<1>1. Heard'
  BY DEF Heard, EndsInKind
<1>2. /\ buf' \in Seq(Messages)
      /\ \A k \in DOMAIN buf' : \E j \in DOMAIN buf : buf'[k] = buf[j]
  <2>1. CASE buf' = buf
    BY <2>1 DEF Quiet
  <2>2. CASE buf # <<>> /\ buf' = Tail(buf)
    <3>1. buf \in Seq(Messages)
      BY DEF Quiet
    <3>2. /\ Tail(buf) \in Seq(Messages)
          /\ \A k \in DOMAIN Tail(buf) : k + 1 \in DOMAIN buf /\ Tail(buf)[k] = buf[k + 1]
      BY <2>2, <3>1
    <3>. QED  BY <2>2, <3>2
  <2>. QED  BY <2>1, <2>2
<1>3. /\ asks' \in Seq(Turns)
      /\ \A k \in DOMAIN asks' : \E j \in DOMAIN asks : asks'[k] = asks[j]
      /\ asking' \in {asking, None} \/ \E j \in DOMAIN asks : asking' = asks[j]
  <2>1. CASE asks' = asks /\ asking' \in {asking, None}
    BY <2>1 DEF Quiet
  <2>2. CASE asks # <<>> /\ asking' = Head(asks) /\ asks' = Tail(asks)
    <3>1. asks \in Seq(Turns)
      BY DEF Quiet
    <3>2. /\ Tail(asks) \in Seq(Turns)
          /\ \A k \in DOMAIN Tail(asks) : k + 1 \in DOMAIN asks /\ Tail(asks)[k] = asks[k + 1]
          /\ 1 \in DOMAIN asks /\ Head(asks) = asks[1]
      BY <2>2, <3>1
    <3>. QED  BY <2>2, <3>2
  <2>. QED  BY <2>1, <2>2
<1>4. /\ \A k \in DOMAIN buf' : buf'[k].n <= last
      /\ \A k \in DOMAIN asks' : asks'[k] <= last
      /\ asking' <= last
  <2>1. \A k \in DOMAIN buf' : buf'[k].n <= last
    BY <1>2 DEF Quiet
  <2>2. \A k \in DOMAIN asks' : asks'[k] <= last
    BY <1>3 DEF Quiet
  <2>3. None <= last
    BY DEF Heard, None
  <2>4. asking' <= last
    BY <1>3, <2>3 DEF Quiet
  <2>. QED  BY <2>1, <2>2, <2>4
<1>5. NoticesStayQuiet'
  <2>1. ASSUME NEW n \in {asks'[k] : k \in DOMAIN asks'} \cup {asking'}, n # None
        PROVE  kindOf[n] # "keepalive"
    <3>1. n \in {asks[k] : k \in DOMAIN asks} \cup {asking, None}
      BY <1>3
    <3>. QED  BY <2>1, <3>1 DEF Quiet, NoticesStayQuiet
  <2>2. ASSUME NEW k \in DOMAIN buf', buf'[k].n # None
        PROVE  /\ kindOf[buf'[k].n] = "keepalive" => buf'[k].what = "keepalive"
               /\ kindOf[buf'[k].n] = "notice" => buf'[k].what # "output" \/ torn'
    <3>1. PICK j \in DOMAIN buf : buf'[k] = buf[j]
      BY <1>2
    <3>. QED  BY <2>2, <3>1 DEF Quiet, NoticesStayQuiet
  <2>. QED  BY <2>1, <2>2 DEF NoticesStayQuiet
<1>. QED  BY <1>1, <1>2, <1>3, <1>4, <1>5 DEF Quiet

LEMMA EmitKeeps ==
    ASSUME Heard, Quiet, NEW msgs \in Seq(Messages), NEW next, Emit(msgs, next),
           \A j \in DOMAIN msgs : Proper(msgs[j]),
           UNCHANGED <<asks, asking, last, kindOf, torn>>
    PROVE  Heard' /\ Quiet'
<1>1. PICK k \in 0 .. Len(msgs) : Sent(SubSeq(msgs, 1, k))
  BY DEF Emit
<1>. DEFINE sent == SubSeq(msgs, 1, k)
<1>2. /\ sent \in Seq(Messages)
      /\ \A j \in DOMAIN sent : j \in DOMAIN msgs /\ sent[j] = msgs[j]
  <2>1. /\ Len(sent) = k /\ \A j \in 1 .. k : sent[j] = msgs[j]
    OBVIOUS
  <2>2. sent \in Seq(Messages) /\ DOMAIN sent = 1 .. k /\ DOMAIN msgs = 1 .. Len(msgs)
    OBVIOUS
  <2>. QED  BY <2>1, <2>2
<1>3. /\ buf' = buf \o sent
      /\ told' = [n \in Turns |->
                     LET ends == {m \in Range(sent) : m.n = n /\ m.what \in Kinds} IN
                     IF ends = {} THEN told[n] ELSE (CHOOSE m \in ends : TRUE).what]
  BY <1>1 DEF Sent
<1>4. /\ \A m \in Range(sent) : m \in Messages /\ Proper(m)
      /\ \A j \in DOMAIN sent : sent[j] \in Range(sent)
  BY <1>2 DEF Range
<1>. HIDE DEF sent
<1>5. /\ buf' \in Seq(Messages)
      /\ \A j \in DOMAIN buf' : (\E i \in DOMAIN buf : buf'[j] = buf[i]) \/ buf'[j] \in Range(sent)
  <2>1. buf \in Seq(Messages)
    BY DEF Quiet
  <2>2. /\ buf' \in Seq(Messages) /\ Len(buf') = Len(buf) + Len(sent)
        /\ \A j \in 1 .. Len(buf') :
              buf'[j] = IF j <= Len(buf) THEN buf[j] ELSE sent[j - Len(buf)]
    BY <1>2, <1>3, <2>1
  <2>3. ASSUME NEW j \in DOMAIN buf'
        PROVE  (\E i \in DOMAIN buf : buf'[j] = buf[i]) \/ buf'[j] \in Range(sent)
    <3>1. j \in 1 .. Len(buf') /\ Len(buf) \in Nat /\ Len(sent) \in Nat
      BY <1>2, <2>1, <2>2
    <3>2. CASE j <= Len(buf)
      BY <2>1, <2>2, <3>1, <3>2
    <3>3. CASE ~ (j <= Len(buf))
      <4>1. j - Len(buf) \in 1 .. Len(sent) /\ DOMAIN sent = 1 .. Len(sent)
        BY <1>2, <2>2, <3>1, <3>3
      <4>2. buf'[j] = sent[j - Len(buf)]
        BY <2>2, <3>1, <3>3
      <4>. QED  BY <1>4, <4>1, <4>2
    <3>. QED  BY <3>2, <3>3
  <2>. QED  BY <2>2, <2>3
<1>6. ASSUME NEW n \in Turns
      PROVE  \/ told'[n] = told[n]
             \/ told'[n] \in Kinds /\ n <= last /\ (torn \/ told'[n] = kindOf[n])
  <2>. DEFINE ends == {m \in Range(sent) : m.n = n /\ m.what \in Kinds}
  <2>1. CASE ends = {}
    BY <1>3, <2>1
  <2>2. CASE ends # {}
    <3>1. PICK m \in ends : told'[n] = m.what
      BY <1>3, <2>2
    <3>2. Proper(m) /\ m.n = n /\ m.what \in Kinds
      BY <1>4, <3>1
    <3>3. n # None
      BY DEF None, Turns
    <3>. QED  BY <3>1, <3>2, <3>3 DEF Proper
  <2>. QED  BY <2>1, <2>2
<1>7. told' \in [Turns -> Kinds \cup {"none"}]
  <2>1. told' = [n \in Turns |-> told'[n]]
    BY <1>3
  <2>2. \A n \in Turns : told'[n] \in Kinds \cup {"none"}
    BY <1>6 DEF Heard
  <2>. QED  BY <2>1, <2>2
<1>8. Heard'
  BY <1>6, <1>7 DEF Heard, EndsInKind
<1>9. \A j \in DOMAIN buf' : buf'[j].n <= last
  <2>1. ASSUME NEW m \in Range(sent) PROVE m.n <= last
    BY <1>4 DEF Proper, None, Heard
  <2>. QED  BY <1>5, <2>1 DEF Quiet
<1>10. NoticesStayQuiet'
  BY <1>4, <1>5 DEF Quiet, NoticesStayQuiet, Proper
<1>. QED  BY <1>5, <1>8, <1>9, <1>10 DEF Quiet

LEMMA SilenceKeeps ==
    ASSUME Heard, Quiet, Emit(<<>>, ToRead), UNCHANGED <<asks, asking, last, kindOf, torn>>
    PROVE  Heard' /\ Quiet'
<1>1. <<>> \in Seq(Messages) /\ DOMAIN <<>> = {}
  OBVIOUS
<1>2. \A j \in DOMAIN <<>> : Proper(<<>>[j])
  BY <1>1
<1>. QED  BY <1>1, <1>2, EmitKeeps

\* One message for turn n.
LEMMA OneKeeps ==
    ASSUME Heard, Quiet, NEW what \in Kinds \cup {"output", "item", "relay", "relayEnd", "error"},
           NEW n \in Turns,
           Emit(Msg(what, n), ToRead) \/ Emit(Msg(what, n), ToDead),
           Proper([what |-> what, n |-> n]),
           UNCHANGED <<asks, asking, last, kindOf, torn>>
    PROVE  Heard' /\ Quiet'
<1>1. [what |-> what, n |-> n] \in Messages
  BY DEF Messages, Kinds
<1>2. Msg(what, n) \in Seq(Messages) /\ \A j \in DOMAIN Msg(what, n) : Proper(Msg(what, n)[j])
  BY <1>1 DEF Msg
<1>. QED  BY <1>2, EmitKeeps

LEMMA DeliverKeeps ==
    ASSUME Heard, Quiet, NEW note, Deliver(note), note.n \in Turns, note.n <= last,
           note.what \in Content \cup Endings \cup {"started"},
           note.what = "completed" => torn \/ kindOf[note.n] = "turn",
           note.what # "started" => kindOf[note.n] # "keepalive",
           note.what \in {"text", "brace"} => kindOf[note.n] # "notice" \/ torn,
           UNCHANGED <<asks, asking, last, kindOf, torn>>
    PROVE  Heard' /\ Quiet'
<1>1. CASE note.what = "started"
  BY <1>1, SilenceKeeps DEF Deliver
<1>2. ASSUME NEW what \in {"output", "item", "turn", "error"},
             Emit(Msg(what, note.n), ToRead) \/ Emit(Msg(what, note.n), ToDead),
             Proper([what |-> what, n |-> note.n])
      PROVE  Heard' /\ Quiet'
  BY <1>2, OneKeeps DEF Kinds
<1>3. CASE note.what \in {"text", "brace"}
  BY <1>2, <1>3 DEF Deliver, Proper, Kinds
<1>4. CASE note.what \in {"reason", "tool"}
  BY <1>2, <1>4 DEF Deliver, Proper, Kinds
<1>5. CASE note.what = "completed"
  BY <1>2, <1>5 DEF Deliver, Proper, Kinds
<1>6. CASE note.what = "failed"
  BY <1>2, <1>6 DEF Deliver, Proper, Kinds
<1>. QED  BY <1>1, <1>3, <1>4, <1>5, <1>6 DEF Content, Endings

LEMMA CaptureHush ==
    ASSUME Core, Heard, Quiet, ReaderCapture
    PROVE  Heard' /\ Quiet'
<1>. DEFINE k == kindOf[rd.note.n]
<1>1. Handles /\ UNCHANGED <<asks, asking, last, kindOf, torn>>
  BY DEF ReaderCapture, Handles
<1>2. CASE notice.state = "idle"
  <2>1. Deliver(rd.note)
    BY <1>2 DEF ReaderCapture
  <2>2. /\ rd.note.n \in Turns /\ rd.note.n <= last
        /\ rd.note.what \in Content \cup Endings \cup {"started"}
        /\ k \in Kinds
        /\ Sound(k) => Fits(k)
    BY <1>1, HandlesFacts
  <2>3. k # "keepalive" /\ (torn \/ k = "turn")
    BY <1>2, <2>2 DEF Sound, Fits, Kinds
  <2>. QED  BY <1>1, <2>1, <2>2, <2>3, DeliverKeeps
<1>3. CASE notice.state # "idle"
  BY <1>1, <1>3, HushKeeps DEF ReaderCapture
<1>. QED  BY <1>2, <1>3

LEMMA ProperJoin ==
    ASSUME NEW s \in Seq(Messages), NEW t \in Seq(Messages),
           \A j \in DOMAIN s : Proper(s[j]), \A j \in DOMAIN t : Proper(t[j])
    PROVE  /\ s \o t \in Seq(Messages)
           /\ \A j \in DOMAIN (s \o t) : Proper((s \o t)[j])
<1>1. /\ s \o t \in Seq(Messages) /\ Len(s \o t) = Len(s) + Len(t)
      /\ \A i \in 1 .. Len(s \o t) :
            (s \o t)[i] = IF i <= Len(s) THEN s[i] ELSE t[i - Len(s)]
  OBVIOUS
<1>. DEFINE u == s \o t
<1>. HIDE DEF u
<1>2. ASSUME NEW j \in DOMAIN u PROVE Proper(u[j])
  <2>1. j \in 1 .. Len(u)
    BY <1>1, <1>2 DEF u
  <2>2. CASE j <= Len(s)
    <3>1. j \in DOMAIN s /\ u[j] = s[j]
      BY <1>1, <2>1, <2>2 DEF u
    <3>. QED  BY <3>1
  <2>3. CASE ~ (j <= Len(s))
    <3>1. j - Len(s) \in DOMAIN t /\ u[j] = t[j - Len(s)]
      BY <1>1, <2>1, <2>3 DEF u
    <3>. QED  BY <3>1
  <2>. QED  BY <2>2, <2>3
<1>. QED  BY <1>1, <1>2 DEF u

LEMMA NoticeDoneKeeps ==
    ASSUME Heard, Quiet, NEW n \in Turns, n <= last,
           kindOf[n] # "keepalive", torn \/ kindOf[n] = "notice",
           \/ Emit(Msg("notice", n), ToRead)
           \/ Emit(Msg("relay", n) \o RelayAndFlush(n), ToRead)
           \/ Emit(RelayAndFlush(n), ToRead),
           UNCHANGED <<asks, asking, last, kindOf, torn>>
    PROVE  Heard' /\ Quiet'
<1>1. ASSUME NEW what \in {"relay", "relayEnd", "notice"}
      PROVE  /\ Msg(what, n) \in Seq(Messages)
             /\ \A j \in DOMAIN Msg(what, n) : Proper(Msg(what, n)[j])
  <2>1. [what |-> what, n |-> n] \in Messages /\ Proper([what |-> what, n |-> n])
    BY <1>1 DEF Messages, Kinds, Proper
  <2>. QED  BY <2>1 DEF Msg
<1>2. /\ RelayAndFlush(n) \in Seq(Messages)
      /\ \A j \in DOMAIN RelayAndFlush(n) : Proper(RelayAndFlush(n)[j])
  BY <1>1, ProperJoin DEF RelayAndFlush
<1>3. /\ Msg("relay", n) \o RelayAndFlush(n) \in Seq(Messages)
      /\ \A j \in DOMAIN (Msg("relay", n) \o RelayAndFlush(n)) :
            Proper((Msg("relay", n) \o RelayAndFlush(n))[j])
  BY <1>1, <1>2, ProperJoin
<1>4. Msg("notice", n) \in Seq(Messages) /\ \A j \in DOMAIN Msg("notice", n) : Proper(Msg("notice", n)[j])
  BY <1>1
<1>. QED  BY <1>2, <1>3, <1>4, EmitKeeps

LEMMA ActHush ==
    ASSUME Core, Heard, Quiet, ReaderAct
    PROVE  Heard' /\ Quiet'
<1>. DEFINE n == rd.note.n
            k == kindOf[n]
<1>1. /\ rd.pc = "act" /\ Handles /\ UNCHANGED <<asks, asking, last, kindOf, torn>>
      /\ rd.kind = "keepalive" => KeepaliveAct(rd.note)
      /\ rd.kind # "keepalive" => DeliveryAct(rd.note)
  BY DEF ReaderAct, Handles
<1>2. /\ n \in Turns /\ n <= last /\ k \in Kinds
      /\ rd.note.what \in Content \cup Endings \cup {"started"}
      /\ Within => n = last /\ Open
      /\ Ending \/ Within
      /\ Sound(k) => Fits(k) /\ rd.kind = k
  BY <1>1, HandlesFacts
<1>3. rd.kind \in {"none", "notice", "keepalive"} /\ notice.state \in NoticeStates
  BY DEF Core, Shape
<1>4. CASE rd.kind = "keepalive"
  <2>1. CASE Emit(<<>>, ToRead)
    BY <1>1, <2>1, SilenceKeeps
  <2>2. CASE Emit(Msg("keepalive", n), ToRead)
    <3>1. torn \/ k = "keepalive"
      BY <1>2, <1>4 DEF Sound
    <3>2. Proper([what |-> "keepalive", n |-> n])
      BY <1>2, <3>1 DEF Proper, Kinds
    <3>. QED  BY <1>1, <1>2, <2>2, <3>2, OneKeeps DEF Kinds
  <2>. QED  BY <1>1, <1>4, <2>1, <2>2 DEF KeepaliveAct
<1>5. CASE rd.kind # "keepalive"
  <2>1. DeliveryAct(rd.note)
    BY <1>1, <1>5
  <2>2. k # "keepalive" /\ (torn \/ (k = "notice" /\ notice.state # "idle"))
    BY <1>2, <1>3, <1>5 DEF Sound, Fits, Kinds
  <2>3. torn \/ notice.state # "pending" \/ rd.note.what = "started"
    <3>1. CASE Ending
      BY <1>1, <1>2, <2>2, <3>1 DEF Core, Layered, AtEnd, Sound
    <3>2. CASE Within
      <4>1. ~ Ending
        BY <3>2 DEF Ending, Within
      <4>. QED  BY <1>1, <1>2, <2>2, <3>2, <4>1 DEF Core, Layered, StartFirst, Begun, StartAhead
    <3>. QED  BY <1>2, <3>1, <3>2
  <2>4. CASE Emit(<<>>, ToRead)
    BY <1>1, <2>4, SilenceKeeps
  <2>5. CASE Emit(Msg("relay", n), ToRead)
    <3>1. Proper([what |-> "relay", n |-> n])
      BY <1>2, <2>2 DEF Proper, Kinds
    <3>. QED  BY <1>1, <1>2, <2>5, <3>1, OneKeeps
  <2>6. CASE /\ Deliver(rd.note)
             /\ rd.note.what = "tool" \/ notice.state \in {"idle", "pending"}
    <3>1. rd.note.what \in {"text", "brace", "completed"} => torn
      BY <2>2, <2>3, <2>6
    <3>. QED  BY <1>1, <1>2, <2>2, <2>6, <3>1, DeliverKeeps
  <2>7. CASE \/ Emit(Msg("notice", n), ToRead)
             \/ Emit(Msg("relay", n) \o RelayAndFlush(n), ToRead)
             \/ Emit(RelayAndFlush(n), ToRead)
    BY <1>1, <1>2, <2>2, <2>7, NoticeDoneKeeps
  <2>8. CASE rd.note.what = "started" \/ rd.note.what = "reason"
    BY <2>1, <2>4, <2>8 DEF DeliveryAct
  <2>9. CASE rd.note.what \in {"text", "brace"}
    BY <2>1, <2>4, <2>5, <2>6, <2>9 DEF DeliveryAct, NoticeDelta
  <2>10. CASE rd.note.what = "tool"
    BY <2>1, <2>6, <2>10 DEF DeliveryAct
  <2>11. CASE rd.note.what = "completed"
    BY <2>1, <2>6, <2>7, <2>11 DEF DeliveryAct, NoticeCompleted
  <2>12. CASE rd.note.what = "failed"
    BY <2>1, <2>7, <2>12 DEF DeliveryAct, NoticeFailed
  <2>. QED  BY <1>2, <2>8, <2>9, <2>10, <2>11, <2>12 DEF Content, Endings
<1>. QED  BY <1>4, <1>5

\* Only the worker that reads stdout emits messages and only a write requests
\* a turn.
LEMMA WriteHush ==
    ASSUME Core, Heard, Quiet, NEW c \in Callers, Write(c)
    PROVE  Heard' /\ Quiet'
<1>1. /\ last \in Nat /\ last' = last + 1 /\ kindOf' = [kindOf EXCEPT ![last + 1] = call[c].op]
      /\ UNCHANGED <<told, buf, asks, asking, torn>>
  BY DEF Heard, Write
<1>2. \A n \in Turns : n <= last => kindOf'[n] = kindOf[n]
  BY <1>1 DEF Core, Shape, Turns
<1>3. \A n \in Turns : told[n] # "none" => n <= last
  BY DEF Heard
<1>4. Heard'
  BY <1>1, <1>2 DEF Heard, EndsInKind, Turns
<1>5. /\ \A k \in DOMAIN buf' : buf'[k].n <= last'
      /\ \A k \in DOMAIN asks' : asks'[k] <= last'
      /\ asking' <= last'
  <2>1. ASSUME NEW k \in DOMAIN buf PROVE buf[k].n \in Nat /\ buf[k].n <= last
    <3>1. buf[k] \in Messages /\ buf[k].n <= last
      BY DEF Quiet
    <3>2. buf[k].n \in Turns \cup {None}
      BY <3>1 DEF Messages
    <3>. QED  BY <3>1, <3>2 DEF Turns, None
  <2>2. ASSUME NEW k \in DOMAIN asks PROVE asks[k] \in Nat /\ asks[k] <= last
    <3>1. asks[k] \in Turns /\ asks[k] <= last
      BY DEF Quiet
    <3>. QED  BY <3>1 DEF Turns
  <2>3. asking <= last'
    BY <1>1 DEF Quiet, Turns, None
  <2>. QED  BY <1>1, <2>1, <2>2, <2>3
<1>. QED  BY <1>1, <1>2, <1>4, <1>5 DEF Quiet, NoticesStayQuiet, Messages, Turns, None

LEMMA ReaderAskHush ==
    ASSUME Core, Heard, Quiet, ReaderAsk
    PROVE  Heard' /\ Quiet'
<1>. DEFINE n == Head(stdout).n
<1>1. rd.pc = "read" /\ stdout # <<>> /\ UNCHANGED <<told, buf, last, kindOf, torn, asking>>
  BY DEF ReaderAsk, Report
<1>2. CASE asks' = asks
  BY <1>1, <1>2, HushKeeps
<1>3. CASE asks' = Append(asks, n) /\ notice.kind # "keepalive"
  <2>1. Open /\ ~ Ending /\ n = last /\ last \in Turns
    BY <1>1, ReadFacts DEF Ending, Handles
  <2>2. kindOf[last] # "keepalive"
    BY <1>3, <2>1 DEF Core, Layered, Current, Sound, Fits
  <2>3. /\ asks' \in Seq(Turns)
        /\ \A k \in DOMAIN asks' : asks'[k] = last \/ \E j \in DOMAIN asks : asks'[k] = asks[j]
    <3>1. asks \in Seq(Turns)
      BY DEF Quiet
    <3>. QED  BY <1>3, <2>1, <3>1
  <2>4. \A k \in DOMAIN asks' : asks'[k] <= last
    BY <2>3 DEF Quiet, Heard
  <2>5. NoticesStayQuiet'
    BY <1>1, <2>2, <2>3 DEF Quiet, NoticesStayQuiet
  <2>6. Heard'
    BY <1>1 DEF Heard, EndsInKind
  <2>. QED  BY <1>1, <2>3, <2>4, <2>5, <2>6 DEF Quiet
<1>. QED  BY <1>2, <1>3 DEF ReaderAsk

LEMMA EOFHush ==
    ASSUME Heard, Quiet, ReaderEOF
    PROVE  Heard' /\ Quiet'
<1>1. Emit(Msg("error", None), ToDead) /\ UNCHANGED <<asks, asking, last, kindOf, torn>>
  BY DEF ReaderEOF
<1>2. [what |-> "error", n |-> None] \in Messages /\ Proper([what |-> "error", n |-> None])
  BY DEF Messages, Proper
<1>3. /\ Msg("error", None) \in Seq(Messages)
      /\ \A j \in DOMAIN Msg("error", None) : Proper(Msg("error", None)[j])
  BY <1>2 DEF Msg
<1>. QED  BY <1>1, <1>3, EmitKeeps

(***************************************************************************)
(* Every step                                                              *)
(***************************************************************************)

LEMMA Starts ==
    ASSUME Init
    PROVE  IInv
<1>. USE DEF Init
<1>1. Shape
  <2>1. /\ turn \in [kind : {"idle", "unknown", "known"}, id : Turns \cup {None}]
        /\ notice \in [state : NoticeStates, kind : {"none", "notice", "keepalive"},
                       reported : BOOLEAN]
    BY DEF NoticeStates
  <2>2. call \in [Callers -> [pc : CallPCs, op : Kinds, n : Turns \cup {None}]]
    BY DEF NoCall, CallPCs, Kinds
  <2>3. /\ rd \in [pc : {"read", "capture", "act", "dead"}, note : Notifications \cup {NoNote},
                   kind : {"none", "notice", "keepalive"}]
        /\ phase \in [Turns -> {"none", "done"} \cup Active]
        /\ stdout \in Seq(Notifications)
        /\ kindOf \in [Turns -> Kinds \cup {"none"}]
    OBVIOUS
  <2>4. last \in 0 .. MaxTurns
    BY CodexAssumption
  <2>. QED  BY <2>1, <2>2, <2>3, <2>4 DEF Shape
<1>2. /\ ~ Claimed /\ ~ Open /\ ~ Handles /\ ~ Ending /\ ~ Within
      /\ \A c \in Callers : call[c].pc = "idle" /\ ~ Claims(c) /\ ~ Marked(c)
  BY DEF Claimed, Claims, Open, Handles, Ending, Within, Marked, NoCall
<1>3. Quiescent
  BY DEF Quiescent, InFlight, Active
<1>4. Numbered
  BY DEF Numbered, Turns
<1>5. OneClaim /\ Said /\ Held
  BY <1>2, <1>3 DEF OneClaim, Said, Held
<1>6. Layered
  BY <1>2 DEF Layered, Rested, Current, AtEnd, Captured, Alone, StartFirst, Requests
<1>7. Heard
  BY DEF Heard, EndsInKind
<1>8. Quiet
  <2>1. buf \in Seq(Messages) /\ asks \in Seq(Turns) /\ DOMAIN buf = {} /\ DOMAIN asks = {}
    OBVIOUS
  <2>. QED  BY <2>1 DEF Quiet, NoticesStayQuiet, None
<1>. QED  BY <1>1, <1>4, <1>5, <1>6, <1>7, <1>8 DEF IInv, Core, Flow

LEMMA CoreStep ==
    ASSUME Core, [Next]_vars
    PROVE  Core'
<1>1. CASE UserCall
  <2>1. ASSUME NEW op \in {"turn", "notice"}, Begin("exec", op) PROVE Core'
    BY <2>1, BeginKeeps DEF Callers, Kinds
  <2>2. CASE Begin("keeper", "keepalive")
    BY <2>2, BeginKeeps DEF Callers, Kinds
  <2>3. CASE Interrupt
    BY <2>3, SettledStep DEF Interrupt, Cut, StdinOpen
  <2>. QED  BY <1>1, <2>1, <2>2, <2>3 DEF UserCall
<1>2. ASSUME NEW c \in Callers, CallStep(c) PROVE Core'
  BY <1>2, MarkKeeps, WriteKeeps, WriteFailsKeeps, UndoTurnKeeps, UndoNoticeKeeps DEF CallStep
<1>3. CASE ServerStep \/ \E n \in Turns : ServerContent(n) \/ ServerAsk(n)
  BY <1>3, ServerKeeps, ServerRestKeeps DEF ServerStep
<1>4. CASE ServerExit
  BY <1>4, ServerRestKeeps
<1>5. CASE ReaderStep
  BY <1>5, ReaderTakeKeeps, ReaderAskKeeps, CaptureKeeps, ActKeeps, EOFKeeps DEF ReaderStep
<1>6. CASE BufferStop \/ BufferDrain \/ Read \/ ReadClosed
  BY <1>6, SettledStep DEF BufferStop, BufferDrain, Read, ReadClosed, StdinOpen
<1>7. CASE ApprovalTake \/ Decide \/ ApprovalStop
  BY <1>7, SettledStep DEF ApprovalTake, Decide, ApprovalStop, StdinOpen
<1>8. CASE StopCancel \/ StopStep
  BY <1>8, SettledStep DEF StopCancel, StopStep, StopStdin, StopReturn, CloseMessages, StopGo,
                           StdinOpen
<1>9. CASE UNCHANGED vars
  BY <1>9, SettledStep DEF vars, StdinOpen
<1>. QED  BY <1>1, <1>2, <1>3, <1>4, <1>5, <1>6, <1>7, <1>8, <1>9 DEF Next

LEMMA HushStep ==
    ASSUME Core, Heard, Quiet, [Next]_vars
    PROVE  Heard' /\ Quiet'
<1>1. CASE UNCHANGED <<told, last, kindOf, buf, asks, asking, torn>>
  BY <1>1, HushKeeps
<1>2. CASE UserCall
  BY <1>1, <1>2 DEF UserCall, Begin, Interrupt
<1>3. ASSUME NEW c \in Callers, CallStep(c) PROVE Heard' /\ Quiet'
  <2>1. CASE Mark(c)
    BY <2>1, HushKeeps DEF Mark
  <2>2. CASE Write(c)
    BY <2>2, WriteHush
  <2>3. CASE WriteFails(c) \/ UndoTurn(c) \/ UndoNotice(c)
    BY <1>1, <2>3 DEF WriteFails, UndoTurn, UndoNotice
  <2>. QED  BY <1>3, <2>1, <2>2, <2>3 DEF CallStep
<1>4. CASE ServerStep \/ (\E n \in Turns : ServerContent(n) \/ ServerAsk(n)) \/ ServerExit
  BY <1>1, <1>4 DEF ServerStep, ServerStart, ServerResume, ServerEnd, ServerContent, ServerAsk,
                    ServerExit
<1>5. CASE ReaderStep
  <2>1. CASE ReaderTake
    BY <1>1, <2>1 DEF ReaderTake
  <2>. QED  BY <1>5, <2>1, ReaderAskHush, CaptureHush, ActHush, EOFHush DEF ReaderStep
<1>6. CASE BufferDrain \/ Read
  BY <1>6, HushKeeps DEF BufferDrain, Read
<1>7. CASE ApprovalTake \/ Decide
  BY <1>7, HushKeeps DEF ApprovalTake, Decide
<1>8. CASE BufferStop \/ ReadClosed \/ ApprovalStop \/ StopCancel \/ StopStep
  BY <1>1, <1>8 DEF BufferStop, ReadClosed, ApprovalStop, StopCancel, StopStep, StopStdin,
                    StopReturn, CloseMessages
<1>9. CASE UNCHANGED vars
  BY <1>1, <1>9 DEF vars
<1>. QED  BY <1>2, <1>3, <1>4, <1>5, <1>6, <1>7, <1>8, <1>9 DEF Next

\* The invariant holds of every behaviour.
THEOREM Invariance == Spec => []IInv
<1>1. Init => IInv
  BY Starts
<1>2. IInv /\ [Next]_vars => IInv'
  BY CoreStep, HushStep DEF IInv
<1>. QED  BY <1>1, <1>2, PTL DEF Spec

(***************************************************************************)
(* The theorems                                                            *)
(***************************************************************************)

\* One turn at a time: a request is written only to a process without a turn,
\* and the adapter counts the turn as idle only when none is in flight (Send,
\* startNoticeTurn, updateTurnState, readCodexOutWorker).
THEOREM TurnsAreSingle == Spec => []OneTurnAtATime
<1>1. ASSUME IInv PROVE OneTurnAtATime
  <2>1. InFlight \subseteq {last}
    <3>1. ASSUME NEW n \in InFlight PROVE n = last
      BY <1>1, FlightFacts DEF IInv, InFlight
    <3>. QED  BY <3>1
  <2>2. Cardinality(InFlight) <= 1
    <3>1. InFlight = {} \/ InFlight = {last}
      BY <2>1
    <3>. QED  BY <3>1, FS_EmptySet, FS_Singleton
  <2>3. \A c \in Callers : call[c].pc = "write" => InFlight = {}
    BY <1>1, ClaimFacts DEF IInv, Claims, Quiescent
  <2>4. turn.kind = "idle" => InFlight = {}
    BY <1>1, IdleFacts DEF IInv, Quiescent
  <2>. QED  BY <2>2, <2>3, <2>4 DEF OneTurnAtATime
<1>2. IInv => OneTurnAtATime
  BY <1>1
<1>. QED  BY Invariance, <1>2, PTL

\* Every turn ends with the message of its own kind, unless a notice was marked
\* while the end of a turn was handled (interceptNotice, messageFromEnvelope).
THEOREM TurnsEndInKind == Spec => []EndsInKind
<1>1. IInv => EndsInKind
  BY DEF IInv, Heard
<1>. QED  BY Invariance, <1>1, PTL

\* Maintenance says nothing and asks for nothing, and the answer to a notice
\* is not shown as output, but for the same exception (interceptNotice,
\* isKeepaliveTurn).
THEOREM MaintenanceIsSilent == Spec => []NoticesStayQuiet
<1>1. IInv => NoticesStayQuiet
  BY DEF IInv, Quiet
<1>. QED  BY Invariance, <1>1, PTL

(***************************************************************************)
(* Types                                                                   *)
(***************************************************************************)

\* What the other theorems do not need of the types.
Rest ==
    /\ bufw \in {"run", "drain", "gone"}
    /\ {reading, closedMessages, alive, relayed, torn} \subseteq BOOLEAN
    /\ apl \in {"run", "gone"}
    /\ stop \in {"no", "cancelled", "waiting", "returned"}
    /\ items \in 0 .. MaxItems
    /\ answered \subseteq Turns
    /\ cut \subseteq Turns
    /\ turn.kind = "known" => turn.id \in Turns

LEMMA EmitTypes ==
    ASSUME Rest, NEW msgs, NEW next, Emit(msgs, next)
    PROVE  relayed' \in BOOLEAN
BY DEF Emit, Sent, Rest

LEMMA DeliverTypes ==
    ASSUME Rest, NEW note, Deliver(note), note.what \in Content \cup Endings \cup {"started"}
    PROVE  relayed' \in BOOLEAN
<1>1. CASE note.what = "started"
  BY <1>1, EmitTypes DEF Deliver
<1>2. CASE note.what \in {"text", "brace"}
  <2>1. Emit(Msg("output", note.n), ToRead)
    BY <1>2 DEF Deliver
  <2>. QED  BY <2>1, EmitTypes
<1>3. CASE note.what \in {"reason", "tool"}
  <2>1. Emit(Msg("item", note.n), ToRead)
    BY <1>3 DEF Deliver
  <2>. QED  BY <2>1, EmitTypes
<1>4. CASE note.what = "completed"
  BY <1>4, EmitTypes DEF Deliver
<1>5. CASE note.what = "failed"
  BY <1>5, EmitTypes DEF Deliver
<1>. QED  BY <1>1, <1>2, <1>3, <1>4, <1>5 DEF Content, Endings

LEMMA RestStep ==
    ASSUME Core, Quiet, Rest, [Next]_vars
    PROVE  Rest'
<1>1. CASE UserCall
  BY <1>1 DEF Rest, UserCall, Begin, Interrupt, Cut
<1>2. ASSUME NEW c \in Callers, CallStep(c) PROVE Rest'
  <2>1. CASE Mark(c)
    <3>1. torn' = (torn \/ HandlesEnding)
      BY <2>1 DEF Mark
    <3>2. torn' \in BOOLEAN
      BY <3>1, Zenon
    <3>. QED  BY <2>1, <3>2 DEF Rest, Mark
  <2>. QED  BY <1>2, <2>1 DEF Rest, CallStep, Write, WriteFails, UndoTurn, UndoNotice
<1>3. CASE ServerStep
  BY <1>3 DEF Rest, ServerStep, ServerStart, ServerResume, ServerEnd, Reach
<1>4. CASE \E n \in Turns : ServerContent(n) \/ ServerAsk(n)
  <2>1. items' \in 0 .. MaxItems
    BY <1>4, CodexAssumption DEF Rest, ServerContent, ServerAsk
  <2>. QED  BY <1>4, <2>1 DEF Rest, ServerContent, ServerAsk, Reach
<1>5. CASE ServerExit
  BY <1>5 DEF Rest, ServerExit
<1>6. CASE ReaderTake
  <2>1. Head(stdout).n \in Turns
    BY <1>6, ReadFacts DEF ReaderTake
  <2>2. turn'.kind = "known" => turn'.id \in Turns
    BY <1>6, <2>1 DEF Rest, ReaderTake, TurnAfter
  <2>. QED  BY <1>6, <2>2 DEF Rest, ReaderTake
<1>7. CASE ReaderAsk
  <2>1. Head(stdout).n \in Turns
    BY <1>7, ReadFacts DEF ReaderAsk
  <2>. QED  BY <1>7, <2>1 DEF Rest, ReaderAsk, Report, Cut, Answer
<1>8. CASE ReaderCapture
  <2>1. relayed' \in BOOLEAN
    BY <1>8, DeliverTypes, HandlesFacts DEF Rest, ReaderCapture, Handles
  <2>. QED  BY <1>8, <2>1 DEF Rest, ReaderCapture
<1>9. CASE ReaderAct
  <2>1. rd.note.what \in Content \cup Endings \cup {"started"}
    BY <1>9, HandlesFacts DEF ReaderAct, Handles
  <2>2. relayed' \in BOOLEAN
    BY <1>9, <2>1, DeliverTypes, EmitTypes DEF ReaderAct, KeepaliveAct, DeliveryAct, NoticeDelta,
       NoticeCompleted, NoticeFailed
  <2>3. cut' \subseteq Turns
    BY <1>9 DEF Rest, ReaderAct, KeepaliveAct, DeliveryAct, Report, Cut
  <2>. QED  BY <1>9, <2>2, <2>3 DEF Rest, ReaderAct
<1>10. CASE ReaderEOF
  <2>1. relayed' \in BOOLEAN
    BY <1>10, EmitTypes DEF ReaderEOF
  <2>. QED  BY <1>10, <2>1 DEF Rest, ReaderEOF
<1>11. CASE BufferStop \/ BufferDrain \/ Read \/ ReadClosed
  BY <1>11 DEF Rest, BufferStop, BufferDrain, Read, ReadClosed
<1>12. CASE ApprovalTake \/ Decide \/ ApprovalStop
  BY <1>12 DEF Rest, Quiet, ApprovalTake, Decide, ApprovalStop, Answer
<1>13. CASE StopCancel \/ StopStep
  BY <1>13 DEF Rest, StopCancel, StopStep, StopStdin, StopReturn, CloseMessages, StopGo
<1>14. CASE UNCHANGED vars
  BY <1>14 DEF Rest, vars
<1>. QED  BY <1>1, <1>2, <1>3, <1>4, <1>5, <1>6, <1>7, <1>8, <1>9, <1>10, <1>11, <1>12, <1>13,
             <1>14 DEF Next, ReaderStep

\* Every variable keeps its type: in particular the turn that is known by its
\* identity, and so can be interrupted, was requested (updateTurnState).
THEOREM TypesHold == Spec => []TypeOK
<1>1. Init => Rest
  <2>1. 0 \in 0 .. MaxItems
    BY CodexAssumption
  <2>2. Init => {reading, closedMessages, alive, relayed, torn} \subseteq BOOLEAN
    BY DEF Init
  <2>3. Init => turn.kind = "idle"
    BY DEF Init
  <2>4. Init => answered \subseteq Turns /\ cut \subseteq Turns
    BY DEF Init
  <2>5. Init => /\ bufw = "run" /\ apl = "run" /\ stop = "no" /\ items = 0
    BY DEF Init
  <2>. QED  BY <2>1, <2>2, <2>3, <2>4, <2>5 DEF Rest
<1>2. IInv /\ Rest /\ [Next]_vars => Rest'
  BY RestStep DEF IInv
<1>3. IInv /\ Rest => TypeOK
  BY DEF IInv, Core, Shape, Heard, Quiet, Rest, TypeOK
<1>. QED  BY Invariance, <1>1, <1>2, <1>3, PTL DEF Spec
===============================================================================
