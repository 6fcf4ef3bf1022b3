--------------------------- MODULE WorkflowProofs ---------------------------
(***************************************************************************)
(* Proofs about the workflows and their executor for every set of          *)
(* participants, every scenario and every bound of the loop: the four      *)
(* safety properties, from the inductive invariant IInv.                   *)
(*                                                                         *)
(* The argument follows the items of the instruction runner.  What a       *)
(* workflow waits for is on its way exactly once (Flight), the answer to   *)
(* the submission is given or is in one place (Answering), and what is on  *)
(* its way agrees with the stage it is for (Reporting).  A handler is      *)
(* described by what it makes of that: StageStep when it answers nobody,   *)
(* Concluded and LoopConcluded when it takes a completion.                 *)
(***************************************************************************)
EXTENDS Workflows, TLAPS, WellFoundedInduction

(***************************************************************************)
(* The invariant                                                           *)
(***************************************************************************)

IsSeq(q) == q \in Seq(Range(q))

StageFields ==
    {"stmt", "phase", "pending", "routing", "barrier", "blocking", "unavailable",
     "dispatchRouting", "submissionPending", "sourceNeedsCompletion",
     "interruptRequested", "interruptPending", "interrupted", "handedOff"}
LoopFields == {"alias", "phase", "turns", "pending", "submissionPending", "ended"}
CallFields == {"ref", "kind", "direct", "todo", "idle", "from", "err", "delivered",
               "recorded", "routing"}

DispatchRef == Ref("stage", "dispatch")
LoopRef     == Ref("loop", "dispatch")
Refs        == {DispatchRef, LoopRef} \cup {CancelRef(a) : a \in Alias}

StatementOK(x) ==
    /\ x.kind \in {"send", "broadcast", "handoff"}
    /\ x.kind # "broadcast" => x.to \in Alias
    /\ x.kind = "handoff" => x.from \in Alias

\* What a stage knows once its barrier is frozen: it is for somebody.
Addressed(s) ==
    /\ ~ MustDiscard(s)
    /\ s.stmt.kind = "send" => s.stmt.to \in s.routing
    /\ s.stmt.kind = "handoff" => s.routing = {s.stmt.from, s.stmt.to}

StageOK(s) ==
    /\ DOMAIN s = StageFields
    /\ s.phase \in StagePhases \cup {"none"}
    /\ s.phase = "none" => s = NoStage
    /\ s.phase # "none" => StatementOK(s.stmt)
    /\ s.routing \subseteq Alias /\ Frozen(s) \subseteq Alias
    /\ s.interruptPending \subseteq Alias
    /\ s.submissionPending \in BOOLEAN
    /\ s.phase \in {"planning", "waiting"} => s.pending = Ref("stage", "plan")
    /\ s.phase = "planning" => s.submissionPending
    /\ s.phase = "waiting" => ~ s.submissionPending
    /\ s.phase = "readingSource" =>
           s.pending = Ref("stage", "source") /\ s.stmt.kind = "handoff"
    /\ s.phase = "dispatching" =>
           /\ s.pending = DispatchRef
           /\ s.dispatchRouting # {} /\ s.dispatchRouting \subseteq Alias
           /\ s.stmt.kind = "handoff" => s.dispatchRouting = {s.stmt.from, s.stmt.to}
    /\ s.phase \in {"waiting", "readingSource"} => Addressed(s)

LoopOK(l) ==
    /\ DOMAIN l = LoopFields
    /\ l.phase \in LoopPhases \cup {"none"}
    /\ l.submissionPending \in BOOLEAN
    /\ l.phase = "dispatching" => l.pending = LoopRef
    /\ l.phase # "dispatching" => ~ l.submissionPending

\* The operations, and what the queue holds of them.
OpOK(o) ==
    /\ \/ IsSubmission(o)
       \/ o.kind \in {"edit", "discard", "interrupt", "loopShell", "userShell"}
    /\ o.kind = "stage" => StatementOK(o.stmt)

CallOK(c) ==
    /\ DOMAIN c = CallFields
    /\ c # NoCall => /\ c.kind \in {"shared", "broadcast", "handoff", "cancel"}
                     /\ c.ref \in Refs

-----------------------------------------------------------------------------
(* The items of the runner, by what they lead to *)

Asks    == {"planShared", "planBroadcast", "readParticipants", "planDone",
            "participantsDone"}
Sources == {"readSource", "sourceDone"}
Requests == {"execute", "sessionDone"}
Answers == {"startUserShell", "command", "commandDone", "readRoster", "rosterDone"}
Shows   == {"requestSnapshot", "publishSnapshot", "command", "commandDone",
            "readRoster", "rosterDone"}

Is(i, c) ==
    CASE c = "plan"       -> i.do \in Asks
      [] c = "source"     -> i.do \in Sources
      [] c = "dispatch"   -> i.do \in Requests /\ i.ref = DispatchRef
      [] c = "loop"       -> i.do \in Requests /\ i.ref = LoopRef
      [] c = "answer"     ->
            \/ IsPublish(i, {"succeeded", "failed", "rejected", "unknown"})
            \/ i.do \in Answers
      [] c = "dispatched" -> IsPublish(i, {"dispatched"})
      [] c = "snap"       -> i.do \in Shows \/ (i.do = "burst" /\ i.events # <<>>)

Has(q, c)  == \E k \in DOMAIN q : Is(q[k], c)
Only(q, c) == \A j, k \in DOMAIN q : Is(q[j], c) /\ Is(q[k], c) => j = k

Classes == {"plan", "source", "dispatch", "loop", "answer", "dispatched"}

Sound(i) ==
    /\ i.do \in Requests => i.ref \in Refs
    /\ i.do = "execute" =>
           i.request.kind \in {"planShared", "broadcast", "shared", "cancel", "handoff"}
    /\ i.do = "burst" => IsSeq(i.events)
    /\ i.do = "planDone" => i.targets \subseteq Alias
    /\ i.do = "participantsDone" => DOMAIN i.barrier \subseteq Alias
    /\ i.do \in Asks \cup Sources \cup Requests \cup Answers \cup Shows
                \cup {"publish", "append", "startShell", "burst"}

AllSound(q) == IsSeq(q) /\ \A k \in DOMAIN q : Sound(q[k])

-----------------------------------------------------------------------------
(* What an item on the way means for the stage *)

\* The plan is for the statement of the stage.
Planned(s, i) ==
    /\ i.do = "planShared" => s.stmt.kind = "send" /\ i.alias = s.stmt.to
    /\ i.do = "planBroadcast" => s.stmt.kind = "broadcast"
    /\ i.do = "planDone" => /\ s.stmt.kind \in {"send", "broadcast"}
                            /\ s.stmt.kind = "send" => s.stmt.to \in i.targets
    /\ i.do \in {"readParticipants", "participantsDone"} =>
           (s.stmt.kind = "send" => s.stmt.to \in s.routing)

\* The request goes to those the dispatch was frozen for.
Asked(s, r) ==
    \/ /\ r.kind = "shared" /\ s.stmt.kind = "send" /\ r.direct \in Alias
       /\ r.others \cup {r.direct} = s.dispatchRouting
    \/ /\ r.kind = "broadcast" /\ s.stmt.kind = "broadcast"
       /\ r.others = s.dispatchRouting
    \/ r.kind = "handoff" /\ s.stmt.kind = "handoff" /\ r.direct = s.stmt.to

\* While it is executed, those who accepted it are the ones to report.
Reached(s, c, g) ==
    \/ /\ c.kind = "handoff" /\ s.stmt.kind = "handoff"
       /\ c.todo = {} /\ c.from = s.stmt.from
       /\ \/ c.direct = s.stmt.to /\ c.delivered = {} /\ g = {} /\ ~ c.err
          \/ c.direct = NoAlias /\ c.delivered = {} /\ g = {} /\ c.err
          \/ c.direct = NoAlias /\ g = {s.stmt.from, s.stmt.to} /\ ~ c.err
    \/ /\ c.kind \in {"shared", "broadcast"} /\ s.stmt.kind \in {"send", "broadcast"}
       /\ g = c.delivered
       /\ ~ c.err => c.delivered \cup c.todo \cup ({c.direct} \ {NoAlias})
                         = s.dispatchRouting

\* The completion says who they are.
Told(s, i, g) == g = DeliveredTo(s, i)

Dispatching(s, i, g) ==
    IF i.do = "execute" THEN g = {} /\ Asked(s, i.request) ELSE Told(s, i, g)

-----------------------------------------------------------------------------

Lists ==
    /\ AllSound(queue) /\ IsSeq(inbox) /\ IsSeq(ops)
    /\ DOMAIN owed = Alias /\ DOMAIN leaving = Alias
    /\ DOMAIN part = Alias

Shapes == StageOK(stage) /\ LoopOK(loop) /\ CallOK(call)

\* What the user is still to type.
Types(s) == "typed" \in DOMAIN s /\ s.typed \in Seq(UserOps)

Operations ==
    /\ pc \in {"pull", "before", "drain", "op"}
    /\ pc \in {"before", "op"} => OpOK(op)
    /\ \A k \in DOMAIN ops : ops[k].kind = "drain" \/ OpOK(ops[k])
    /\ Types(scene)
    /\ shells \subseteq {"loopShell", "userShell"}

\* Nothing is left over when the runner has returned.
Resting == ~ running => queue = <<>> /\ call = NoCall /\ ~ snapshotRequested

\* A workflow that waits for an answer of the runner gets one, once.
Flight ==
    /\ \A c \in Classes : Only(queue, c)
    /\ stage.phase = "planning" <=> Has(queue, "plan")
    /\ stage.phase = "readingSource" <=> Has(queue, "source")
    /\ stage.phase = "dispatching" <=> (Has(queue, "dispatch") \/ call.ref = DispatchRef)
    /\ ~ (Has(queue, "dispatch") /\ call.ref = DispatchRef)
    /\ loop.phase = "dispatching" <=> (Has(queue, "loop") \/ call.ref = LoopRef)
    /\ ~ (Has(queue, "loop") /\ call.ref = LoopRef)

\* The answer to a submission is given, or in one place.
Answering ==
    /\ answers \in {0, 1}
    /\ answers = 1 => ~ Has(queue, "answer") /\ ~ stage.submissionPending
                                             /\ ~ loop.submissionPending
    /\ answers = 0 =>
           \/ Has(queue, "answer") /\ ~ stage.submissionPending /\ ~ loop.submissionPending
           \/ ~ Has(queue, "answer") /\ stage.submissionPending /\ ~ loop.submissionPending
           \/ ~ Has(queue, "answer") /\ ~ stage.submissionPending /\ loop.submissionPending

Reporting ==
    /\ \A k \in DOMAIN queue :
           /\ Is(queue[k], "plan") => Planned(stage, queue[k])
           /\ Is(queue[k], "dispatch") => Dispatching(stage, queue[k], got)
           /\ Is(queue[k], "dispatched") => got # {} /\ queue[k].routing = got
    /\ Has(queue, "dispatched") => stage.phase = "none"
    /\ call.ref = DispatchRef => Reached(stage, call, got)
    /\ got # {} => \/ Has(queue, "dispatch") \/ Has(queue, "dispatched")
                   \/ call.ref = DispatchRef

\* A snapshot is on its way when the last one is not current.
ShownStage ==
    /\ stage.phase = "planning" =>
           shown = NoStage /\ Len(queue) = 1 /\ ~ snapshotRequested /\ call = NoCall
    /\ \/ shown = StageSnapshot(stage) \/ snapshotRequested \/ Has(queue, "snap")
       \/ stage.phase \in {"planning", "readingSource", "dispatching"}

ShownParts ==
    \/ fresh \/ snapshotRequested \/ Has(queue, "snap") \/ inbox # <<>>
    \/ \E a \in Alias : owed[a] # <<>> \/ leaving[a] # <<>>

Showing == ShownStage /\ ShownParts

Draining ==
    /\ inbox # <<>> => drainPending
    /\ drainPending => pc = "drain" \/ \E k \in DOMAIN ops : ops[k].kind = "drain"

IInv ==
    Lists /\ Shapes /\ Operations /\ Resting /\ Flight /\ Answering /\ Reporting
    /\ Showing /\ Draining

(***************************************************************************)
(* Sequences, and what they hold                                           *)
(***************************************************************************)

\* A sequence is one over what it holds.
LEMMA SeqRange ==
    ASSUME NEW S, NEW q \in Seq(S)
    PROVE  IsSeq(q)
<1>1. Range(q) = {q[k] : k \in 1 .. Len(q)}
  BY DEF Range
<1>2. \A k \in 1 .. Len(q) : q[k] \in Range(q)
  BY <1>1
<1>. QED  BY <1>2 DEF IsSeq

LEMMA SeqFacts ==
    ASSUME NEW q, IsSeq(q)
    PROVE  /\ Len(q) \in Nat /\ DOMAIN q = 1 .. Len(q)
           /\ q # <<>> <=> Len(q) # 0
  BY DEF IsSeq

LEMMA Cat ==
    ASSUME NEW q, IsSeq(q), NEW r, IsSeq(r)
    PROVE  /\ IsSeq(q \o r)
           /\ Len(q \o r) = Len(q) + Len(r)
           /\ \A k \in 1 .. Len(q) : (q \o r)[k] = q[k]
           /\ \A k \in 1 .. Len(r) : (q \o r)[Len(q) + k] = r[k]
<1>. DEFINE S == Range(q) \cup Range(r)
<1>1. q \in Seq(S) /\ r \in Seq(S)
  BY DEF IsSeq
<1>. HIDE DEF S
<1>2. q \o r \in Seq(S)
  BY <1>1
<1>3. IsSeq(q \o r)
  BY <1>2, SeqRange
<1>. QED  BY <1>1, <1>3

LEMMA OnlyIfSeq ==
    ASSUME NEW q, NEW c, ~ Has(q, c)
    PROVE  Only(q, c)
  BY DEF Has, Only

\* What two sequences hold one after the other.
LEMMA CatHas ==
    ASSUME NEW q, IsSeq(q), NEW r, IsSeq(r), NEW c
    PROVE  /\ Has(q \o r, c) <=> Has(q, c) \/ Has(r, c)
           /\ Only(q, c) /\ Only(r, c) /\ ~ (Has(q, c) /\ Has(r, c)) => Only(q \o r, c)
<1>. DEFINE s == q \o r
<1>1. /\ IsSeq(s) /\ Len(s) = Len(q) + Len(r)
      /\ \A k \in 1 .. Len(q) : s[k] = q[k]
      /\ \A k \in 1 .. Len(r) : s[Len(q) + k] = r[k]
  BY Cat
<1>. HIDE DEF s
<1>2. /\ DOMAIN s = 1 .. Len(s) /\ DOMAIN q = 1 .. Len(q) /\ DOMAIN r = 1 .. Len(r)
      /\ Len(q) \in Nat /\ Len(r) \in Nat
  BY <1>1, SeqFacts
<1>3. \A k \in DOMAIN s : \/ k \in DOMAIN q /\ s[k] = q[k]
                          \/ k - Len(q) \in DOMAIN r /\ s[k] = r[k - Len(q)]
  <2>. SUFFICES ASSUME NEW k \in DOMAIN s
                PROVE  \/ k \in DOMAIN q /\ s[k] = q[k]
                       \/ k - Len(q) \in DOMAIN r /\ s[k] = r[k - Len(q)]
    OBVIOUS
  <2>1. CASE k <= Len(q)
    BY <2>1, <1>1, <1>2
  <2>2. CASE k > Len(q)
    <3>1. k - Len(q) \in 1 .. Len(r) /\ Len(q) + (k - Len(q)) = k
      BY <2>2, <1>1, <1>2
    <3>. QED  BY <3>1, <1>1, <1>2
  <2>. QED  BY <2>1, <2>2, <1>2
<1>4. \A k \in DOMAIN q : k \in DOMAIN s /\ s[k] = q[k]
  BY <1>1, <1>2
<1>5. \A k \in DOMAIN r : Len(q) + k \in DOMAIN s /\ s[Len(q) + k] = r[k]
  BY <1>1, <1>2
<1>6. Has(s, c) <=> Has(q, c) \/ Has(r, c)
  BY <1>3, <1>4, <1>5 DEF Has
<1>7. ASSUME Only(q, c), Only(r, c), ~ (Has(q, c) /\ Has(r, c))
      PROVE  Only(s, c)
  <2>. SUFFICES ASSUME NEW j \in DOMAIN s, NEW k \in DOMAIN s, Is(s[j], c), Is(s[k], c)
                PROVE  j = k
    BY DEF Only
  <2>1. CASE ~ Has(r, c)
    <3>1. /\ j \in DOMAIN q /\ s[j] = q[j]
          /\ k \in DOMAIN q /\ s[k] = q[k]
      BY <2>1, <1>3 DEF Has
    <3>. QED  BY <3>1, <1>7 DEF Only
  <2>2. CASE ~ Has(q, c)
    <3>1. /\ j - Len(q) \in DOMAIN r /\ s[j] = r[j - Len(q)]
          /\ k - Len(q) \in DOMAIN r /\ s[k] = r[k - Len(q)]
      BY <2>2, <1>3 DEF Has
    <3>2. j - Len(q) = k - Len(q)
      BY <3>1, <1>7 DEF Only
    <3>. QED  BY <3>2, <1>2
  <2>. QED  BY <2>1, <2>2, <1>7
<1>. QED  BY <1>6, <1>7 DEF s

LEMMA CatSound ==
    ASSUME NEW q, AllSound(q), NEW r, AllSound(r)
    PROVE  AllSound(q \o r)
<1>1. IsSeq(q) /\ IsSeq(r)
  BY DEF AllSound
<1>2. /\ IsSeq(q \o r) /\ Len(q \o r) = Len(q) + Len(r)
      /\ \A k \in 1 .. Len(q) : (q \o r)[k] = q[k]
      /\ \A k \in 1 .. Len(r) : (q \o r)[Len(q) + k] = r[k]
  BY <1>1, Cat
<1>. DEFINE s == q \o r
<1>3. /\ DOMAIN s = 1 .. Len(s) /\ DOMAIN q = 1 .. Len(q) /\ DOMAIN r = 1 .. Len(r)
      /\ Len(q) \in Nat /\ Len(r) \in Nat
  BY <1>1, <1>2, SeqFacts
<1>4. ASSUME NEW k \in DOMAIN s
      PROVE  Sound(s[k])
  <2>1. CASE k <= Len(q)
    BY <2>1, <1>2, <1>3 DEF AllSound
  <2>2. CASE k > Len(q)
    <3>1. k - Len(q) \in 1 .. Len(r) /\ Len(q) + (k - Len(q)) = k
      BY <2>2, <1>2, <1>3
    <3>. QED  BY <3>1, <1>2, <1>3 DEF AllSound
  <2>. QED  BY <2>1, <2>2, <1>3
<1>. QED  BY <1>2, <1>4 DEF AllSound

LEMMA Literals ==
    /\ AllSound(<<>>) /\ \A c : ~ Has(<<>>, c) /\ Only(<<>>, c)
    /\ \A x : IsSeq(<<x>>) /\ (AllSound(<<x>>) <=> Sound(x))
    /\ \A x, c : (Has(<<x>>, c) <=> Is(x, c)) /\ Only(<<x>>, c)
<1>1. IsSeq(<<>>)
  BY DEF IsSeq
<1>2. AllSound(<<>>) /\ \A c : ~ Has(<<>>, c) /\ Only(<<>>, c)
  BY <1>1 DEF AllSound, Has, Only
<1>3. ASSUME NEW x
      PROVE  /\ IsSeq(<<x>>) /\ DOMAIN <<x>> = {1} /\ <<x>>[1] = x
  <2>1. <<x>> \in Seq({x})
    OBVIOUS
  <2>2. IsSeq(<<x>>)
    BY <2>1, SeqRange
  <2>3. DOMAIN <<x>> = {1} /\ <<x>>[1] = x
    OBVIOUS
  <2>. QED  BY <2>2, <2>3
<1>4. ASSUME NEW x
      PROVE  AllSound(<<x>>) <=> Sound(x)
  BY <1>3 DEF AllSound
<1>5. ASSUME NEW x, NEW c
      PROVE  (Has(<<x>>, c) <=> Is(x, c)) /\ Only(<<x>>, c)
  BY <1>3 DEF Has, Only
<1>. QED  BY <1>2, <1>3, <1>4, <1>5

\* The first item is gone.
LEMMA Rest ==
    ASSUME NEW q, IsSeq(q), q # <<>>
    PROVE  /\ IsSeq(Tail(q)) /\ Len(Tail(q)) = Len(q) - 1
           /\ Head(q) = q[1] /\ 1 \in DOMAIN q
           /\ \A k \in DOMAIN Tail(q) : k + 1 \in DOMAIN q /\ Tail(q)[k] = q[k + 1]
           /\ \A k \in DOMAIN q : k # 1 => k - 1 \in DOMAIN Tail(q) /\ Tail(q)[k - 1] = q[k]
<1>1. q \in Seq(Range(q))
  BY DEF IsSeq
<1>2. Tail(q) \in Seq(Range(q)) /\ Len(q) # 0
  BY <1>1
<1>3. IsSeq(Tail(q))
  BY <1>2, SeqRange
<1>4. /\ DOMAIN q = 1 .. Len(q) /\ DOMAIN Tail(q) = 1 .. (Len(q) - 1)
      /\ Len(Tail(q)) = Len(q) - 1 /\ Head(q) = q[1] /\ Len(q) \in Nat
      /\ \A k \in 1 .. (Len(q) - 1) : Tail(q)[k] = q[k + 1]
  BY <1>1, <1>2
<1>5. \A k \in 2 .. Len(q) : Tail(q)[k - 1] = q[k]
  <2>. SUFFICES ASSUME NEW k \in 2 .. Len(q) PROVE Tail(q)[k - 1] = q[k]
    OBVIOUS
  <2>1. k - 1 \in 1 .. (Len(q) - 1) /\ (k - 1) + 1 = k
    BY <1>4
  <2>. QED  BY <2>1, <1>4
<1>. QED  BY <1>2, <1>3, <1>4, <1>5

\* What is left holds what the head does not.
LEMMA RestHas ==
    ASSUME NEW q, IsSeq(q), q # <<>>, NEW c
    PROVE  /\ Has(q, c) <=> Is(Head(q), c) \/ Has(Tail(q), c)
           /\ Only(q, c) => Only(Tail(q), c) /\ ~ (Is(Head(q), c) /\ Has(Tail(q), c))
<1>1. /\ Head(q) = q[1] /\ 1 \in DOMAIN q
      /\ \A k \in DOMAIN Tail(q) : k + 1 \in DOMAIN q /\ Tail(q)[k] = q[k + 1]
      /\ \A k \in DOMAIN q : k # 1 => k - 1 \in DOMAIN Tail(q) /\ Tail(q)[k - 1] = q[k]
  BY Rest
<1>2. Has(q, c) <=> Is(Head(q), c) \/ Has(Tail(q), c)
  BY <1>1 DEF Has
<1>3. \A k \in DOMAIN Tail(q) : k \in 1 .. Len(Tail(q)) /\ Len(Tail(q)) \in Nat
  BY Rest, SeqFacts
<1>4. ASSUME Only(q, c)
      PROVE  Only(Tail(q), c) /\ ~ (Is(Head(q), c) /\ Has(Tail(q), c))
  <2>1. ASSUME NEW j \in DOMAIN Tail(q), NEW k \in DOMAIN Tail(q),
               Is(Tail(q)[j], c), Is(Tail(q)[k], c)
        PROVE  j = k
    <3>1. j + 1 = k + 1
      BY <1>1, <1>4, <2>1 DEF Only
    <3>. QED  BY <3>1, <1>3
  <2>2. ASSUME NEW k \in DOMAIN Tail(q), Is(Tail(q)[k], c), Is(Head(q), c)
        PROVE  FALSE
    <3>1. k + 1 = 1
      BY <1>1, <1>4, <2>2 DEF Only
    <3>. QED  BY <3>1, <1>3
  <2>. QED  BY <2>1, <2>2 DEF Only, Has
<1>. QED  BY <1>2, <1>4

LEMMA RestSound ==
    ASSUME NEW q, AllSound(q), q # <<>>
    PROVE  AllSound(Tail(q)) /\ Sound(Head(q))
  BY Rest DEF AllSound

(***************************************************************************)
(* Folds, step by step                                                     *)
(***************************************************************************)

LEMMA MaxIs ==
    ASSUME NEW S, S \subseteq Nat, NEW x \in S, \A y \in S : x >= y
    PROVE  Max(S) = x
<1>1. \A z \in S : (\A y \in S : z >= y) => z = x
  OBVIOUS
<1>2. /\ Max(S) \in S
      /\ \A y \in S : Max(S) >= y
  BY DEF Max
<1>. QED  BY <1>1, <1>2

LEMMA SmallestIsThere ==
    ASSUME NEW T, T \subseteq Nat, T # {}
    PROVE  \E t \in T : \A u \in T : t <= u
<1>. DEFINE R == {p \in Nat \X Nat : p[1] < p[2]}
<1>1. IsWellFoundedOn(R, Nat)
  BY NatLessThanWellFounded DEF OpToRel
<1>2. PICK t \in T : \A u \in T : ~ (<<u, t>> \in R)
  <2>. HIDE DEF R
  <2>. QED  BY <1>1, WFMin
<1>3. \A u, v \in Nat : u < v => <<u, v>> \in R
  <2>1. SUFFICES ASSUME NEW u \in Nat, NEW v \in Nat, u < v
                 PROVE  <<u, v>> \in Nat \X Nat /\ <<u, v>>[1] < <<u, v>>[2]
    OBVIOUS
  <2>. QED  BY <2>1
<1>. HIDE DEF R
<1>4. \A u \in T : ~ (u < t)
  BY <1>2, <1>3
<1>5. t \in Nat /\ \A u \in T : u \in Nat
  OBVIOUS
<1>. QED  BY <1>4, <1>5

FoldsEvents(it, n, base, s) ==
    it = [t \in SUBSET (1 .. n) |->
            IF t = {} THEN base ELSE Fold(it[t \ {Max(t)}], s[Max(t)])]

\* Such a fold exists, for every length.
LEMMA EventByEventExists ==
    ASSUME NEW s, NEW base
    PROVE  \A n \in Nat : \E it : FoldsEvents(it, n, base, s)
<1>. DEFINE T == {n \in Nat : ~ \E it : FoldsEvents(it, n, base, s)}
<1>. SUFFICES ASSUME T # {} PROVE FALSE
  OBVIOUS
<1>1. PICK n \in T : \A m \in T : n <= m
  <2>1. T \subseteq Nat
    OBVIOUS
  <2>. HIDE DEF T
  <2>. QED  BY <2>1, SmallestIsThere
<1>2. n # 0
  <2>. SUFFICES ASSUME n = 0 PROVE FALSE
    OBVIOUS
  <2>. DEFINE it == [t \in SUBSET (1 .. 0) |-> base]
  <2>1. FoldsEvents(it, 0, base, s)
    BY DEF FoldsEvents
  <2>. HIDE DEF it
  <2>. QED  BY <2>1
<1>3. n - 1 \in Nat /\ n - 1 \notin T
  BY <1>1, <1>2
<1>4. PICK it : FoldsEvents(it, n - 1, base, s)
  BY <1>3
<1>. DEFINE jt == [t \in SUBSET (1 .. n) |->
                    IF n \in t THEN Fold(it[t \ {n}], s[n]) ELSE it[t]]
<1>5. ASSUME NEW t \in SUBSET (1 .. n), n \in t
      PROVE  t # {} /\ Max(t) = n /\ jt[t \ {n}] = it[t \ {n}]
  <2>1. n \in Nat /\ t \subseteq Nat /\ \A y \in t : n >= y
    OBVIOUS
  <2>2. Max(t) = n
    BY <1>5, <2>1, MaxIs
  <2>. QED  BY <1>5, <2>2
<1>6. ASSUME NEW t \in SUBSET (1 .. n), n \notin t
      PROVE  /\ t \in SUBSET (1 .. (n - 1)) /\ jt[t] = it[t]
             /\ jt[t \ {Max(t)}] = it[t \ {Max(t)}]
  <2>1. t \in SUBSET (1 .. (n - 1))
    BY <1>6
  <2>2. t \ {Max(t)} \in SUBSET (1 .. n) /\ n \notin t \ {Max(t)}
    BY <1>6
  <2>. QED  BY <2>1, <2>2, <1>6
<1>7. FoldsEvents(jt, n, base, s)
  <2>1. ASSUME NEW t \in SUBSET (1 .. n)
        PROVE  jt[t] = IF t = {} THEN base ELSE Fold(jt[t \ {Max(t)}], s[Max(t)])
    <3>1. CASE n \in t
      BY <3>1, <1>5
    <3>2. CASE n \notin t
      <4>1. it[t] = IF t = {} THEN base ELSE Fold(it[t \ {Max(t)}], s[Max(t)])
        BY <3>2, <1>4, <1>6 DEF FoldsEvents
      <4>. QED  BY <3>2, <4>1, <1>6
    <3>. QED  BY <3>1, <3>2
  <2>. QED  BY <2>1 DEF FoldsEvents
<1>. HIDE DEF jt
<1>. QED  BY <1>1, <1>7

\* A burst is applied event by event.
LEMMA EventByEvent ==
    ASSUME NEW s, IsSeq(s)
    PROVE  \E w : /\ w[0] = [loop |-> loop, stage |-> stage, sources |-> sources, seq |-> <<>>]
                  /\ \A k \in 1 .. Len(s) : w[k] = Fold(w[k - 1], s[k])
                  /\ ApplyEvents(s) = w[Len(s)]
<1>. DEFINE n == Len(s)
<1>. DEFINE base == [loop |-> loop, stage |-> stage, sources |-> sources, seq |-> <<>>]
<1>0. n \in Nat /\ DOMAIN s = 1 .. n
  BY SeqFacts
<1>. DEFINE R(it) == it = [t \in SUBSET DOMAIN s |->
                IF t = {} THEN base ELSE Fold(it[t \ {Max(t)}], s[Max(t)])]
<1>1. \E it : R(it)
  <2>1. PICK it : FoldsEvents(it, n, base, s)
    <3>. HIDE DEF base
    <3>. QED  BY <1>0, EventByEventExists
  <2>. QED  BY <1>0, <2>1 DEF FoldsEvents
<1>. DEFINE it == CHOOSE it : R(it)
<1>2. R(it)
  <2>. HIDE DEF R
  <2>. QED  BY <1>1
<1>3. ApplyEvents(s) = it[DOMAIN s]
  BY DEF ApplyEvents, FoldLeft, MapThenFoldSet
<1>. HIDE DEF it
<1>4. ASSUME NEW k \in 1 .. n
      PROVE  it[1 .. k] = Fold(it[1 .. (k - 1)], s[k])
  <2>1. 1 .. k \in SUBSET DOMAIN s /\ 1 .. k # {}
    BY <1>0
  <2>2. Max(1 .. k) = k
    <3>1. 1 .. k \subseteq Nat /\ k \in 1 .. k /\ \A y \in 1 .. k : k >= y
      BY <1>0
    <3>. QED  BY <3>1, MaxIs
  <2>3. (1 .. k) \ {k} = 1 .. (k - 1)
    BY <1>0
  <2>. QED  BY <1>2, <2>1, <2>2, <2>3
<1>5. it[1 .. 0] = base
  BY <1>0, <1>2
<1>. DEFINE w == [k \in 0 .. n |-> it[1 .. k]]
<1>6. w[0] = base /\ w[n] = it[DOMAIN s]
  BY <1>0, <1>5
<1>7. ASSUME NEW k \in 1 .. n PROVE w[k] = Fold(w[k - 1], s[k])
  <2>1. k \in 0 .. n /\ k - 1 \in 0 .. n
    BY <1>0
  <2>2. w[k] = it[1 .. k] /\ w[k - 1] = it[1 .. (k - 1)]
    BY <2>1
  <2>. HIDE DEF w
  <2>. QED  BY <2>2, <1>4
<1>. HIDE DEF w
<1>. QED  BY <1>3, <1>6, <1>7

Kept(result, i) == IF i.do = "requestSnapshot" THEN result ELSE Append(result, i)

FoldsItems(it, n, base, s) ==
    it = [t \in SUBSET (1 .. n) |->
            IF t = {} THEN base ELSE Kept(it[t \ {Max(t)}], s[Max(t)])]

LEMMA ItemByItemExists ==
    ASSUME NEW s, NEW base
    PROVE  \A n \in Nat : \E it : FoldsItems(it, n, base, s)
<1>. DEFINE T == {n \in Nat : ~ \E it : FoldsItems(it, n, base, s)}
<1>. SUFFICES ASSUME T # {} PROVE FALSE
  OBVIOUS
<1>1. PICK n \in T : \A m \in T : n <= m
  <2>1. T \subseteq Nat
    OBVIOUS
  <2>. HIDE DEF T
  <2>. QED  BY <2>1, SmallestIsThere
<1>2. n # 0
  <2>. SUFFICES ASSUME n = 0 PROVE FALSE
    OBVIOUS
  <2>. DEFINE it == [t \in SUBSET (1 .. 0) |-> base]
  <2>1. FoldsItems(it, 0, base, s)
    BY DEF FoldsItems
  <2>. HIDE DEF it
  <2>. QED  BY <2>1
<1>3. n - 1 \in Nat /\ n - 1 \notin T
  BY <1>1, <1>2
<1>4. PICK it : FoldsItems(it, n - 1, base, s)
  BY <1>3
<1>. DEFINE jt == [t \in SUBSET (1 .. n) |->
                    IF n \in t THEN Kept(it[t \ {n}], s[n]) ELSE it[t]]
<1>5. ASSUME NEW t \in SUBSET (1 .. n), n \in t
      PROVE  t # {} /\ Max(t) = n /\ jt[t \ {n}] = it[t \ {n}]
  <2>1. n \in Nat /\ t \subseteq Nat /\ \A y \in t : n >= y
    OBVIOUS
  <2>2. Max(t) = n
    BY <1>5, <2>1, MaxIs
  <2>. QED  BY <1>5, <2>2
<1>6. ASSUME NEW t \in SUBSET (1 .. n), n \notin t
      PROVE  /\ t \in SUBSET (1 .. (n - 1)) /\ jt[t] = it[t]
             /\ jt[t \ {Max(t)}] = it[t \ {Max(t)}]
  <2>1. t \in SUBSET (1 .. (n - 1))
    BY <1>6
  <2>2. t \ {Max(t)} \in SUBSET (1 .. n) /\ n \notin t \ {Max(t)}
    BY <1>6
  <2>. QED  BY <2>1, <2>2, <1>6
<1>7. FoldsItems(jt, n, base, s)
  <2>1. ASSUME NEW t \in SUBSET (1 .. n)
        PROVE  jt[t] = IF t = {} THEN base ELSE Kept(jt[t \ {Max(t)}], s[Max(t)])
    <3>1. CASE n \in t
      BY <3>1, <1>5
    <3>2. CASE n \notin t
      <4>1. it[t] = IF t = {} THEN base ELSE Kept(it[t \ {Max(t)}], s[Max(t)])
        BY <3>2, <1>4, <1>6 DEF FoldsItems
      <4>. QED  BY <3>2, <4>1, <1>6
    <3>. QED  BY <3>1, <3>2
  <2>. QED  BY <2>1 DEF FoldsItems
<1>. HIDE DEF jt
<1>. QED  BY <1>1, <1>7

\* The requests for a snapshot are taken out item by item.
LEMMA ItemByItem ==
    ASSUME NEW s, IsSeq(s)
    PROVE  \E w : /\ w[0] = <<>>
                  /\ \A k \in 1 .. Len(s) : w[k] = Kept(w[k - 1], s[k])
                  /\ Materialize(s) =
                         w[Len(s)] \o (IF \E k \in DOMAIN s : s[k].do = "requestSnapshot"
                                 THEN <<PublishSnapshot>> ELSE <<>>)
<1>. DEFINE n == Len(s)
<1>. DEFINE base == <<>>
<1>0. n \in Nat /\ DOMAIN s = 1 .. n
  BY SeqFacts
<1>. DEFINE R(it) == it = [t \in SUBSET DOMAIN s |->
                IF t = {} THEN base ELSE Kept(it[t \ {Max(t)}], s[Max(t)])]
<1>1. \E it : R(it)
  <2>1. PICK it : FoldsItems(it, n, base, s)
    <3>. HIDE DEF base
    <3>. QED  BY <1>0, ItemByItemExists
  <2>. QED  BY <1>0, <2>1 DEF FoldsItems
<1>. DEFINE it == CHOOSE it : R(it)
<1>2. R(it)
  <2>. HIDE DEF R
  <2>. QED  BY <1>1
<1>3. Materialize(s) =
                         it[DOMAIN s] \o (IF \E k \in DOMAIN s : s[k].do = "requestSnapshot"
                                 THEN <<PublishSnapshot>> ELSE <<>>)
  BY DEF Materialize, Kept, FoldLeft, MapThenFoldSet
<1>. HIDE DEF it
<1>4. ASSUME NEW k \in 1 .. n
      PROVE  it[1 .. k] = Kept(it[1 .. (k - 1)], s[k])
  <2>1. 1 .. k \in SUBSET DOMAIN s /\ 1 .. k # {}
    BY <1>0
  <2>2. Max(1 .. k) = k
    <3>1. 1 .. k \subseteq Nat /\ k \in 1 .. k /\ \A y \in 1 .. k : k >= y
      BY <1>0
    <3>. QED  BY <3>1, MaxIs
  <2>3. (1 .. k) \ {k} = 1 .. (k - 1)
    BY <1>0
  <2>. QED  BY <1>2, <2>1, <2>2, <2>3
<1>5. it[1 .. 0] = base
  BY <1>0, <1>2
<1>. DEFINE w == [k \in 0 .. n |-> it[1 .. k]]
<1>6. w[0] = base /\ w[n] = it[DOMAIN s]
  BY <1>0, <1>5
<1>7. ASSUME NEW k \in 1 .. n PROVE w[k] = Kept(w[k - 1], s[k])
  <2>1. k \in 0 .. n /\ k - 1 \in 0 .. n
    BY <1>0
  <2>2. w[k] = it[1 .. k] /\ w[k - 1] = it[1 .. (k - 1)]
    BY <2>1
  <2>. HIDE DEF w
  <2>. QED  BY <2>2, <1>4
<1>. HIDE DEF w
<1>. QED  BY <1>3, <1>6, <1>7

NextOf(them, seq, a) == IF a \in them THEN Append(seq, a) ELSE seq

FoldsNames(it, n, base, them, s) ==
    it = [t \in SUBSET (1 .. n) |->
            IF t = {} THEN base ELSE NextOf(them, it[t \ {Max(t)}], s[Max(t)])]

LEMMA NameByNameExists ==
    ASSUME NEW them, NEW s, NEW base
    PROVE  \A n \in Nat : \E it : FoldsNames(it, n, base, them, s)
<1>. DEFINE T == {n \in Nat : ~ \E it : FoldsNames(it, n, base, them, s)}
<1>. SUFFICES ASSUME T # {} PROVE FALSE
  OBVIOUS
<1>1. PICK n \in T : \A m \in T : n <= m
  <2>1. T \subseteq Nat
    OBVIOUS
  <2>. HIDE DEF T
  <2>. QED  BY <2>1, SmallestIsThere
<1>2. n # 0
  <2>. SUFFICES ASSUME n = 0 PROVE FALSE
    OBVIOUS
  <2>. DEFINE it == [t \in SUBSET (1 .. 0) |-> base]
  <2>1. FoldsNames(it, 0, base, them, s)
    BY DEF FoldsNames
  <2>. HIDE DEF it
  <2>. QED  BY <2>1
<1>3. n - 1 \in Nat /\ n - 1 \notin T
  BY <1>1, <1>2
<1>4. PICK it : FoldsNames(it, n - 1, base, them, s)
  BY <1>3
<1>. DEFINE jt == [t \in SUBSET (1 .. n) |->
                    IF n \in t THEN NextOf(them, it[t \ {n}], s[n]) ELSE it[t]]
<1>5. ASSUME NEW t \in SUBSET (1 .. n), n \in t
      PROVE  t # {} /\ Max(t) = n /\ jt[t \ {n}] = it[t \ {n}]
  <2>1. n \in Nat /\ t \subseteq Nat /\ \A y \in t : n >= y
    OBVIOUS
  <2>2. Max(t) = n
    BY <1>5, <2>1, MaxIs
  <2>. QED  BY <1>5, <2>2
<1>6. ASSUME NEW t \in SUBSET (1 .. n), n \notin t
      PROVE  /\ t \in SUBSET (1 .. (n - 1)) /\ jt[t] = it[t]
             /\ jt[t \ {Max(t)}] = it[t \ {Max(t)}]
  <2>1. t \in SUBSET (1 .. (n - 1))
    BY <1>6
  <2>2. t \ {Max(t)} \in SUBSET (1 .. n) /\ n \notin t \ {Max(t)}
    BY <1>6
  <2>. QED  BY <2>1, <2>2, <1>6
<1>7. FoldsNames(jt, n, base, them, s)
  <2>1. ASSUME NEW t \in SUBSET (1 .. n)
        PROVE  jt[t] = IF t = {} THEN base ELSE NextOf(them, jt[t \ {Max(t)}], s[Max(t)])
    <3>1. CASE n \in t
      BY <3>1, <1>5
    <3>2. CASE n \notin t
      <4>1. it[t] = IF t = {} THEN base ELSE NextOf(them, it[t \ {Max(t)}], s[Max(t)])
        BY <3>2, <1>4, <1>6 DEF FoldsNames
      <4>. QED  BY <3>2, <4>1, <1>6
    <3>. QED  BY <3>1, <3>2
  <2>. QED  BY <2>1 DEF FoldsNames
<1>. HIDE DEF jt
<1>. QED  BY <1>1, <1>7

\* The participants are put in order name by name.
LEMMA NameByName ==
    ASSUME NEW them, IsSeq(Sorted)
    PROVE  \E w : /\ w[0] = <<>>
                  /\ \A k \in 1 .. Len(Sorted) : w[k] = NextOf(them, w[k - 1], Sorted[k])
                  /\ InOrder(them) = w[Len(Sorted)]
<1>. DEFINE n == Len(Sorted)
<1>. DEFINE base == <<>>
<1>0. n \in Nat /\ DOMAIN Sorted = 1 .. n
  BY SeqFacts
<1>. DEFINE R(it) == it = [t \in SUBSET DOMAIN Sorted |->
                IF t = {} THEN base ELSE NextOf(them, it[t \ {Max(t)}], Sorted[Max(t)])]
<1>1. \E it : R(it)
  <2>1. PICK it : FoldsNames(it, n, base, them, Sorted)
    <3>. HIDE DEF base
    <3>. QED  BY <1>0, NameByNameExists
  <2>. QED  BY <1>0, <2>1 DEF FoldsNames
<1>. DEFINE it == CHOOSE it : R(it)
<1>2. R(it)
  <2>. HIDE DEF R
  <2>. QED  BY <1>1
<1>3. InOrder(them) = it[DOMAIN Sorted]
  BY DEF InOrder, NextOf, FoldLeft, MapThenFoldSet
<1>. HIDE DEF it
<1>4. ASSUME NEW k \in 1 .. n
      PROVE  it[1 .. k] = NextOf(them, it[1 .. (k - 1)], Sorted[k])
  <2>1. 1 .. k \in SUBSET DOMAIN Sorted /\ 1 .. k # {}
    BY <1>0
  <2>2. Max(1 .. k) = k
    <3>1. 1 .. k \subseteq Nat /\ k \in 1 .. k /\ \A y \in 1 .. k : k >= y
      BY <1>0
    <3>. QED  BY <3>1, MaxIs
  <2>3. (1 .. k) \ {k} = 1 .. (k - 1)
    BY <1>0
  <2>. QED  BY <1>2, <2>1, <2>2, <2>3
<1>5. it[1 .. 0] = base
  BY <1>0, <1>2
<1>. DEFINE w == [k \in 0 .. n |-> it[1 .. k]]
<1>6. w[0] = base /\ w[n] = it[DOMAIN Sorted]
  BY <1>0, <1>5
<1>7. ASSUME NEW k \in 1 .. n PROVE w[k] = NextOf(them, w[k - 1], Sorted[k])
  <2>1. k \in 0 .. n /\ k - 1 \in 0 .. n
    BY <1>0
  <2>2. w[k] = it[1 .. k] /\ w[k - 1] = it[1 .. (k - 1)]
    BY <2>1
  <2>. HIDE DEF w
  <2>. QED  BY <2>2, <1>4
<1>. HIDE DEF w
<1>. QED  BY <1>3, <1>6, <1>7

\* From each number to the next.
LEMMA StepByStep ==
    ASSUME NEW n \in Nat, NEW G, 0 \in G, \A k \in 1 .. n : k - 1 \in G => k \in G
    PROVE  n \in G
<1>. DEFINE T == (0 .. n) \ G
<1>. SUFFICES ASSUME n \notin G PROVE FALSE
  OBVIOUS
<1>1. PICK t \in T : \A u \in T : t <= u
  <2>1. T \subseteq Nat /\ T # {}
    OBVIOUS
  <2>. HIDE DEF T
  <2>. QED  BY <2>1, SmallestIsThere
<1>2. t \in 1 .. n /\ t - 1 \in 0 .. n /\ ~ (t <= t - 1)
  BY <1>1
<1>3. t - 1 \in G
  BY <1>1, <1>2
<1>. QED  BY <1>1, <1>2, <1>3

LEMMA Appended ==
    ASSUME NEW q, IsSeq(q), NEW x
    PROVE  Append(q, x) = q \o <<x>>
<1>. DEFINE S == Range(q) \cup {x}
<1>1. q \in Seq(S) /\ x \in S
  BY DEF IsSeq
<1>. HIDE DEF S
<1>. QED  BY <1>1

LEMMA AppendHas ==
    ASSUME NEW q, IsSeq(q), NEW x
    PROVE  /\ IsSeq(Append(q, x)) /\ Len(Append(q, x)) = Len(q) + 1
           /\ \A c : /\ Has(Append(q, x), c) <=> Has(q, c) \/ Is(x, c)
                     /\ Only(q, c) /\ ~ (Has(q, c) /\ Is(x, c)) => Only(Append(q, x), c)
           /\ AllSound(q) /\ Sound(x) => AllSound(Append(q, x))
           /\ \A k \in DOMAIN Append(q, x) : \/ k \in DOMAIN q /\ Append(q, x)[k] = q[k]
                                             \/ Append(q, x)[k] = x
<1>1. IsSeq(<<x>>) /\ (AllSound(<<x>>) <=> Sound(x)) /\ Len(<<x>>) = 1 /\ <<x>>[1] = x
  BY Literals
<1>2. IsSeq(q \o <<x>>) /\ Len(q \o <<x>>) = Len(q) + 1
  BY <1>1, Cat
<1>3. ASSUME NEW c
      PROVE  /\ Has(q \o <<x>>, c) <=> Has(q, c) \/ Is(x, c)
             /\ Only(q, c) /\ ~ (Has(q, c) /\ Is(x, c)) => Only(q \o <<x>>, c)
  BY <1>1, CatHas, Literals
<1>4. AllSound(q) /\ Sound(x) => AllSound(q \o <<x>>)
  BY <1>1, CatSound
<1>5. ASSUME NEW k \in DOMAIN (q \o <<x>>)
      PROVE  \/ k \in DOMAIN q /\ (q \o <<x>>)[k] = q[k]
             \/ (q \o <<x>>)[k] = x
  <2>1. /\ DOMAIN (q \o <<x>>) = 1 .. (Len(q) + 1) /\ DOMAIN q = 1 .. Len(q)
        /\ Len(q) \in Nat
    BY <1>2, SeqFacts
  <2>2. /\ \A j \in 1 .. Len(q) : (q \o <<x>>)[j] = q[j]
        /\ \A j \in 1 .. Len(<<x>>) : (q \o <<x>>)[Len(q) + j] = <<x>>[j]
    BY <1>1, Cat
  <2>3. (q \o <<x>>)[Len(q) + 1] = x
    BY <1>1, <2>2
  <2>. QED  BY <2>1, <2>2, <2>3
<1>. QED  BY <1>2, <1>3, <1>4, <1>5, Appended

\* materializeSnapshot keeps everything but the requests for a snapshot.
LEMMA Materialized ==
    ASSUME NEW s, AllSound(s)
    PROVE  /\ AllSound(Materialize(s))
           /\ \A c \in Classes : /\ Has(Materialize(s), c) <=> Has(s, c)
                                 /\ Only(s, c) => Only(Materialize(s), c)
           /\ \A k \in DOMAIN Materialize(s) : \/ Materialize(s)[k] = PublishSnapshot
                                               \/ \E j \in DOMAIN s : Materialize(s)[k] = s[j]
<1>1. IsSeq(s) /\ Len(s) \in Nat /\ DOMAIN s = 1 .. Len(s)
  BY SeqFacts DEF AllSound
<1>. DEFINE last == IF \E k \in DOMAIN s : s[k].do = "requestSnapshot"
                    THEN <<PublishSnapshot>> ELSE <<>>
<1>2. PICK w : /\ w[0] = <<>>
               /\ \A k \in 1 .. Len(s) : w[k] = Kept(w[k - 1], s[k])
               /\ Materialize(s) = w[Len(s)] \o last
  BY <1>1, ItemByItem
<1>. DEFINE P(k) == /\ AllSound(w[k])
                    /\ \A c \in Classes :
                          /\ Has(w[k], c) <=> \E j \in 1 .. k : Is(s[j], c)
                          /\ Only(s, c) => Only(w[k], c)
                    /\ \A j \in DOMAIN w[k] : \E i \in DOMAIN s : w[k][j] = s[i]
<1>3. P(0)
  BY <1>2, Literals DEF Has
<1>4. ASSUME NEW k \in 1 .. Len(s), P(k - 1)
      PROVE  P(k)
  <2>1. w[k] = Kept(w[k - 1], s[k])
    BY <1>2
  <2>2. k - 1 \in 0 .. Len(s) /\ 1 .. k = (1 .. (k - 1)) \cup {k} /\ k \notin 1 .. (k - 1)
        /\ 1 .. k \subseteq DOMAIN s
    BY <1>1
  <2>3. CASE s[k].do = "requestSnapshot"
    <3>1. \A c \in Classes : ~ Is(s[k], c)
      BY <2>3 DEF Classes, Is, Asks, Sources, Requests, Answers, IsPublish
    <3>2. w[k] = w[k - 1]
      BY <2>1, <2>3 DEF Kept
    <3>. HIDE DEF Classes
    <3>. QED  BY <3>1, <3>2, <1>4, <2>2
  <2>4. CASE s[k].do # "requestSnapshot"
    <3>. DEFINE v == w[k - 1]
    <3>1. w[k] = Append(v, s[k]) /\ IsSeq(v) /\ Sound(s[k]) /\ k \in DOMAIN s
      BY <2>1, <2>4, <1>4, <1>1 DEF Kept, AllSound
    <3>2. /\ \A c : /\ Has(w[k], c) <=> Has(v, c) \/ Is(s[k], c)
                    /\ Only(v, c) /\ ~ (Has(v, c) /\ Is(s[k], c)) => Only(w[k], c)
          /\ AllSound(v) /\ Sound(s[k]) => AllSound(w[k])
          /\ \A j \in DOMAIN w[k] : \/ j \in DOMAIN v /\ w[k][j] = v[j]
                                    \/ w[k][j] = s[k]
      BY <3>1, AppendHas
    <3>3. ASSUME NEW c \in Classes
          PROVE  /\ Has(w[k], c) <=> \E j \in 1 .. k : Is(s[j], c)
                 /\ Only(s, c) => Only(w[k], c)
      <4>1. Has(v, c) <=> \E j \in 1 .. (k - 1) : Is(s[j], c)
        BY <1>4
      <4>2. ASSUME Only(s, c), Has(v, c), Is(s[k], c) PROVE FALSE
        <5>1. PICK j \in 1 .. (k - 1) : Is(s[j], c)
          BY <4>1, <4>2
        <5>. QED  BY <5>1, <4>2, <2>2 DEF Only
      <4>3. Only(s, c) => Only(v, c)
        BY <1>4
      <4>. QED  BY <4>1, <4>2, <4>3, <3>2, <2>2
    <3>4. \A j \in DOMAIN w[k] : \E i \in DOMAIN s : w[k][j] = s[i]
      BY <3>1, <3>2, <1>4
    <3>5. AllSound(w[k])
      BY <3>1, <3>2, <1>4
    <3>. QED  BY <3>3, <3>4, <3>5
  <2>. QED  BY <2>3, <2>4
<1>5. P(Len(s))
  <2>. DEFINE G == {k \in 0 .. Len(s) : P(k)}
  <2>. HIDE DEF P
  <2>1. 0 \in G /\ \A k \in 1 .. Len(s) : k - 1 \in G => k \in G
    BY <1>1, <1>3, <1>4
  <2>2. Len(s) \in G
    <3>. HIDE DEF G
    <3>. QED  BY <1>1, <2>1, StepByStep
  <2>. QED  BY <2>2
<1>6. /\ AllSound(last) /\ \A c \in Classes : ~ Has(last, c)
      /\ \A k \in DOMAIN last : last[k] = PublishSnapshot
  <2>1. Sound(PublishSnapshot)
    BY DEF Sound, PublishSnapshot, Asks, Sources, Requests, Answers, Shows
  <2>2. \A c \in Classes : ~ Is(PublishSnapshot, c)
    BY DEF PublishSnapshot, Classes, Is, Asks, Sources, Requests, Answers, IsPublish
  <2>3. \A k \in DOMAIN last : last[k] = PublishSnapshot
    OBVIOUS
  <2>. QED  BY <2>1, <2>2, <2>3, Literals
<1>. DEFINE v == w[Len(s)]
<1>. HIDE DEF last
<1>7. AllSound(v \o last)
  BY <1>5, <1>6, CatSound
<1>8. ASSUME NEW c \in Classes
      PROVE  /\ Has(v \o last, c) <=> Has(s, c)
             /\ Only(s, c) => Only(v \o last, c)
  <2>1. IsSeq(v) /\ IsSeq(last)
    BY <1>5, <1>6 DEF AllSound
  <2>2. ~ Has(last, c) /\ Only(last, c)
    BY <1>6, OnlyIfSeq
  <2>3. Has(v, c) <=> Has(s, c)
    BY <1>1, <1>5 DEF Has
  <2>4. Only(s, c) => Only(v, c)
    BY <1>5
  <2>. HIDE DEF v
  <2>. QED  BY <2>1, <2>2, <2>3, <2>4, CatHas
<1>9. ASSUME NEW k \in DOMAIN (v \o last)
      PROVE  \/ (v \o last)[k] = PublishSnapshot
             \/ \E j \in DOMAIN s : (v \o last)[k] = s[j]
  <2>1. IsSeq(v) /\ IsSeq(last)
    BY <1>5, <1>6 DEF AllSound
  <2>2. \A j \in DOMAIN v : \E i \in DOMAIN s : v[j] = s[i]
    BY <1>5
  <2>. HIDE DEF v
  <2>3. /\ IsSeq(v \o last) /\ Len(v \o last) = Len(v) + Len(last)
        /\ \A j \in 1 .. Len(v) : (v \o last)[j] = v[j]
        /\ \A j \in 1 .. Len(last) : (v \o last)[Len(v) + j] = last[j]
    BY <2>1, Cat
  <2>4. /\ DOMAIN (v \o last) = 1 .. (Len(v) + Len(last)) /\ DOMAIN v = 1 .. Len(v)
        /\ DOMAIN last = 1 .. Len(last) /\ Len(v) \in Nat /\ Len(last) \in Nat
    BY <2>1, <2>3, SeqFacts
  <2>5. CASE k <= Len(v)
    BY <2>2, <2>3, <2>4, <2>5
  <2>6. CASE k > Len(v)
    <3>1. k - Len(v) \in 1 .. Len(last) /\ Len(v) + (k - Len(v)) = k
      BY <2>4, <2>6
    <3>. QED  BY <3>1, <2>3, <2>4, <1>6
  <2>. QED  BY <2>5, <2>6, <2>4
<1>. QED  BY <1>2, <1>7, <1>8, <1>9

\* The participants in order are those that were asked for.
LEMMA OrderedNames ==
    ASSUME NEW them
    PROVE  IsSeq(InOrder(them)) /\ InOrder(them) \in Seq(them)
<1>1. IsSeq(Sorted) /\ Len(Sorted) \in Nat
  <2>1. Sorted \in Seq(Alias)
    BY WorkflowsAssumption
  <2>. QED  BY <2>1, SeqRange, SeqFacts
<1>2. PICK w : /\ w[0] = <<>>
               /\ \A k \in 1 .. Len(Sorted) : w[k] = NextOf(them, w[k - 1], Sorted[k])
               /\ InOrder(them) = w[Len(Sorted)]
  BY <1>1, NameByName
<1>. DEFINE G == {k \in 0 .. Len(Sorted) : w[k] \in Seq(them)}
<1>3. 0 \in G
  <2>1. w[0] \in Seq(them)
    BY <1>2
  <2>. QED  BY <1>1, <2>1
<1>4. ASSUME NEW k \in 1 .. Len(Sorted), k - 1 \in G
      PROVE  k \in G
  <2>1. w[k - 1] \in Seq(them) /\ k \in 0 .. Len(Sorted)
    BY <1>4, <1>1
  <2>2. w[k] = IF Sorted[k] \in them THEN Append(w[k - 1], Sorted[k]) ELSE w[k - 1]
    BY <1>2 DEF NextOf
  <2>3. w[k] \in Seq(them)
    BY <2>1, <2>2
  <2>. QED  BY <2>1, <2>3
<1>5. Len(Sorted) \in G
  <2>. HIDE DEF G
  <2>. QED  BY <1>1, <1>3, <1>4, StepByStep
<1>. QED  BY <1>2, <1>5, SeqRange

(***************************************************************************)
(* What the workflows do with session events                               *)
(***************************************************************************)

\* Instructions nobody waits for.
Plain(q) == AllSound(q) /\ \A c \in Classes : ~ Has(q, c)

\* A step of the stage that answers nobody, with the instructions it asks for.
StageStep(s, t, q) ==
    /\ StageOK(t) /\ AllSound(q)
    /\ \A c \in {"plan", "answer", "loop", "dispatched"} : ~ Has(q, c)
    /\ Only(q, "source") /\ Only(q, "dispatch")
    /\ t.submissionPending = s.submissionPending
    /\ \/ /\ t.phase = s.phase /\ t.stmt = s.stmt /\ t.routing = s.routing
          /\ t.dispatchRouting = s.dispatchRouting
          /\ ~ Has(q, "source") /\ ~ Has(q, "dispatch")
       \/ /\ s.phase = "waiting" /\ t.phase = "none"
          /\ ~ Has(q, "source") /\ ~ Has(q, "dispatch")
       \/ /\ s.phase = "waiting" /\ t.phase = "readingSource"
          /\ Has(q, "source") /\ ~ Has(q, "dispatch")
       \/ /\ s.phase = "waiting" /\ t.phase = "dispatching"
          /\ Has(q, "dispatch") /\ ~ Has(q, "source")
          /\ \A k \in DOMAIN q : Is(q[k], "dispatch") =>
                 q[k].do = "execute" /\ Asked(t, q[k].request)

LEMMA CatItems ==
    ASSUME NEW q, IsSeq(q), NEW r, IsSeq(r), NEW k \in DOMAIN (q \o r)
    PROVE  \/ k \in DOMAIN q /\ (q \o r)[k] = q[k]
           \/ \E j \in DOMAIN r : (q \o r)[k] = r[j]
<1>1. /\ IsSeq(q \o r) /\ Len(q \o r) = Len(q) + Len(r)
      /\ \A j \in 1 .. Len(q) : (q \o r)[j] = q[j]
      /\ \A j \in 1 .. Len(r) : (q \o r)[Len(q) + j] = r[j]
  BY Cat
<1>2. /\ DOMAIN (q \o r) = 1 .. (Len(q) + Len(r)) /\ DOMAIN q = 1 .. Len(q)
      /\ DOMAIN r = 1 .. Len(r) /\ Len(q) \in Nat /\ Len(r) \in Nat
  BY <1>1, SeqFacts
<1>3. CASE k <= Len(q)
  BY <1>1, <1>2, <1>3
<1>4. CASE k > Len(q)
  <2>1. k - Len(q) \in 1 .. Len(r) /\ Len(q) + (k - Len(q)) = k
    BY <1>2, <1>4
  <2>. QED  BY <2>1, <1>1, <1>2
<1>. QED  BY <1>3, <1>4, <1>2

\* Two steps of the stage are one.
LEMMA StageSteps ==
    ASSUME NEW s, NEW t, NEW u, NEW q, NEW r, StageStep(s, t, q), StageStep(t, u, r)
    PROVE  StageStep(s, u, q \o r)
<1>1. AllSound(q) /\ AllSound(r) /\ IsSeq(q) /\ IsSeq(r)
  BY DEF StageStep, AllSound
<1>2. AllSound(q \o r)
  BY <1>1, CatSound
<1>3. \A c : /\ Has(q \o r, c) <=> Has(q, c) \/ Has(r, c)
             /\ Only(q, c) /\ Only(r, c) /\ ~ (Has(q, c) /\ Has(r, c)) => Only(q \o r, c)
  BY <1>1, CatHas
<1>4. \A c \in {"plan", "answer", "loop", "dispatched"} : ~ Has(q \o r, c)
  BY <1>3 DEF StageStep
<1>5. Only(q \o r, "source") /\ Only(q \o r, "dispatch")
  BY <1>3 DEF StageStep
<1>6. StageOK(u) /\ u.submissionPending = s.submissionPending
  BY DEF StageStep
<1>7. ASSUME u.phase = "dispatching", s.phase = "waiting"
      PROVE  \A k \in DOMAIN (q \o r) : Is((q \o r)[k], "dispatch") =>
                 (q \o r)[k].do = "execute" /\ Asked(u, (q \o r)[k].request)
  <2>. SUFFICES ASSUME NEW k \in DOMAIN (q \o r), Is((q \o r)[k], "dispatch")
                PROVE  (q \o r)[k].do = "execute" /\ Asked(u, (q \o r)[k].request)
    OBVIOUS
  <2>1. \/ k \in DOMAIN q /\ (q \o r)[k] = q[k]
        \/ \E j \in DOMAIN r : (q \o r)[k] = r[j]
    BY <1>1, CatItems
  <2>2. CASE t.phase = "dispatching"
    <3>1. ~ Has(r, "dispatch") /\ u.stmt = t.stmt /\ u.dispatchRouting = t.dispatchRouting
      BY <1>7, <2>2 DEF StageStep
    <3>2. \A x : Asked(t, x) => Asked(u, x)
      BY <3>1 DEF Asked
    <3>3. k \in DOMAIN q /\ (q \o r)[k] = q[k]
      BY <2>1, <3>1 DEF Has
    <3>. QED  BY <1>7, <2>2, <3>2, <3>3 DEF StageStep
  <2>3. CASE t.phase # "dispatching"
    <3>1. ~ Has(q, "dispatch")
      BY <2>3 DEF StageStep
    <3>2. PICK j \in DOMAIN r : (q \o r)[k] = r[j]
      BY <2>1, <3>1 DEF Has
    <3>. QED  BY <1>7, <2>3, <3>2 DEF StageStep
  <2>. QED  BY <2>2, <2>3
<1>. QED  BY <1>2, <1>3, <1>4, <1>5, <1>6, <1>7 DEF StageStep

LEMMA StageStays ==
    ASSUME NEW s, StageOK(s), NEW q, Plain(q)
    PROVE  StageStep(s, s, q)
<1>1. \A c \in Classes : ~ Has(q, c) /\ Only(q, c)
  BY OnlyIfSeq DEF Plain
<1>. QED  BY <1>1 DEF StageStep, Plain, Classes

\* What is only told to the front end, or to the history.
Telling(x) ==
    \/ x.do \in {"requestSnapshot", "publishSnapshot", "append", "startShell"}
    \/ x.do = "publish" /\ x.what \notin {"succeeded", "failed", "rejected", "unknown",
                                          "dispatched"}

LEMMA TellingIsPlain ==
    ASSUME NEW x, Telling(x)
    PROVE  Plain(<<x>>)
<1>1. Sound(x)
  BY DEF Telling, Sound, Asks, Sources, Requests, Answers, Shows
<1>2. ASSUME NEW c \in Classes PROVE ~ Is(x, c)
  <2>1. CASE x.do = "publish"
    BY <2>1 DEF Telling, Is, Asks, Sources, Requests, Answers, Classes, IsPublish
  <2>2. CASE x.do # "publish"
    BY <2>2 DEF Telling, Is, Asks, Sources, Requests, Answers, Classes, IsPublish
  <2>. QED  BY <2>1, <2>2
<1>. QED  BY <1>1, <1>2, Literals DEF Plain

LEMMA PlainCat ==
    ASSUME NEW q, NEW r, Plain(q), Plain(r)
    PROVE  Plain(q \o r)
  BY CatSound, CatHas DEF Plain, AllSound

LEMMA PlainOnes ==
    /\ Plain(<<>>) /\ Plain(<<RequestSnapshot>>) /\ Plain(LoopStatus) /\ Plain(<<StartShell>>)
    /\ Has(<<RequestSnapshot>>, "snap")
    /\ Plain(<<AppendRecord, Publish("discarded"), RequestSnapshot>>)
<1>1. /\ Telling(RequestSnapshot) /\ Telling(AppendRecord) /\ Telling(StartShell)
      /\ Telling(Publish("loopStatus")) /\ Telling(Publish("discarded"))
  BY DEF Telling, RequestSnapshot, AppendRecord, StartShell, Publish
<1>2. /\ Plain(<<RequestSnapshot>>) /\ Plain(<<AppendRecord>>) /\ Plain(<<StartShell>>)
      /\ Plain(<<Publish("loopStatus")>>) /\ Plain(<<Publish("discarded")>>)
  BY <1>1, TellingIsPlain
<1>3. Plain(<<>>)
  BY Literals DEF Plain
<1>4. Plain(LoopStatus)
  <2>1. LoopStatus = <<AppendRecord>> \o <<Publish("loopStatus")>>
    BY DEF LoopStatus
  <2>. QED  BY <2>1, <1>2, PlainCat
<1>5. Has(<<RequestSnapshot>>, "snap")
  <2>1. Is(RequestSnapshot, "snap")
    BY DEF Is, RequestSnapshot, Shows
  <2>. QED  BY <2>1, Literals
<1>6. Plain(<<AppendRecord, Publish("discarded"), RequestSnapshot>>)
  <2>1. <<AppendRecord, Publish("discarded"), RequestSnapshot>> =
            (<<AppendRecord>> \o <<Publish("discarded")>>) \o <<RequestSnapshot>>
    OBVIOUS
  <2>2. Plain(<<AppendRecord>> \o <<Publish("discarded")>>)
    BY <1>2, PlainCat
  <2>. QED  BY <2>1, <2>2, <1>2, PlainCat
<1>. QED  BY <1>2, <1>3, <1>4, <1>5, <1>6

\* A stage that waits, its barrier as it may be.
Waits(s) ==
    /\ DOMAIN s = StageFields /\ s.phase = "waiting" /\ s.pending = Ref("stage", "plan")
    /\ StatementOK(s.stmt)
    /\ s.routing \subseteq Alias /\ Frozen(s) \subseteq Alias
    /\ s.interruptPending \subseteq Alias
    /\ s.submissionPending = FALSE
    /\ s.stmt.kind = "send" => s.stmt.to \in s.routing
    /\ s.stmt.kind = "handoff" => s.routing = {s.stmt.from, s.stmt.to}

LEMMA WaitingWaits ==
    ASSUME NEW s
    PROVE  StageOK(s) /\ s.phase = "waiting" <=> Waits(s) /\ ~ MustDiscard(s)
  BY DEF StageOK, Waits, Addressed, StagePhases

\* Without a stage nothing is shown.
LEMMA NothingStaged ==
    /\ StageOK(NoStage) /\ NoStage.phase = "none" /\ NoStage.submissionPending = FALSE
    /\ StageSnapshot(NoStage) = NoStage
  BY DEF StageOK, NoStage, Frozen, NoBarrier, StageFields, StageSnapshot

\* A stage whose barrier was frozen for somebody.
Due(s) ==
    /\ DOMAIN s = StageFields /\ StatementOK(s.stmt) /\ Addressed(s)
    /\ s.routing \subseteq Alias /\ Frozen(s) \subseteq Alias
    /\ s.interruptPending \subseteq Alias
    /\ s.submissionPending \in BOOLEAN

\* The read of the source of a handoff is asked for once.
LEMMA SourceMade ==
    ASSUME NEW s, Due(s), IsHandoff(s)
    PROVE  /\ StageOK(ReadSource(s).stage) /\ ReadSource(s).stage.phase = "readingSource"
           /\ ReadSource(s).stage.submissionPending = s.submissionPending
           /\ AllSound(ReadSource(s).seq)
           /\ \A c \in Classes : /\ Only(ReadSource(s).seq, c)
                                 /\ Has(ReadSource(s).seq, c) <=> c = "source"
<1>. DEFINE t == ReadSource(s).stage
            i == ReadHandoffSource(s.stmt.from)
<1>1. ReadSource(s).seq = <<i>>
  BY DEF ReadSource, Step
<1>2. StageOK(t) /\ t.phase = "readingSource" /\ t.submissionPending = s.submissionPending
  BY DEF Due, ReadSource, Step, StageOK, StagePhases, StageFields, IsHandoff, Addressed,
         MustDiscard, Frozen, ActiveAliases
<1>3. Sound(i) /\ \A c \in Classes : Is(i, c) <=> c = "source"
  BY DEF ReadHandoffSource, Sound, Is, Asks, Sources, Requests, Answers, Shows, IsPublish,
         Classes
<1>. HIDE DEF t, i
<1>4. AllSound(<<i>>) /\ \A c \in Classes : Only(<<i>>, c) /\ (Has(<<i>>, c) <=> c = "source")
  BY <1>3, Literals
<1>. QED  BY <1>1, <1>2, <1>4 DEF t

\* A dispatch is asked for once, and goes to those it was frozen for.
LEMMA DispatchMade ==
    ASSUME NEW s, Due(s), ~ IsHandoff(s)
    PROVE  LET t == Dispatch(s).stage
               q == Dispatch(s).seq
           IN  /\ StageOK(t) /\ t.phase = "dispatching"
               /\ t.submissionPending = s.submissionPending
               /\ AllSound(q)
               /\ \A c \in Classes : Only(q, c) /\ (Has(q, c) <=> c = "dispatch")
               /\ \A k \in DOMAIN q : q[k].do = "execute" /\ Asked(t, q[k].request)
<1>. DEFINE t == Dispatch(s).stage
            active == ActiveAliases(s)
            request == IF s.stmt.kind = "send"
                       THEN Request("shared", s.stmt.to, active \ {s.stmt.to})
                       ELSE Request("broadcast", NoAlias, active)
            i == Execute(DispatchRef, request)
<1>1. Dispatch(s).seq = <<i>>
  BY DEF Dispatch, Step, DispatchRef
<1>2. /\ t = [s EXCEPT !.phase = "dispatching", !.dispatchRouting = active,
                       !.pending = DispatchRef]
  BY DEF Dispatch, Step, DispatchRef
<1>3. active # {} /\ active \subseteq Alias
      /\ (s.stmt.kind = "send" => s.stmt.to \in active /\ s.stmt.to \in Alias)
  BY DEF Due, Addressed, MustDiscard, ActiveAliases, IsHandoff, StatementOK
<1>4. s.stmt.kind \in {"send", "broadcast"} /\ DOMAIN s = StageFields
  BY DEF Due, StatementOK, IsHandoff
<1>5. /\ DOMAIN t = StageFields /\ t.phase = "dispatching" /\ t.dispatchRouting = active
      /\ t.pending = DispatchRef /\ t.stmt = s.stmt /\ t.routing = s.routing
      /\ t.barrier = s.barrier /\ t.interruptPending = s.interruptPending
      /\ t.submissionPending = s.submissionPending
  BY <1>2, <1>4 DEF StageFields
<1>. HIDE DEF t, active
<1>6. StageOK(t)
  BY <1>3, <1>4, <1>5 DEF Due, StageOK, StagePhases, Frozen
<1>7. Asked(t, request)
  BY <1>3, <1>4, <1>5 DEF Asked, Request
<1>8. /\ i.do = "execute" /\ i.ref = DispatchRef /\ i.request = request
      /\ request.kind \in {"shared", "broadcast"}
  BY DEF Execute, Request
<1>. HIDE DEF i, request
<1>9. Sound(i) /\ \A c \in Classes : Is(i, c) <=> c = "dispatch"
  BY <1>8 DEF Sound, Is, Asks, Sources, Requests, Answers, Shows, IsPublish, Refs,
              DispatchRef, LoopRef, Ref, Classes
<1>10. AllSound(<<i>>) /\ \A c \in Classes : Only(<<i>>, c) /\ (Has(<<i>>, c) <=> c = "dispatch")
  BY <1>9, Literals
<1>11. \A k \in DOMAIN <<i>> : <<i>>[k] = i
  OBVIOUS
<1>. QED  BY <1>1, <1>5, <1>6, <1>7, <1>8, <1>10, <1>11 DEF t

LEMMA WaitingIsDue ==
    ASSUME NEW s, StageOK(s), s.phase = "waiting"
    PROVE  Due(s)
  BY DEF StageOK, Due

LEMMA SourceAsked ==
    ASSUME NEW s, StageOK(s), s.phase = "waiting", IsHandoff(s)
    PROVE  StageStep(s, ReadSource(s).stage, ReadSource(s).seq)
<1>1. Due(s)
  BY WaitingIsDue
<1>. DEFINE t == ReadSource(s).stage
            q == ReadSource(s).seq
<1>2. /\ StageOK(t) /\ t.phase = "readingSource"
      /\ t.submissionPending = s.submissionPending /\ AllSound(q)
      /\ \A c \in Classes : Only(q, c) /\ (Has(q, c) <=> c = "source")
  BY <1>1, SourceMade
<1>. HIDE DEF t, q
<1>3. StageStep(s, t, q)
  BY <1>2 DEF StageStep, Classes
<1>. QED  BY <1>3 DEF t, q

LEMMA DispatchAsked ==
    ASSUME NEW s, StageOK(s), s.phase = "waiting", ~ IsHandoff(s)
    PROVE  StageStep(s, Dispatch(s).stage, Dispatch(s).seq)
<1>1. Due(s)
  BY WaitingIsDue
<1>. DEFINE t == Dispatch(s).stage
            q == Dispatch(s).seq
<1>2. /\ StageOK(t) /\ t.phase = "dispatching"
      /\ t.submissionPending = s.submissionPending /\ AllSound(q)
      /\ \A c \in Classes : Only(q, c) /\ (Has(q, c) <=> c = "dispatch")
      /\ \A k \in DOMAIN q : q[k].do = "execute" /\ Asked(t, q[k].request)
  BY <1>1, DispatchMade
<1>. HIDE DEF t, q
<1>3. StageStep(s, t, q)
  BY <1>2 DEF StageStep, Classes
<1>. QED  BY <1>3 DEF t, q

\* It is the same stage but for what it knows of its barrier.
SameStage(s, t) ==
    /\ DOMAIN t = DOMAIN s
    /\ \A f \in {"stmt", "phase", "pending", "routing", "dispatchRouting", "submissionPending",
                 "interruptPending"} : t[f] = s[f]
    /\ Frozen(t) = Frozen(s)

LEMMA SameWaits ==
    ASSUME NEW s, NEW t, Waits(s), SameStage(s, t)
    PROVE  /\ Waits(t) /\ t.stmt = s.stmt /\ t.routing = s.routing
           /\ t.dispatchRouting = s.dispatchRouting
<1>1. /\ DOMAIN t = DOMAIN s /\ Frozen(t) = Frozen(s)
      /\ t.stmt = s.stmt /\ t.phase = s.phase /\ t.pending = s.pending
      /\ t.routing = s.routing
      /\ t.dispatchRouting = s.dispatchRouting
      /\ t.submissionPending = s.submissionPending
      /\ t.interruptPending = s.interruptPending
  BY DEF SameStage
<1>. QED  BY <1>1 DEF Waits

\* An event changes what the stage knows of its barrier only.
LEMMA ObservedSame ==
    ASSUME NEW s, Waits(s), NEW e
    PROVE  SameStage(s, Observed(s, e))
<1>1. DOMAIN s = StageFields
  BY DEF Waits
<1>2. ASSUME NEW a, NEW x PROVE SameStage(s, UpdateStatus(s, a, x))
  BY <1>1 DEF UpdateStatus, SameStage, Frozen, StageFields
<1>3. ASSUME NEW a PROVE SameStage(s, MarkStarted(s, a))
  BY <1>1 DEF MarkStarted, SameStage, Frozen, StageFields
<1>4. ASSUME NEW a PROVE SameStage(s, MarkUnavailable(s, a))
  BY <1>1 DEF MarkUnavailable, SameStage, Frozen, StageFields
<1>5. ASSUME NEW t, DOMAIN t = StageFields PROVE SameStage(t, NoteSource(t, e))
  BY <1>5 DEF NoteSource, SameStage, Frozen, StageFields
<1>6. ASSUME NEW t, NEW u, SameStage(s, t), SameStage(t, u)
      PROVE  SameStage(s, u)
  BY <1>6 DEF SameStage
<1>7. CASE e.kind = "status"
  <2>1. SameStage(s, UpdateStatus(s, e.alias, e.to))
    BY <1>2
  <2>2. DOMAIN UpdateStatus(s, e.alias, e.to) = StageFields
    BY <2>1, <1>1 DEF SameStage
  <2>3. SameStage(s, NoteSource(UpdateStatus(s, e.alias, e.to), e))
    BY <2>1, <2>2, <1>5, <1>6
  <2>. QED  BY <1>7, <2>1, <2>3 DEF Observed
<1>8. CASE e.kind # "status"
  BY <1>8, <1>1, <1>3, <1>4, <1>5 DEF Observed
<1>. QED  BY <1>7, <1>8

\* advanceWaitingStage, advanceWaitingHandoff.
LEMMA AdvanceStep ==
    ASSUME NEW s, Waits(s)
    PROVE  StageStep(s, Advance(s).stage, Advance(s).seq)
<1>. DEFINE n  == [s EXCEPT !.blocking = Blocked(s.barrier, s.unavailable)]
            go == IF IsHandoff(n) THEN ReadSource(n) ELSE Dispatch(n)
<1>1. SameStage(s, n)
  BY DEF SameStage, Frozen, Waits, StageFields
<1>2. /\ Waits(n) /\ n.stmt = s.stmt /\ n.routing = s.routing
      /\ n.dispatchRouting = s.dispatchRouting
      /\ n.phase = "waiting" /\ s.phase = "waiting"
      /\ n.submissionPending = FALSE /\ s.submissionPending = FALSE
  <2>. HIDE DEF n
  <2>1. /\ Waits(n) /\ n.stmt = s.stmt /\ n.routing = s.routing
        /\ n.dispatchRouting = s.dispatchRouting
    BY <1>1, SameWaits
  <2>2. \A x : Waits(x) => x.phase = "waiting" /\ x.submissionPending = FALSE
    BY DEF Waits
  <2>. QED  BY <2>1, <2>2
<1>3. Advance(s) =
        IF MustDiscard(n)
        THEN Step(NoStage, <<AppendRecord, Publish("discarded"), RequestSnapshot>>)
        ELSE IF n.blocking # {} \/ n.sourceNeedsCompletion
        THEN Step(n, <<RequestSnapshot>>)
        ELSE Then(go, <<RequestSnapshot>>)
  BY DEF Advance
<1>4. ASSUME NEW t, NEW q, StageStep(n, t, q)
      PROVE  StageStep(s, t, q)
  BY <1>2, <1>4 DEF StageStep
<1>. HIDE DEF n
<1>5. CASE MustDiscard(n)
  <2>. DEFINE q == <<AppendRecord, Publish("discarded"), RequestSnapshot>>
  <2>1. Plain(q)
    BY PlainOnes
  <2>2. \A c \in Classes : ~ Has(q, c) /\ Only(q, c)
    BY <2>1, OnlyIfSeq DEF Plain
  <2>. HIDE DEF q
  <2>3. AllSound(q)
    BY <2>1 DEF Plain
  <2>4. StageStep(s, NoStage, q)
    BY <1>2, <2>2, <2>3, NothingStaged DEF StageStep, Classes
  <2>. QED  BY <1>3, <1>5, <2>4 DEF Step, q
<1>6. CASE ~ MustDiscard(n) /\ (n.blocking # {} \/ n.sourceNeedsCompletion)
  <2>1. StageOK(n)
    BY <1>2, <1>6, WaitingWaits
  <2>2. StageStep(s, n, <<RequestSnapshot>>)
    BY <1>4, <2>1, PlainOnes, StageStays
  <2>. QED  BY <1>3, <1>6, <2>2 DEF Step
<1>7. CASE ~ MustDiscard(n) /\ ~ (n.blocking # {} \/ n.sourceNeedsCompletion)
  <2>1. StageOK(n)
    BY <1>2, <1>7, WaitingWaits
  <2>2. StageStep(n, go.stage, go.seq)
    BY <1>2, <2>1, SourceAsked, DispatchAsked
  <2>. HIDE DEF go
  <2>3. StageStep(go.stage, go.stage, <<RequestSnapshot>>)
    BY <2>2, PlainOnes, StageStays DEF StageStep
  <2>4. StageStep(n, go.stage, go.seq \o <<RequestSnapshot>>)
    BY <2>2, <2>3, StageSteps
  <2>5. StageStep(s, go.stage, go.seq \o <<RequestSnapshot>>)
    BY <1>4, <2>4
  <2>. QED  BY <1>3, <1>7, <2>5 DEF Then, Step
<1>. QED  BY <1>5, <1>6, <1>7

\* handleSessionEvent of the stage.
LEMMA EventStep ==
    ASSUME NEW s, StageOK(s), NEW e
    PROVE  StageStep(s, HandleEvent(s, e).stage, HandleEvent(s, e).seq)
<1>1. CASE s.phase = "dispatching"
  <2>. DEFINE t == [s EXCEPT !.handedOff =
                        @ \/ e = ContextHandoff(s.stmt.from, s.stmt.to)]
  <2>1. HandleEvent(s, e) = Step(t, <<>>)
    BY <1>1 DEF HandleEvent, Ignore
  <2>2. DOMAIN s = StageFields
    BY DEF StageOK
  <2>3. /\ DOMAIN t = StageFields
        /\ \A f \in StageFields \ {"handedOff"} : t[f] = s[f]
    BY <2>2
  <2>. HIDE DEF t
  <2>4. /\ t.stmt = s.stmt /\ t.phase = s.phase /\ t.pending = s.pending
        /\ t.routing = s.routing /\ t.barrier = s.barrier
        /\ t.dispatchRouting = s.dispatchRouting
        /\ t.submissionPending = s.submissionPending
        /\ t.interruptPending = s.interruptPending
    BY <2>3 DEF StageFields
  <2>5. StageOK(t)
    BY <1>1, <2>3, <2>4 DEF StageOK, Frozen
  <2>6. StageStep(t, t, <<>>)
    BY <2>5, PlainOnes, StageStays
  <2>7. StageStep(s, t, <<>>)
    BY <2>4, <2>6, <1>1 DEF StageStep
  <2>. QED  BY <2>1, <2>7 DEF Step
<1>2. CASE s.phase = "waiting" /\ Concerns(s, e)
  <2>. DEFINE o == Observed(s, e)
  <2>1. HandleEvent(s, e) = Advance(o)
    BY <1>2 DEF HandleEvent
  <2>2. Waits(s)
    BY <1>2, WaitingWaits
  <2>3. SameStage(s, o)
    BY <2>2, ObservedSame
  <2>. HIDE DEF o
  <2>4. /\ Waits(o) /\ o.stmt = s.stmt /\ o.routing = s.routing
        /\ o.dispatchRouting = s.dispatchRouting
    BY <2>2, <2>3, SameWaits
  <2>5. StageStep(o, Advance(o).stage, Advance(o).seq)
    BY <2>4, AdvanceStep
  <2>6. o.phase = s.phase /\ o.submissionPending = s.submissionPending
    BY <2>2, <2>4 DEF Waits
  <2>. QED  BY <2>1, <2>4, <2>5, <2>6 DEF StageStep
<1>3. CASE ~ (s.phase = "dispatching") /\ ~ (s.phase = "waiting" /\ Concerns(s, e))
  <2>1. HandleEvent(s, e) = Step(s, <<>>)
    BY <1>3 DEF HandleEvent, Ignore
  <2>2. StageStep(s, s, <<>>)
    BY PlainOnes, StageStays
  <2>. QED  BY <2>1, <2>2 DEF Step
<1>. QED  BY <1>1, <1>2, <1>3

\* A step of the loop that answers nobody and sends nothing.
LoopTook(l, m) ==
    /\ LoopOK(m) /\ m.submissionPending = l.submissionPending
    /\ m.phase = "dispatching" <=> l.phase = "dispatching"

\* Session events, and the loop.
LEMMA LoopEventStep ==
    ASSUME NEW l, LoopOK(l), NEW e
    PROVE  LoopTook(l, LoopEvent(l, e).loop) /\ Plain(LoopEvent(l, e).seq)
<1>1. DOMAIN l = LoopFields
  BY DEF LoopOK
<1>2. LoopTook(l, l)
  BY DEF LoopTook
<1>3. l.phase = "dispatching" => LoopTook(l, [l EXCEPT !.ended = TRUE])
  BY <1>1 DEF LoopTook, LoopOK, LoopFields
<1>4. l.phase = "waiting" => LoopTook(l, NoLoop)
  BY DEF LoopTook, LoopOK, LoopFields, NoLoop
<1>5. l.phase = "waiting" =>
          LoopTook(l, [l EXCEPT !.phase = "evaluating", !.pending = Ref("loop", "shell")])
  BY <1>1 DEF LoopTook, LoopOK, LoopFields, LoopPhases
<1>. HIDE DEF LoopTook
<1>. QED
  BY <1>2, <1>3, <1>4, <1>5, PlainOnes
  DEF LoopEvent, LoopIgnore, LoopStep, Finish

LEMMA FoldFields ==
    ASSUME NEW v, NEW e
    PROVE  /\ Fold(v, e).loop = LoopEvent(v.loop, e).loop
           /\ Fold(v, e).stage = HandleEvent(v.stage, e).stage
           /\ Fold(v, e).seq = v.seq \o LoopEvent(v.loop, e).seq
                                \o HandleEvent(v.stage, e).seq \o <<RequestSnapshot>>
<1>. DEFINE l == LoopEvent(v.loop, e)
            t == HandleEvent(v.stage, e)
            q == v.seq \o l.seq \o t.seq \o <<RequestSnapshot>>
            x == CASE e.kind \in {"stopped", "crashed"} -> v.sources \ {e.alias}
                   [] e.kind = "message" /\ e.visible -> v.sources \cup {e.alias}
                   [] OTHER -> v.sources
<1>1. Fold(v, e) = [loop |-> l.loop, stage |-> t.stage, seq |-> q, sources |-> x]
  BY DEF Fold
<1>2. ASSUME NEW a, NEW b, NEW c, NEW d, NEW f, f = [loop |-> a, stage |-> b, seq |-> c, sources |-> d]
      PROVE  f.loop = a /\ f.stage = b /\ f.seq = c
  BY <1>2
<1>3. /\ Fold(v, e).loop = l.loop /\ Fold(v, e).stage = t.stage /\ Fold(v, e).seq = q
  <2>. HIDE DEF l, t, q, x
  <2>. QED  BY <1>1, <1>2
<1>. QED  BY <1>3

\* A burst of events.
LEMMA BurstStep ==
    ASSUME StageOK(stage), LoopOK(loop), NEW s, IsSeq(s)
    PROVE  /\ StageStep(stage, ApplyEvents(s).stage, ApplyEvents(s).seq)
           /\ LoopTook(loop, ApplyEvents(s).loop)
           /\ s # <<>> => Has(ApplyEvents(s).seq, "snap")
<1>0. Len(s) \in Nat /\ (s # <<>> <=> Len(s) # 0)
  BY SeqFacts
<1>1. PICK w : /\ w[0] = [loop |-> loop, stage |-> stage, sources |-> sources, seq |-> <<>>]
               /\ \A k \in 1 .. Len(s) : w[k] = Fold(w[k - 1], s[k])
               /\ ApplyEvents(s) = w[Len(s)]
  BY EventByEvent
<1>. DEFINE P(k) == /\ StageStep(stage, w[k].stage, w[k].seq)
                    /\ LoopTook(loop, w[k].loop)
                    /\ k # 0 => Has(w[k].seq, "snap")
<1>2. P(0)
  <2>1. StageStep(stage, stage, <<>>) /\ LoopTook(loop, loop)
    BY PlainOnes, StageStays DEF LoopTook
  <2>. QED  BY <1>1, <2>1
<1>3. ASSUME NEW k \in 1 .. Len(s), P(k - 1)
      PROVE  P(k)
  <2>. DEFINE v == w[k - 1]
              e == s[k]
              l == LoopEvent(v.loop, e)
              t == HandleEvent(v.stage, e)
  <2>1. w[k] = Fold(v, e)
    BY <1>1
  <2>2. /\ w[k].loop = l.loop /\ w[k].stage = t.stage
        /\ w[k].seq = v.seq \o l.seq \o t.seq \o <<RequestSnapshot>>
    <3>. HIDE DEF v, e
    <3>1. /\ Fold(v, e).loop = l.loop /\ Fold(v, e).stage = t.stage
          /\ Fold(v, e).seq = v.seq \o l.seq \o t.seq \o <<RequestSnapshot>>
      BY FoldFields
    <3>. HIDE DEF l, t
    <3>. QED  BY <2>1, <3>1
  <2>3. StageStep(stage, v.stage, v.seq) /\ LoopTook(loop, v.loop)
    BY <1>3
  <2>. HIDE DEF v
  <2>4. LoopTook(v.loop, l.loop) /\ Plain(l.seq)
    BY <2>3, LoopEventStep DEF LoopTook
  <2>5. StageStep(v.stage, t.stage, t.seq) /\ StageOK(v.stage)
    BY <2>3, EventStep DEF StageStep
  <2>. HIDE DEF l, t
  <2>6. StageStep(v.stage, v.stage, l.seq)
    BY <2>4, <2>5, StageStays
  <2>7. StageStep(stage, v.stage, v.seq \o l.seq)
    BY <2>3, <2>6, StageSteps
  <2>8. StageStep(stage, t.stage, (v.seq \o l.seq) \o t.seq)
    BY <2>7, <2>5, StageSteps
  <2>9. StageStep(t.stage, t.stage, <<RequestSnapshot>>)
    BY <2>5, PlainOnes, StageStays DEF StageStep
  <2>10. StageStep(stage, t.stage, ((v.seq \o l.seq) \o t.seq) \o <<RequestSnapshot>>)
    BY <2>8, <2>9, StageSteps
  <2>11. Has(((v.seq \o l.seq) \o t.seq) \o <<RequestSnapshot>>, "snap")
    <3>1. IsSeq((v.seq \o l.seq) \o t.seq) /\ IsSeq(<<RequestSnapshot>>)
      BY <2>8, Literals DEF StageStep, AllSound
    <3>. QED  BY <3>1, PlainOnes, CatHas
  <2>12. LoopTook(loop, l.loop)
    BY <2>3, <2>4 DEF LoopTook
  <2>. QED  BY <2>2, <2>10, <2>11, <2>12
<1>4. P(Len(s))
  <2>. DEFINE G == {k \in 0 .. Len(s) : P(k)}
  <2>. HIDE DEF P
  <2>1. 0 \in G /\ \A k \in 1 .. Len(s) : k - 1 \in G => k \in G
    BY <1>0, <1>2, <1>3
  <2>2. Len(s) \in G
    <3>. HIDE DEF G
    <3>. QED  BY <1>0, <2>1, StepByStep
  <2>. QED  BY <2>2
<1>. QED  BY <1>0, <1>1, <1>4

(***************************************************************************)
(* The handlers of completions                                             *)
(***************************************************************************)

\* What an item leads to, by its kind.
LEMMA Kinds ==
    ASSUME NEW x
    PROVE  /\ x.do \in Asks => \A c \in Classes : Is(x, c) <=> c = "plan"
           /\ x.do \in Sources => \A c \in Classes : Is(x, c) <=> c = "source"
           /\ x.do \in Answers => \A c \in Classes : Is(x, c) <=> c = "answer"
           /\ IsPublish(x, {"succeeded", "failed", "rejected", "unknown"}) =>
                  \A c \in Classes : Is(x, c) <=> c = "answer"
           /\ IsPublish(x, {"dispatched"}) => \A c \in Classes : Is(x, c) <=> c = "dispatched"
           /\ x.do \in Requests /\ x.ref = DispatchRef =>
                  \A c \in Classes : Is(x, c) <=> c = "dispatch"
           /\ x.do \in Requests /\ x.ref = LoopRef =>
                  \A c \in Classes : Is(x, c) <=> c = "loop"
           /\ x.do \in Requests /\ x.ref \notin {DispatchRef, LoopRef} =>
                  \A c \in Classes : ~ Is(x, c)
<1>. USE DEF Is, Asks, Sources, Requests, Answers, IsPublish, Classes
<1>1. DispatchRef # LoopRef
  BY DEF DispatchRef, LoopRef, Ref
<1>2. x.do \in Asks => \A c \in Classes : Is(x, c) <=> c = "plan"
  OBVIOUS
<1>3. x.do \in Sources => \A c \in Classes : Is(x, c) <=> c = "source"
  OBVIOUS
<1>4. x.do \in Answers => \A c \in Classes : Is(x, c) <=> c = "answer"
  OBVIOUS
<1>5. IsPublish(x, {"succeeded", "failed", "rejected", "unknown"}) =>
          \A c \in Classes : Is(x, c) <=> c = "answer"
  OBVIOUS
<1>6. IsPublish(x, {"dispatched"}) => \A c \in Classes : Is(x, c) <=> c = "dispatched"
  OBVIOUS
<1>7. x.do \in Requests /\ x.ref = DispatchRef =>
          \A c \in Classes : Is(x, c) <=> c = "dispatch"
  BY <1>1
<1>8. x.do \in Requests /\ x.ref = LoopRef => \A c \in Classes : Is(x, c) <=> c = "loop"
  BY <1>1
<1>9. x.do \in Requests /\ x.ref \notin {DispatchRef, LoopRef} => \A c \in Classes : ~ Is(x, c)
  OBVIOUS
<1>. QED  BY <1>2, <1>3, <1>4, <1>5, <1>6, <1>7, <1>8, <1>9

\* The stage s answers a completion with t and the instructions q; g are those
\* who accepted what it sent.
Concluded(s, t, q, g) ==
    /\ StageOK(t) /\ AllSound(q) /\ \A c \in Classes : Only(q, c)
    /\ ~ Has(q, "loop")
    /\ t.phase = "planning" <=> Has(q, "plan")
    /\ t.phase = "readingSource" <=> Has(q, "source")
    /\ t.phase = "dispatching" <=> Has(q, "dispatch")
    /\ ~ (t.submissionPending /\ Has(q, "answer"))
    /\ s.submissionPending <=> t.submissionPending \/ Has(q, "answer")
    /\ \A k \in DOMAIN q :
           /\ Is(q[k], "plan") => Planned(t, q[k])
           /\ Is(q[k], "dispatch") => q[k].do = "execute" /\ Asked(t, q[k].request) /\ g = {}
           /\ Is(q[k], "dispatched") => g # {} /\ q[k].routing = g
    /\ Has(q, "dispatched") => t.phase = "none"
    /\ g # {} => Has(q, "dispatched")
    /\ t.phase = "planning" => s.phase = "planning" /\ Len(q) = 1
    /\ \/ Has(q, "snap") \/ t.phase \in {"planning", "readingSource", "dispatching"}
       \/ s.phase = "planning" /\ t = NoStage

\* The sequence n is q with plain items before it.
Prefixed(p, q, n) ==
    /\ AllSound(n)
    /\ \A c \in Classes : (Has(n, c) <=> Has(q, c)) /\ (Only(q, c) => Only(n, c))
    /\ Has(n, "snap") <=> Has(p, "snap") \/ Has(q, "snap")
    /\ \A k \in DOMAIN n : \/ \A c \in Classes : ~ Is(n[k], c)
                           \/ \E j \in DOMAIN q : n[k] = q[j]

\* Plain items before a sequence change nothing that anybody waits for.
LEMMA PlainBefore ==
    ASSUME NEW p, NEW q, Plain(p), AllSound(q)
    PROVE  Prefixed(p, q, p \o q)
<1>1. IsSeq(p) /\ IsSeq(q) /\ AllSound(p) /\ \A c \in Classes : ~ Has(p, c)
  BY DEF Plain, AllSound
<1>2. AllSound(p \o q)
  BY <1>1, CatSound
<1>3. \A c : Has(p \o q, c) <=> Has(p, c) \/ Has(q, c)
  BY <1>1, CatHas
<1>4. \A c \in Classes : Only(q, c) => Only(p \o q, c)
  <2>1. \A c \in Classes : Only(p, c)
    BY <1>1, OnlyIfSeq
  <2>. QED  BY <1>1, <2>1, CatHas
<1>5. ASSUME NEW k \in DOMAIN (p \o q)
      PROVE  \/ \A c \in Classes : ~ Is((p \o q)[k], c)
             \/ \E j \in DOMAIN q : (p \o q)[k] = q[j]
  <2>1. \/ k \in DOMAIN p /\ (p \o q)[k] = p[k]
        \/ \E j \in DOMAIN q : (p \o q)[k] = q[j]
    BY <1>1, CatItems
  <2>. QED  BY <1>1, <2>1 DEF Has
<1>. QED  BY <1>1, <1>2, <1>3, <1>4, <1>5 DEF Prefixed

LEMMA ConcludedBefore ==
    ASSUME NEW s, NEW t, NEW p, NEW q, NEW g, Plain(p), Concluded(s, t, q, g),
           t.phase # "planning"
    PROVE  Concluded(s, t, p \o q, g)
<1>1. AllSound(q)
  BY DEF Concluded
<1>. DEFINE n == p \o q
<1>2. Prefixed(p, q, n)
  BY <1>1, PlainBefore
<1>. HIDE DEF n
<1>3. ASSUME NEW k \in DOMAIN n
      PROVE  /\ Is(n[k], "plan") => Planned(t, n[k])
             /\ Is(n[k], "dispatch") => n[k].do = "execute" /\ Asked(t, n[k].request) /\ g = {}
             /\ Is(n[k], "dispatched") => g # {} /\ n[k].routing = g
  <2>1. CASE \A c \in Classes : ~ Is(n[k], c)
    BY <2>1 DEF Classes
  <2>2. CASE \E j \in DOMAIN q : n[k] = q[j]
    BY <2>2 DEF Concluded
  <2>. QED  BY <2>1, <2>2, <1>2 DEF Prefixed
<1>4. Concluded(s, t, n, g)
  BY <1>2, <1>3 DEF Prefixed, Concluded, Classes
<1>. QED  BY <1>4 DEF n

\* handleSharedSendPlan, handleBroadcastPlan.
LEMMA PlanHandled ==
    ASSUME NEW s, StageOK(s), s.phase = "planning", NEW targets, targets \subseteq Alias,
           Planned(s, PlanDone(targets))
    PROVE  Concluded(s, HandlePlan(s, targets).stage, HandlePlan(s, targets).seq, {})
<1>. DEFINE t == [s EXCEPT !.routing = targets]
            i == ReadParticipants
<1>1. HandlePlan(s, targets) = Step(t, <<i>>)
  BY DEF HandlePlan, Matches, Pending, StageOK
<1>2. /\ DOMAIN t = StageFields /\ t.phase = "planning" /\ t.pending = s.pending
      /\ t.stmt = s.stmt /\ t.routing = targets /\ t.barrier = s.barrier
      /\ t.interruptPending = s.interruptPending
      /\ t.submissionPending = s.submissionPending
  BY DEF StageOK, StageFields
<1>3. Planned(t, i)
  BY <1>2 DEF Planned, PlanDone, ReadParticipants, StageOK, StatementOK
<1>. HIDE DEF t
<1>4. StageOK(t)
  BY <1>2 DEF StageOK, Frozen
<1>5. Sound(i) /\ \A c \in Classes : Is(i, c) <=> c = "plan"
  BY Kinds DEF ReadParticipants, Sound, Asks, Requests
<1>. HIDE DEF i
<1>6. /\ AllSound(<<i>>) /\ DOMAIN <<i>> = {1} /\ <<i>>[1] = i /\ Len(<<i>>) = 1
      /\ \A c \in Classes : Only(<<i>>, c) /\ (Has(<<i>>, c) <=> c = "plan")
  BY <1>5, Literals
<1>7. Concluded(s, t, <<i>>, {})
  BY <1>2, <1>3, <1>4, <1>5, <1>6 DEF Concluded, Classes
<1>. QED  BY <1>1, <1>7 DEF Step

LEMMA Two ==
    ASSUME NEW a, NEW b
    PROVE  <<a>> \o <<b>> = <<a, b>>
<1>. DEFINE S == {a, b}
            n == <<a>> \o <<b>>
<1>1. <<a>> \in Seq(S) /\ <<b>> \in Seq(S) /\ <<a, b>> \in Seq(S)
  OBVIOUS
<1>2. /\ Len(<<a>>) = 1 /\ Len(<<b>>) = 1 /\ Len(<<a, b>>) = 2
      /\ <<a>>[1] = a /\ <<b>>[1] = b /\ <<a, b>>[1] = a /\ <<a, b>>[2] = b
  OBVIOUS
<1>3. n \in Seq(S) /\ Len(n) = 2 /\ n[1] = a /\ n[2] = b
  <2>. HIDE DEF S
  <2>. QED  BY <1>1, <1>2
<1>. HIDE DEF n, S
<1>4. n = <<a, b>>
  BY <1>1, <1>2, <1>3
<1>. QED  BY <1>4 DEF n

LEMMA StepParts ==
    ASSUME NEW a, NEW b
    PROVE  Step(a, b).stage = a /\ Step(a, b).seq = b
  BY DEF Step

\* Concluding without anything left to do.
LEMMA AnswerOne ==
    ASSUME NEW what \in {"succeeded", "failed", "rejected", "unknown"}
    PROVE  /\ AllSound(<<Publish(what)>>)
           /\ \A c \in Classes : Only(<<Publish(what)>>, c) /\ (Has(<<Publish(what)>>, c) <=> c = "answer")
<1>1. Sound(Publish(what)) /\ IsPublish(Publish(what), {"succeeded", "failed", "rejected", "unknown"})
  BY DEF Publish, Sound, IsPublish, Requests
<1>2. \A c \in Classes : Is(Publish(what), c) <=> c = "answer"
  BY <1>1, Kinds
<1>. QED  BY <1>1, <1>2, Literals

LEMMA AnswerConcludes ==
    ASSUME NEW s, NEW t, NEW what \in {"succeeded", "failed", "rejected", "unknown"},
           StageOK(t), s.submissionPending = TRUE, t.submissionPending = FALSE,
           t.phase \in {"none", "waiting"}
    PROVE  LET q == <<Publish(what)>>
           IN  (t = NoStage /\ s.phase = "planning" => Concluded(s, t, q, {}))
               /\ Concluded(s, t, <<RequestSnapshot>> \o q, {})
<1>. DEFINE q == <<Publish(what)>>
<1>1. AllSound(q) /\ \A c \in Classes : Only(q, c) /\ (Has(q, c) <=> c = "answer")
  BY AnswerOne
<1>. HIDE DEF q
<1>2. \A k \in DOMAIN q : ~ Is(q[k], "plan") /\ ~ Is(q[k], "dispatch") /\ ~ Is(q[k], "dispatched")
  BY <1>1 DEF Has, Classes
<1>3. t = NoStage /\ s.phase = "planning" => Concluded(s, t, q, {})
  BY <1>1, <1>2 DEF Concluded, Classes
<1>4. Concluded(s, t, <<RequestSnapshot>> \o q, {})
  <2>. DEFINE p == <<RequestSnapshot>>
              n == p \o q
  <2>1. Plain(p) /\ Has(p, "snap")
    BY PlainOnes
  <2>2. Prefixed(p, q, n)
    BY <1>1, <2>1, PlainBefore
  <2>. HIDE DEF p, n
  <2>3. \A k \in DOMAIN n : ~ Is(n[k], "plan") /\ ~ Is(n[k], "dispatch") /\ ~ Is(n[k], "dispatched")
    BY <1>2, <2>2 DEF Prefixed, Classes
  <2>4. Concluded(s, t, n, {})
    BY <1>1, <2>1, <2>2, <2>3 DEF Concluded, Prefixed, Classes
  <2>. QED  BY <2>4 DEF n, p
<1>. QED  BY <1>3, <1>4 DEF q

\* completeParticipantPlanning: it fails, waits, reads the source or dispatches.
LEMMA PlanningCompletes ==
    ASSUME NEW s, s.phase = "planning", s.submissionPending = TRUE,
           NEW t, DOMAIN t = StageFields, t.phase = "planning", t.submissionPending = TRUE,
           t.pending = Ref("stage", "plan"), StatementOK(t.stmt), t.routing \subseteq Alias, Frozen(t) \subseteq Alias,
           t.interruptPending \subseteq Alias,
           t.stmt.kind = "send" => t.stmt.to \in t.routing,
           t.stmt.kind = "handoff" => t.routing = {t.stmt.from, t.stmt.to}
    PROVE  Concluded(s, CompletePlanning(t).stage, CompletePlanning(t).seq, {})
<1>. DEFINE p == <<PublishTo("accepted", t.routing)>>
            c == CompletePlanning(t)
<1>0. Plain(p)
  <2>1. Telling(PublishTo("accepted", t.routing))
    BY DEF Telling, PublishTo
  <2>. QED  BY <2>1, TellingIsPlain
<1>. HIDE DEF p
<1>1. CASE t.routing = {} \/ MustDiscard(t)
  <2>1. c = Step(NoStage, <<Publish("failed")>>)
    BY <1>1 DEF CompletePlanning
  <2>2. Concluded(s, NoStage, <<Publish("failed")>>, {})
    BY NothingStaged, AnswerConcludes
  <2>. QED  BY <2>1, <2>2 DEF Step
<1>2. CASE ~ (t.routing = {} \/ MustDiscard(t))
  <2>1. Addressed(t)
    BY <1>2 DEF Addressed
  <2>2. Due(t)
    BY <2>1 DEF Due
  <2>. DEFINE x == IF t.blocking # {} \/ t.sourceNeedsCompletion THEN Wait(t)
                   ELSE IF IsHandoff(t) THEN ReadSource(t) ELSE Dispatch(t)
  <2>3. c = Step(x.stage, p \o x.seq)
    BY <1>2 DEF CompletePlanning, Before, p
  <2>4. Concluded(s, x.stage, x.seq, {}) /\ x.stage.phase # "planning"
    <3>1. CASE t.blocking # {} \/ t.sourceNeedsCompletion
      <4>. DEFINE w == [t EXCEPT !.phase = "waiting", !.submissionPending = FALSE]
      <4>1. x = Step(w, <<RequestSnapshot, Publish("succeeded")>>)
        BY <3>1 DEF Wait
      <4>2. /\ DOMAIN w = StageFields /\ w.phase = "waiting" /\ w.submissionPending = FALSE
            /\ w.stmt = t.stmt /\ w.pending = t.pending /\ w.routing = t.routing /\ w.barrier = t.barrier
            /\ w.unavailable = t.unavailable
            /\ w.interruptPending = t.interruptPending
        BY DEF StageFields
      <4>. HIDE DEF w
      <4>3. Addressed(w)
        BY <2>1, <4>2 DEF Addressed, MustDiscard, ActiveAliases
      <4>4. StageOK(w)
        BY <4>2, <4>3 DEF StageOK, StagePhases, Frozen
      <4>5. Concluded(s, w, <<RequestSnapshot>> \o <<Publish("succeeded")>>, {})
        BY <4>2, <4>4, AnswerConcludes
      <4>6. <<RequestSnapshot>> \o <<Publish("succeeded")>> = <<RequestSnapshot, Publish("succeeded")>>
        BY Two
      <4>7. x.stage = w /\ x.seq = <<RequestSnapshot, Publish("succeeded")>>
        BY <4>1, StepParts
      <4>. HIDE DEF x
      <4>. QED  BY <4>2, <4>5, <4>6, <4>7
    <3>2. CASE ~ (t.blocking # {} \/ t.sourceNeedsCompletion) /\ IsHandoff(t)
      <4>. DEFINE u == ReadSource(t).stage
                  q == ReadSource(t).seq
      <4>1. /\ StageOK(u) /\ u.phase = "readingSource" /\ u.submissionPending = TRUE
            /\ AllSound(q)
            /\ \A k \in Classes : Only(q, k) /\ (Has(q, k) <=> k = "source")
        BY <2>2, <3>2, SourceMade
      <4>. HIDE DEF u, q
      <4>2. \A k \in DOMAIN q : ~ Is(q[k], "plan") /\ ~ Is(q[k], "dispatch") /\ ~ Is(q[k], "dispatched")
        BY <4>1 DEF Has, Classes
      <4>3. Concluded(s, u, q, {}) /\ u.phase # "planning"
        BY <4>1, <4>2 DEF Concluded, Classes
      <4>. QED  BY <3>2, <4>3 DEF u, q
    <3>3. CASE ~ (t.blocking # {} \/ t.sourceNeedsCompletion) /\ ~ IsHandoff(t)
      <4>. DEFINE u == Dispatch(t).stage
                  q == Dispatch(t).seq
      <4>1. /\ StageOK(u) /\ u.phase = "dispatching" /\ u.submissionPending = TRUE
            /\ AllSound(q)
            /\ \A k \in Classes : Only(q, k) /\ (Has(q, k) <=> k = "dispatch")
            /\ \A k \in DOMAIN q : q[k].do = "execute" /\ Asked(u, q[k].request)
        BY <2>2, <3>3, DispatchMade
      <4>. HIDE DEF u, q
      <4>2. \A k \in DOMAIN q : ~ Is(q[k], "plan") /\ ~ Is(q[k], "dispatched")
        BY <4>1 DEF Has, Classes
      <4>3. Concluded(s, u, q, {}) /\ u.phase # "planning"
        BY <4>1, <4>2 DEF Concluded, Classes
      <4>. QED  BY <3>3, <4>3 DEF u, q
    <3>. QED  BY <3>1, <3>2, <3>3
  <2>. HIDE DEF x, c
  <2>5. Concluded(s, x.stage, p \o x.seq, {})
    BY <1>0, <2>4, ConcludedBefore
  <2>. QED  BY <2>3, <2>5 DEF Step, c
<1>. QED  BY <1>1, <1>2

\* handleParticipantState.
LEMMA ParticipantsHandled ==
    ASSUME NEW s, StageOK(s), s.phase = "planning", NEW seen, DOMAIN seen \subseteq Alias,
           s.stmt.kind = "send" => s.stmt.to \in s.routing
    PROVE  Concluded(s, HandleParticipants(s, seen).stage, HandleParticipants(s, seen).seq, {})
<1>. DEFINE routing == IF IsHandoff(s) THEN {s.stmt.from, s.stmt.to} ELSE s.routing
            barrier == FreezeBarrier([s EXCEPT !.routing = routing], seen)
            gone    == {a \in routing : \/ a \notin DOMAIN barrier
                                        \/ barrier[a].status = "crashed"}
            needs   == /\ IsHandoff(s)
                       /\ s.stmt.from \in DOMAIN barrier
                       /\ HasActiveTurn(barrier[s.stmt.from])
            t == [s EXCEPT !.routing = routing, !.barrier = barrier, !.unavailable = gone,
                           !.blocking = Blocked(barrier, gone),
                           !.sourceNeedsCompletion = needs]
<1>1. HandleParticipants(s, seen) = CompletePlanning(t)
  <2>1. Matches(s, Ref("stage", "plan"))
    BY DEF Matches, Pending, StageOK
  <2>. QED  BY <2>1 DEF HandleParticipants
<1>2. /\ routing \subseteq Alias /\ StatementOK(s.stmt)
      /\ s.stmt.kind = "send" => s.stmt.to \in routing
      /\ s.stmt.kind = "handoff" => routing = {s.stmt.from, s.stmt.to}
  BY DEF StageOK, StatementOK, IsHandoff
<1>3. DOMAIN barrier \subseteq Alias
  BY DEF FreezeBarrier
<1>. HIDE DEF routing, barrier, gone, needs
<1>4. /\ DOMAIN t = StageFields /\ t.phase = "planning" /\ t.submissionPending = TRUE
      /\ t.stmt = s.stmt /\ t.routing = routing /\ t.barrier = barrier
      /\ t.pending = Ref("stage", "plan")
      /\ t.interruptPending = s.interruptPending
      /\ s.submissionPending = TRUE /\ s.interruptPending \subseteq Alias
  BY DEF StageOK, StageFields
<1>. HIDE DEF t
<1>5. Concluded(s, CompletePlanning(t).stage, CompletePlanning(t).seq, {})
  BY <1>2, <1>3, <1>4, PlanningCompletes DEF Frozen
<1>. QED  BY <1>1, <1>5

LEMMA PlainConcludes ==
    ASSUME NEW s, NEW q, Plain(q), Has(q, "snap"), s.submissionPending = FALSE
    PROVE  Concluded(s, NoStage, q, {})
<1>1. \A c \in Classes : ~ Has(q, c) /\ Only(q, c)
  BY OnlyIfSeq DEF Plain
<1>2. \A k \in DOMAIN q : ~ Is(q[k], "plan") /\ ~ Is(q[k], "dispatch") /\ ~ Is(q[k], "dispatched")
  BY <1>1 DEF Has, Classes
<1>. QED  BY <1>1, <1>2, NothingStaged DEF Concluded, Plain, Classes

\* The source was read, or not.
LEMMA SourceHandled ==
    ASSUME NEW s, StageOK(s), s.phase = "readingSource", NEW ok
    PROVE  Concluded(s, HandleSource(s, ok).stage, HandleSource(s, ok).seq, {})
<1>. DEFINE failure == IF s.submissionPending THEN "failed" ELSE "operationFailed"
            active  == ActiveAliases(s)
            request == Request("handoff", s.stmt.to, Frozen(s) \ s.unavailable)
            t == [s EXCEPT !.phase = "dispatching", !.dispatchRouting = active,
                           !.pending = DispatchRef]
            i == ExecuteRecording(DispatchRef, request, active)
<1>1. HandleSource(s, ok) = IF ~ ok THEN Step(NoStage, <<RequestSnapshot, Publish(failure)>>)
                                    ELSE Step(t, <<i>>)
  <2>1. Matches(s, Ref("stage", "source"))
    BY DEF Matches, Pending, StageOK
  <2>. QED  BY <2>1 DEF HandleSource, DispatchRef
<1>2. CASE ~ ok
  <2>1. <<RequestSnapshot, Publish(failure)>> = <<RequestSnapshot>> \o <<Publish(failure)>>
    BY Two
  <2>2. CASE s.submissionPending = TRUE
    <3>1. Concluded(s, NoStage, <<RequestSnapshot>> \o <<Publish("failed")>>, {})
      BY <2>2, NothingStaged, AnswerConcludes
    <3>2. failure = "failed"
      BY <2>2
    <3>. HIDE DEF failure
    <3>3. HandleSource(s, ok) = Step(NoStage, <<RequestSnapshot>> \o <<Publish("failed")>>)
      BY <1>1, <1>2, <2>1, <3>2
    <3>. QED  BY <3>1, <3>3, StepParts
  <2>3. CASE s.submissionPending = FALSE
    <3>. DEFINE r == <<Publish("operationFailed")>>
    <3>1. Plain(r)
      <4>1. Telling(Publish("operationFailed"))
        BY DEF Telling, Publish
      <4>. QED  BY <4>1, TellingIsPlain
    <3>2. Plain(<<RequestSnapshot>>) /\ Has(<<RequestSnapshot>>, "snap")
      BY PlainOnes
    <3>. DEFINE n == <<RequestSnapshot>> \o r
    <3>3. Plain(n)
      BY <3>1, <3>2, PlainCat
    <3>4. Has(n, "snap")
      BY <3>1, <3>2, CatHas DEF Plain, AllSound
    <3>5. Concluded(s, NoStage, n, {})
      <4>. HIDE DEF n
      <4>. QED  BY <2>3, <3>3, <3>4, PlainConcludes
    <3>6. failure = "operationFailed"
      BY <2>3
    <3>. HIDE DEF failure
    <3>7. HandleSource(s, ok) = Step(NoStage, n)
      BY <1>1, <1>2, <2>1, <3>6
    <3>. HIDE DEF n
    <3>. QED  BY <3>5, <3>7, StepParts
  <2>. QED  BY <2>2, <2>3 DEF StageOK
<1>3. CASE ok
  <2>1. /\ IsHandoff(s) /\ StatementOK(s.stmt) /\ DOMAIN s = StageFields
        /\ s.routing = {s.stmt.from, s.stmt.to} /\ s.stmt.kind = "handoff"
        /\ active = {s.stmt.from, s.stmt.to} /\ active \subseteq Alias /\ active # {}
    BY DEF StageOK, Addressed, MustDiscard, ActiveAliases, IsHandoff, StatementOK
  <2>. HIDE DEF active
  <2>2. /\ DOMAIN t = StageFields /\ t.phase = "dispatching" /\ t.dispatchRouting = active
        /\ t.pending = DispatchRef /\ t.stmt = s.stmt /\ t.routing = s.routing
        /\ t.barrier = s.barrier /\ t.interruptPending = s.interruptPending
        /\ t.submissionPending = s.submissionPending
    BY <2>1 DEF StageFields
  <2>. HIDE DEF t
  <2>3. StageOK(t)
    BY <2>1, <2>2 DEF StageOK, StagePhases, Frozen
  <2>4. Asked(t, request)
    BY <2>1, <2>2 DEF Asked, Request
  <2>5. /\ i.do = "execute" /\ i.ref = DispatchRef /\ i.request = request
        /\ request.kind = "handoff"
    BY DEF Execute, ExecuteRecording, Request
  <2>. HIDE DEF i, request
  <2>6. Sound(i)
    BY <2>5 DEF Sound, Asks, Sources, Requests, Answers, Shows, Refs
  <2>7. \A c \in Classes : Is(i, c) <=> c = "dispatch"
    BY <2>5, Kinds DEF Requests
  <2>8. /\ AllSound(<<i>>) /\ DOMAIN <<i>> = {1} /\ <<i>>[1] = i
        /\ \A c \in Classes : Only(<<i>>, c) /\ (Has(<<i>>, c) <=> c = "dispatch")
    BY <2>6, <2>7, Literals
  <2>9. Concluded(s, t, <<i>>, {})
    BY <2>2, <2>3, <2>4, <2>5, <2>7, <2>8 DEF Concluded, Classes
  <2>. QED  BY <1>1, <1>3, <2>9 DEF Step
<1>. QED  BY <1>2, <1>3

\* Items that answer or report, and name those in g.
Reports(q, g) ==
    /\ AllSound(q)
    /\ \A c \in {"plan", "source", "dispatch", "loop"} : ~ Has(q, c)
    /\ \A k \in DOMAIN q : Is(q[k], "dispatched") => q[k].routing = g

LEMMA ReportsCat ==
    ASSUME NEW p, NEW q, NEW g, Reports(p, g), Reports(q, g)
    PROVE  Reports(p \o q, g)
<1>1. AllSound(p) /\ AllSound(q) /\ IsSeq(p) /\ IsSeq(q)
  BY DEF Reports, AllSound
<1>2. AllSound(p \o q)
  BY <1>1, CatSound
<1>3. \A c : Has(p \o q, c) <=> Has(p, c) \/ Has(q, c)
  BY <1>1, CatHas
<1>4. ASSUME NEW k \in DOMAIN (p \o q), Is((p \o q)[k], "dispatched")
      PROVE  (p \o q)[k].routing = g
  <2>1. \/ k \in DOMAIN p /\ (p \o q)[k] = p[k]
        \/ \E j \in DOMAIN q : (p \o q)[k] = q[j]
    BY <1>1, CatItems
  <2>. QED  BY <1>4, <2>1 DEF Reports
<1>. QED  BY <1>2, <1>3, <1>4 DEF Reports

LEMMA PlainReports ==
    ASSUME NEW q, Plain(q), NEW g
    PROVE  Reports(q, g) /\ \A c \in Classes : ~ Has(q, c) /\ Only(q, c)
<1>1. \A c \in Classes : ~ Has(q, c) /\ Only(q, c)
  BY OnlyIfSeq DEF Plain
<1>. QED  BY <1>1 DEF Reports, Plain, Classes, Has

\* stageDispatchRecordSequence names those who accepted the input.
LEMMA RecordMade ==
    ASSUME NEW s, NEW done, NEW g, g = DeliveredTo(s, done)
    PROVE  LET q == DispatchRecord(s, done)
           IN  /\ Reports(q, g) /\ Has(q, "snap") /\ ~ Has(q, "answer")
               /\ Only(q, "dispatched") /\ (Has(q, "dispatched") <=> g # {})
<1>. DEFINE A == IF g # {} /\ ~ done.recorded THEN <<AppendInput(g)>> ELSE <<>>
            D == IF g # {} THEN <<PublishTo("dispatched", g)>> ELSE <<>>
            H == IF s.handedOff /\ ~ done.err THEN <<Publish("handoff")>> ELSE <<>>
            R == <<RequestSnapshot>>
<1>1. DispatchRecord(s, done) = R \o A \o D \o H
  BY DEF DispatchRecord
<1>2. Plain(A)
  <2>1. Telling(AppendInput(g))
    BY DEF Telling, AppendInput
  <2>. QED  BY <2>1, TellingIsPlain, PlainOnes
<1>3. Plain(H)
  <2>1. Telling(Publish("handoff"))
    BY DEF Telling, Publish
  <2>. QED  BY <2>1, TellingIsPlain, PlainOnes
<1>4. Plain(R) /\ Has(R, "snap")
  BY PlainOnes
<1>5. /\ Reports(D, g) /\ ~ Has(D, "answer") /\ Only(D, "dispatched")
      /\ Has(D, "dispatched") <=> g # {}
  <2>. DEFINE i == PublishTo("dispatched", g)
  <2>1. CASE g = {}
    <3>1. D = <<>>
      BY <2>1
    <3>2. Reports(<<>>, g) /\ \A c \in Classes : ~ Has(<<>>, c) /\ Only(<<>>, c)
      BY PlainOnes, PlainReports
    <3>. QED  BY <3>1, <3>2, <2>1 DEF Classes
  <2>2. CASE g # {}
    <3>1. IsPublish(i, {"dispatched"}) /\ Sound(i) /\ i.routing = g
      BY DEF PublishTo, IsPublish, Sound, Requests
    <3>2. D = <<i>>
      BY <2>2
    <3>. HIDE DEF i, D
    <3>3. \A c \in Classes : Is(i, c) <=> c = "dispatched"
      BY <3>1, Kinds
    <3>4. /\ AllSound(<<i>>) /\ DOMAIN <<i>> = {1} /\ <<i>>[1] = i
          /\ \A c \in Classes : Only(<<i>>, c) /\ (Has(<<i>>, c) <=> c = "dispatched")
      BY <3>1, <3>3, Literals
    <3>. QED  BY <2>2, <3>1, <3>2, <3>3, <3>4 DEF Reports, Classes
  <2>. QED  BY <2>1, <2>2
<1>. HIDE DEF A, D, H, R
<1>6. Plain(R \o A)
  BY <1>2, <1>4, PlainCat
<1>7. Reports(R \o A, g) /\ Reports(H, g)
  BY <1>3, <1>6, PlainReports
<1>8. Reports((R \o A) \o D, g)
  BY <1>5, <1>7, ReportsCat
<1>9. Reports(((R \o A) \o D) \o H, g)
  BY <1>7, <1>8, ReportsCat
<1>10. /\ IsSeq(R) /\ IsSeq(A) /\ IsSeq(R \o A) /\ IsSeq(D) /\ IsSeq((R \o A) \o D) /\ IsSeq(H)
  BY <1>2, <1>3, <1>4, <1>5, <1>6, <1>8 DEF Plain, Reports, AllSound
<1>11. /\ \A c : Has(R \o A, c) <=> Has(R, c) \/ Has(A, c)
       /\ \A c : Has((R \o A) \o D, c) <=> Has(R \o A, c) \/ Has(D, c)
       /\ \A c : Has(((R \o A) \o D) \o H, c) <=> Has((R \o A) \o D, c) \/ Has(H, c)
  BY <1>10, CatHas
<1>12. /\ ~ Has(R \o A, "answer") /\ ~ Has(R \o A, "dispatched") /\ Only(R \o A, "dispatched")
       /\ ~ Has(H, "answer") /\ ~ Has(H, "dispatched") /\ Only(H, "dispatched")
  BY <1>3, <1>6, OnlyIfSeq DEF Plain, Classes
<1>13. Only((R \o A) \o D, "dispatched")
  BY <1>5, <1>10, <1>12, CatHas
<1>14. Only(((R \o A) \o D) \o H, "dispatched")
  BY <1>10, <1>12, <1>13, CatHas
<1>. QED  BY <1>1, <1>4, <1>5, <1>9, <1>11, <1>12, <1>14

\* The completion of the dispatch ends the stage, and answers once.
LEMMA DispatchHandled ==
    ASSUME NEW s, StageOK(s), s.phase = "dispatching",
           NEW done, done.ref = DispatchRef
    PROVE  Concluded(s, HandleSessionDone(s, done).stage, HandleSessionDone(s, done).seq,
                     DeliveredTo(s, done))
<1>. DEFINE g == DeliveredTo(s, done)
            D == DispatchRecord(s, done)
            O == DispatchOutcome(s, done)
<1>1. HandleSessionDone(s, done) = Step(NoStage, D \o O)
  <2>1. done.ref.alias \notin s.interruptPending
    BY WorkflowsAssumption DEF StageOK, DispatchRef, Ref
  <2>2. Matches(s, done.ref)
    BY DEF StageOK, Matches, Pending
  <2>. QED  BY <2>1, <2>2 DEF HandleSessionDone
<1>2. /\ Reports(D, g) /\ Has(D, "snap") /\ ~ Has(D, "answer")
      /\ Only(D, "dispatched") /\ (Has(D, "dispatched") <=> g # {})
  BY RecordMade
<1>3. /\ Reports(O, g) /\ ~ Has(O, "dispatched") /\ Only(O, "answer")
      /\ Has(O, "answer") <=> s.submissionPending
  <2>1. s.submissionPending \in BOOLEAN
    BY DEF StageOK
  <2>2. CASE s.submissionPending
    <3>1. \E what \in {"failed", "succeeded"} : O = <<Publish(what)>>
      BY <2>2 DEF DispatchOutcome
    <3>2. PICK what \in {"failed", "succeeded"} : O = <<Publish(what)>>
      BY <3>1
    <3>. HIDE DEF O
    <3>3. AllSound(O) /\ \A c \in Classes : Only(O, c) /\ (Has(O, c) <=> c = "answer")
      BY <3>2, AnswerOne
    <3>. QED  BY <2>2, <3>3 DEF Reports, Classes, Has
  <2>3. CASE ~ s.submissionPending
    <3>1. O = <<Publish("operationFailed")>> \/ O = <<>>
      BY <2>3 DEF DispatchOutcome
    <3>2. Telling(Publish("operationFailed"))
      BY DEF Telling, Publish
    <3>. HIDE DEF O
    <3>3. Plain(O)
      BY <3>1, <3>2, TellingIsPlain, PlainOnes
    <3>4. Reports(O, g) /\ \A c \in Classes : ~ Has(O, c) /\ Only(O, c)
      BY <3>3, PlainReports
    <3>. QED  BY <2>3, <3>4 DEF Classes
  <2>. QED  BY <2>1, <2>2, <2>3
<1>. DEFINE q == D \o O
<1>4. Reports(q, g)
  <2>. HIDE DEF g, D, O
  <2>. QED  BY <1>2, <1>3, ReportsCat
<1>5. /\ \A c : Has(q, c) <=> Has(D, c) \/ Has(O, c)
      /\ \A c : Only(D, c) /\ Only(O, c) /\ ~ (Has(D, c) /\ Has(O, c)) => Only(q, c)
  <2>. HIDE DEF g, D, O
  <2>. QED  BY <1>2, <1>3, CatHas DEF Reports, AllSound
<1>. HIDE DEF g, D, O, q
<1>6. Only(D, "answer") /\ Only(O, "dispatched")
  BY <1>2, <1>3, OnlyIfSeq
<1>7. \A c \in Classes : Only(q, c)
  <2>1. \A c \in {"plan", "source", "dispatch", "loop"} : Only(q, c)
    BY <1>4, OnlyIfSeq DEF Reports
  <2>. QED  BY <1>2, <1>3, <1>5, <1>6, <2>1 DEF Classes
<1>8. \A k \in DOMAIN q : Is(q[k], "dispatched") => g # {} /\ q[k].routing = g
  BY <1>2, <1>3, <1>4, <1>5 DEF Reports, Has
<1>9. \A k \in DOMAIN q : ~ Is(q[k], "plan") /\ ~ Is(q[k], "dispatch")
  BY <1>4 DEF Reports, Has
<1>10. Concluded(s, NoStage, q, g)
  BY <1>2, <1>3, <1>4, <1>5, <1>7, <1>8, <1>9, NothingStaged DEF Concluded, Reports
<1>. QED  BY <1>1, <1>10 DEF Step, g, q

\* The completion of an interrupt leaves the stage as it is.
LEMMA CancelHandled ==
    ASSUME NEW s, StageOK(s), NEW a \in Alias, NEW done, done.ref = CancelRef(a)
    PROVE  LET h == HandleSessionDone(s, done)
           IN  /\ StageStep(s, h.stage, h.seq)
               /\ h.stage = s \/ Has(h.seq, "snap")
<1>. DEFINE left == [s EXCEPT !.interruptPending = @ \ {a}]
            past == [left EXCEPT !.interrupted = @ \cup {a}]
            h    == HandleSessionDone(s, done)
<1>1. done.ref.alias = a
  BY DEF CancelRef
<1>2. CASE a \in s.interruptPending
  <2>1. h = IF done.err THEN Step(left, <<RequestSnapshot, Publish("operationFailed")>>)
                        ELSE Step(past, <<RequestSnapshot>>)
    BY <1>1, <1>2 DEF HandleSessionDone
  <2>2. s.phase # "none" /\ DOMAIN s = StageFields
    BY <1>2 DEF StageOK, NoStage
  <2>3. /\ DOMAIN left = StageFields /\ DOMAIN past = StageFields
        /\ \A f \in StageFields \ {"interruptPending", "interrupted"} :
               left[f] = s[f] /\ past[f] = s[f]
        /\ left.interruptPending = s.interruptPending \ {a}
        /\ past.interruptPending = s.interruptPending \ {a}
    BY <2>2 DEF StageFields
  <2>. HIDE DEF left, past, h
  <2>4. ASSUME NEW t, t = left \/ t = past, NEW q, Plain(q)
        PROVE  StageStep(s, t, q)
    <3>1. /\ DOMAIN t = StageFields
          /\ \A f \in StageFields \ {"interruptPending", "interrupted"} : t[f] = s[f]
          /\ t.interruptPending = s.interruptPending \ {a}
      BY <2>3, <2>4
    <3>2. /\ t.stmt = s.stmt /\ t.phase = s.phase /\ t.pending = s.pending
          /\ t.routing = s.routing /\ t.barrier = s.barrier
          /\ t.unavailable = s.unavailable
          /\ t.dispatchRouting = s.dispatchRouting
          /\ t.submissionPending = s.submissionPending
      BY <3>1 DEF StageFields
    <3>3. Addressed(s) => Addressed(t)
      BY <3>2 DEF Addressed, MustDiscard, ActiveAliases
    <3>4. StageOK(t)
      BY <2>2, <3>1, <3>2, <3>3 DEF StageOK, Frozen
    <3>5. StageStep(t, t, q)
      BY <2>4, <3>4, StageStays
    <3>. QED  BY <3>2, <3>5 DEF StageStep
  <2>5. Plain(<<RequestSnapshot>>) /\ Has(<<RequestSnapshot>>, "snap")
    BY PlainOnes
  <2>6. /\ Plain(<<RequestSnapshot, Publish("operationFailed")>>)
        /\ Has(<<RequestSnapshot, Publish("operationFailed")>>, "snap")
    <3>. DEFINE r == <<Publish("operationFailed")>>
    <3>1. Telling(Publish("operationFailed"))
      BY DEF Telling, Publish
    <3>2. Plain(r)
      BY <3>1, TellingIsPlain
    <3>3. Plain(<<RequestSnapshot>> \o r)
      BY <2>5, <3>2, PlainCat
    <3>4. Has(<<RequestSnapshot>> \o r, "snap")
      BY <2>5, <3>2, CatHas DEF Plain, AllSound
    <3>5. <<RequestSnapshot>> \o r = <<RequestSnapshot, Publish("operationFailed")>>
      BY Two
    <3>. QED  BY <3>3, <3>4, <3>5
  <2>7. CASE done.err
    <3>1. /\ h.stage = left /\ h.seq = <<RequestSnapshot, Publish("operationFailed")>>
      BY <2>1, <2>7, StepParts
    <3>. QED  BY <2>4, <2>6, <3>1 DEF h
  <2>8. CASE ~ done.err
    <3>1. /\ h.stage = past /\ h.seq = <<RequestSnapshot>>
      BY <2>1, <2>8, StepParts
    <3>. QED  BY <2>4, <2>5, <3>1 DEF h
  <2>. QED  BY <2>7, <2>8
<1>3. CASE a \notin s.interruptPending
  <2>1. ~ Matches(s, done.ref)
    BY DEF StageOK, Matches, Pending, CancelRef, Ref, DispatchRef, StagePhases
  <2>2. h = Step(s, <<>>)
    BY <1>1, <1>3, <2>1 DEF HandleSessionDone, Ignore
  <2>3. StageStep(s, s, <<>>)
    BY PlainOnes, StageStays
  <2>. QED  BY <2>2, <2>3, StepParts
<1>. QED  BY <1>2, <1>3

LEMMA CancelsArePlain ==
    ASSUME NEW order \in Seq(Alias)
    PROVE  Plain([k \in DOMAIN order |->
                      ExecuteRecording(CancelRef(order[k]), Request("cancel", order[k], {}), {})])
<1>. DEFINE cancel(a) == ExecuteRecording(CancelRef(a), Request("cancel", a, {}), {})
            q == [k \in DOMAIN order |-> cancel(order[k])]
<1>1. DOMAIN order = 1 .. Len(order) /\ Len(order) \in Nat /\ \A k \in DOMAIN order : order[k] \in Alias
  OBVIOUS
<1>2. ASSUME NEW a \in Alias
      PROVE  Sound(cancel(a)) /\ \A c \in Classes : ~ Is(cancel(a), c)
  <2>1. /\ cancel(a).do = "execute" /\ cancel(a).ref = CancelRef(a)
        /\ cancel(a).request.kind = "cancel"
    BY DEF ExecuteRecording, Execute, Request
  <2>2. CancelRef(a) \in Refs /\ CancelRef(a) \notin {DispatchRef, LoopRef}
    BY DEF Refs, CancelRef, DispatchRef, LoopRef, Ref
  <2>. HIDE DEF cancel
  <2>3. Sound(cancel(a))
    BY <2>1, <2>2 DEF Sound, Asks, Sources, Requests, Answers, Shows
  <2>4. \A c \in Classes : ~ Is(cancel(a), c)
    BY <2>1, <2>2, Kinds DEF Requests
  <2>. QED  BY <2>3, <2>4
<1>. HIDE DEF cancel
<1>3. DOMAIN q = 1 .. Len(order) /\ \A k \in DOMAIN q : q[k] = cancel(order[k])
  BY <1>1
<1>4. q \in Seq({cancel(a) : a \in Alias})
  BY <1>1
<1>5. IsSeq(q)
  <2>. HIDE DEF q
  <2>. QED  BY <1>4, SeqRange
<1>. HIDE DEF q
<1>6. \A k \in DOMAIN q : Sound(q[k]) /\ \A c \in Classes : ~ Is(q[k], c)
  BY <1>1, <1>2, <1>3
<1>7. Plain(q)
  BY <1>5, <1>6 DEF Plain, AllSound, Has
<1>. QED  BY <1>7 DEF q, cancel

\* interruptAndDispatch.
LEMMA InterruptStep ==
    ASSUME NEW s, StageOK(s), s.phase = "waiting", NEW order \in Seq(Alias)
    PROVE  LET h == Interrupt(s, order)
           IN  StageStep(s, h.stage, h.seq) /\ Has(h.seq, "snap")
<1>. DEFINE n == [s EXCEPT !.blocking = Blocked(s.barrier, s.unavailable),
                           !.interruptRequested = TRUE]
            x == [n EXCEPT !.interruptPending = Interruptible(n)]
            cancels == [k \in DOMAIN order |->
                      ExecuteRecording(CancelRef(order[k]), Request("cancel", order[k], {}), {})]
            R == <<RequestSnapshot>>
            go == IF IsHandoff(n) THEN ReadSource(n) ELSE Dispatch(n)
            h == Interrupt(s, order)
<1>1. h = IF n.blocking # {} THEN Step(x, cancels \o R)
          ELSE IF IsHandoff(n) /\ n.sourceNeedsCompletion THEN Step(n, R)
          ELSE Then(go, R)
  BY DEF Interrupt
<1>2. Interruptible(n) \subseteq Alias
  BY DEF Interruptible, StageOK, Frozen, StageFields
<1>3. /\ DOMAIN n = StageFields /\ DOMAIN x = StageFields
      /\ \A f \in StageFields \ {"blocking", "interruptRequested", "interruptPending"} :
             n[f] = s[f] /\ x[f] = s[f]
      /\ n.interruptPending = s.interruptPending /\ x.interruptPending = Interruptible(n)
  BY DEF StageOK, StageFields
<1>. DEFINE them == Interruptible(n)
<1>4. Plain(cancels)
  BY CancelsArePlain
<1>5. Plain(R) /\ Has(R, "snap")
  BY PlainOnes
<1>. HIDE DEF n, x, cancels, R, h, them
<1>6. ASSUME NEW t, t = n \/ t = x
      PROVE  /\ StageOK(t) /\ t.phase = "waiting" /\ t.submissionPending = s.submissionPending
             /\ t.stmt = s.stmt /\ t.routing = s.routing
             /\ t.dispatchRouting = s.dispatchRouting
  <2>1. /\ DOMAIN t = StageFields
        /\ \A f \in StageFields \ {"blocking", "interruptRequested", "interruptPending"} :
               t[f] = s[f]
        /\ t.interruptPending \subseteq Alias
    BY <1>2, <1>3, <1>6 DEF StageOK
  <2>2. /\ t.stmt = s.stmt /\ t.phase = s.phase /\ t.pending = s.pending
        /\ t.routing = s.routing /\ t.barrier = s.barrier
        /\ t.unavailable = s.unavailable
        /\ t.dispatchRouting = s.dispatchRouting
        /\ t.submissionPending = s.submissionPending
    BY <2>1 DEF StageFields
  <2>3. Addressed(s) => Addressed(t)
    BY <2>2 DEF Addressed, MustDiscard, ActiveAliases
  <2>4. StageOK(t)
    BY <2>1, <2>2, <2>3 DEF StageOK, Frozen
  <2>. QED  BY <2>2, <2>4
<1>7. ASSUME NEW t, t = n \/ t = x, NEW u, NEW q, StageStep(t, u, q)
      PROVE  StageStep(s, u, q)
  <2>1. /\ t.phase = s.phase /\ t.submissionPending = s.submissionPending
        /\ t.stmt = s.stmt /\ t.routing = s.routing
        /\ t.dispatchRouting = s.dispatchRouting
    BY <1>6, <1>7
  <2>. QED  BY <1>7, <2>1 DEF StageStep
<1>8. CASE n.blocking # {}
  <2>1. h.stage = x /\ h.seq = cancels \o R
    BY <1>1, <1>8, StepParts
  <2>2. Plain(cancels \o R)
    BY <1>4, <1>5, PlainCat
  <2>3. Has(cancels \o R, "snap")
    BY <1>4, <1>5, CatHas DEF Plain, AllSound
  <2>4. StageStep(x, x, cancels \o R)
    BY <1>6, <2>2, StageStays
  <2>5. StageStep(s, x, cancels \o R)
    BY <1>7, <2>4
  <2>. QED  BY <2>1, <2>3, <2>5 DEF h
<1>9. CASE ~ (n.blocking # {}) /\ IsHandoff(n) /\ n.sourceNeedsCompletion
  <2>1. h.stage = n /\ h.seq = R
    BY <1>1, <1>9, StepParts
  <2>2. StageStep(n, n, R)
    BY <1>5, <1>6, StageStays
  <2>3. StageStep(s, n, R)
    BY <1>7, <2>2
  <2>. QED  BY <1>5, <2>1, <2>3 DEF h
<1>10. CASE ~ (n.blocking # {}) /\ ~ (IsHandoff(n) /\ n.sourceNeedsCompletion)
  <2>1. h.stage = go.stage /\ h.seq = go.seq \o R
    <3>. HIDE DEF go
    <3>. QED  BY <1>1, <1>10, StepParts DEF Then
  <2>2. StageStep(n, go.stage, go.seq)
    BY <1>6, SourceAsked, DispatchAsked
  <2>. HIDE DEF go
  <2>3. StageStep(go.stage, go.stage, R)
    BY <1>5, <2>2, StageStays DEF StageStep
  <2>4. StageStep(n, go.stage, go.seq \o R)
    BY <2>2, <2>3, StageSteps
  <2>5. StageStep(s, go.stage, go.seq \o R)
    BY <1>7, <2>4
  <2>6. Has(go.seq \o R, "snap")
    BY <1>5, <2>2, CatHas DEF StageStep, Plain, AllSound
  <2>. QED  BY <2>1, <2>5, <2>6 DEF h
<1>. QED  BY <1>8, <1>9, <1>10

(***************************************************************************)
(* The loop                                                                *)
(***************************************************************************)

\* Instructions of a loop that m is after them; open says whether the
\* submission of the loop is to be answered.
LoopConcluded(open, m, q) ==
    /\ LoopOK(m) /\ AllSound(q) /\ \A c \in Classes : Only(q, c)
    /\ \A c \in {"plan", "source", "dispatch", "dispatched"} : ~ Has(q, c)
    /\ m.phase = "dispatching" <=> Has(q, "loop")
    /\ ~ (m.submissionPending /\ Has(q, "answer"))
    /\ open <=> m.submissionPending \/ Has(q, "answer")

LEMMA LoopConcludedBefore ==
    ASSUME NEW open, NEW m, NEW p, NEW q, Plain(p), LoopConcluded(open, m, q)
    PROVE  LoopConcluded(open, m, p \o q)
<1>. DEFINE n == p \o q
<1>1. Prefixed(p, q, n)
  BY PlainBefore DEF LoopConcluded
<1>. HIDE DEF n
<1>2. LoopConcluded(open, m, n)
  BY <1>1 DEF LoopConcluded, Prefixed, Classes
<1>. QED  BY <1>2 DEF n

LEMMA LoopPlain ==
    ASSUME NEW m, LoopOK(m), m.phase # "dispatching", NEW q, Plain(q)
    PROVE  LoopConcluded(FALSE, m, q)
<1>1. \A c \in Classes : ~ Has(q, c) /\ Only(q, c)
  BY OnlyIfSeq DEF Plain
<1>. QED  BY <1>1 DEF LoopConcluded, LoopOK, Plain, Classes

LEMMA LoopAnswers ==
    ASSUME NEW m, LoopOK(m), m.phase # "dispatching",
           NEW what \in {"succeeded", "failed", "rejected", "unknown"}
    PROVE  LoopConcluded(TRUE, m, <<Publish(what)>>)
<1>. DEFINE q == <<Publish(what)>>
<1>1. AllSound(q) /\ \A c \in Classes : Only(q, c) /\ (Has(q, c) <=> c = "answer")
  BY AnswerOne
<1>. HIDE DEF q
<1>2. LoopConcluded(TRUE, m, q)
  BY <1>1 DEF LoopConcluded, LoopOK, Classes
<1>. QED  BY <1>2 DEF q

LEMMA LoopSends ==
    ASSUME NEW l, DOMAIN l = LoopFields, l.submissionPending \in BOOLEAN
    PROVE  LoopConcluded(l.submissionPending, LoopDispatch(l).loop, LoopDispatch(l).seq)
<1>. DEFINE m == [l EXCEPT !.phase = "dispatching", !.pending = LoopRef]
            i == Execute(LoopRef, Request("planShared", l.alias, {}))
<1>1. LoopDispatch(l).loop = m /\ LoopDispatch(l).seq = <<i>>
  BY DEF LoopDispatch, LoopStep, LoopRef
<1>2. /\ DOMAIN m = LoopFields /\ m.phase = "dispatching" /\ m.pending = LoopRef
      /\ m.submissionPending = l.submissionPending
  BY DEF LoopFields
<1>. HIDE DEF m
<1>3. LoopOK(m)
  BY <1>2 DEF LoopOK, LoopPhases
<1>4. i.do = "execute" /\ i.ref = LoopRef /\ i.request.kind = "planShared"
  BY DEF Execute, Request
<1>. HIDE DEF i
<1>5. Sound(i)
  BY <1>4 DEF Sound, Asks, Sources, Requests, Answers, Shows, Refs
<1>6. \A c \in Classes : Is(i, c) <=> c = "loop"
  BY <1>4, Kinds DEF Requests
<1>7. AllSound(<<i>>) /\ \A c \in Classes : Only(<<i>>, c) /\ (Has(<<i>>, c) <=> c = "loop")
  BY <1>5, <1>6, Literals
<1>8. LoopConcluded(l.submissionPending, m, <<i>>)
  BY <1>2, <1>3, <1>7 DEF LoopConcluded, Classes
<1>. QED  BY <1>1, <1>8

LEMMA LoopParts ==
    ASSUME NEW a, NEW b
    PROVE  LoopStep(a, b).loop = a /\ LoopStep(a, b).seq = b
  BY DEF LoopStep

LEMMA NoLoopIsOK ==
    LoopOK(NoLoop) /\ NoLoop.phase = "none"
  BY DEF LoopOK, NoLoop, LoopFields, LoopPhases

LEMMA AcceptedIsPlain ==
    Plain(AcceptedInput)
<1>1. Telling(AppendRecord) /\ Telling(Publish("accepted"))
  BY DEF Telling, AppendRecord, Publish
<1>2. Plain(<<AppendRecord>>) /\ Plain(<<Publish("accepted")>>)
  BY <1>1, TellingIsPlain
<1>3. AcceptedInput = <<AppendRecord>> \o <<Publish("accepted")>>
  BY Two DEF AcceptedInput
<1>. QED  BY <1>2, <1>3, PlainCat

\* What a loop answers once, and does not answer before.
LEMMA SuccessAnswers ==
    ASSUME NEW l, l.submissionPending \in BOOLEAN, NEW m, LoopOK(m), m.phase # "dispatching"
    PROVE  LoopConcluded(l.submissionPending, m, LoopStatus \o Success(l))
<1>1. Plain(LoopStatus) /\ Plain(<<>>)
  BY PlainOnes
<1>2. CASE l.submissionPending = TRUE
  <2>1. LoopConcluded(TRUE, m, <<Publish("succeeded")>>)
    BY LoopAnswers
  <2>2. Success(l) = <<Publish("succeeded")>>
    BY <1>2 DEF Success
  <2>3. LoopConcluded(TRUE, m, Success(l))
    BY <2>1, <2>2
  <2>. QED  BY <1>1, <1>2, <2>3, LoopConcludedBefore
<1>3. CASE l.submissionPending = FALSE
  <2>1. LoopConcluded(FALSE, m, <<>>)
    BY <1>1, LoopPlain
  <2>2. Success(l) = <<>>
    BY <1>3 DEF Success
  <2>3. LoopConcluded(FALSE, m, Success(l))
    BY <2>1, <2>2
  <2>. QED  BY <1>1, <1>3, <2>3, LoopConcludedBefore
<1>. QED  BY <1>2, <1>3

\* The completion of a dispatch of the loop.
LEMMA LoopHandled ==
    ASSUME NEW l, LoopOK(l), l.phase = "dispatching", NEW done, done.ref = LoopRef
    PROVE  LET h == LoopSessionDone(l, done)
           IN  LoopConcluded(l.submissionPending, h.loop, h.seq) /\ ~ Has(h.seq, "loop")
<1>. DEFINE h == LoopSessionDone(l, done)
            m == [l EXCEPT !.turns = @ + 1, !.phase = "waiting", !.pending = NoRef,
                           !.submissionPending = FALSE]
            q == LoopStatus \o Success(l)
<1>1. h = IF (done.err /\ l.alias \notin done.delivered) \/ l.ended
          THEN LoopStep(NoLoop, q) ELSE LoopStep(m, q)
  <2>1. LoopMatches(l, done.ref, "dispatching")
    BY DEF LoopMatches, LoopOK
  <2>. QED  BY <2>1 DEF LoopSessionDone, FinishDispatch
<1>2. /\ DOMAIN m = LoopFields /\ m.phase = "waiting" /\ m.submissionPending = FALSE
  BY DEF LoopOK, LoopFields
<1>. HIDE DEF m
<1>3. LoopOK(m)
  BY <1>2 DEF LoopOK, LoopPhases
<1>4. /\ LoopConcluded(l.submissionPending, m, q)
      /\ LoopConcluded(l.submissionPending, NoLoop, q)
  BY <1>2, <1>3, NoLoopIsOK, SuccessAnswers DEF LoopOK
<1>5. ~ Has(q, "loop")
  <2>. HIDE DEF q
  <2>. QED  BY <1>4, NoLoopIsOK DEF LoopConcluded
<1>6. (h.loop = m \/ h.loop = NoLoop) /\ h.seq = q
  <2>. HIDE DEF q
  <2>. QED  BY <1>1, LoopParts
<1>. HIDE DEF h, q
<1>7. LoopConcluded(l.submissionPending, h.loop, h.seq) /\ ~ Has(h.seq, "loop")
  BY <1>4, <1>5, <1>6
<1>. QED  BY <1>7 DEF h

\* start: the loop asks for its first dispatch, or is refused.
LEMMA LoopStarted ==
    ASSUME NEW l, LoopOK(l), l.phase # "dispatching", NEW a, NEW defined
    PROVE  LET h == StartLoop(l, a, defined) IN LoopConcluded(TRUE, h.loop, h.seq)
<1>. DEFINE h == StartLoop(l, a, defined)
            n == [NoLoop EXCEPT !.alias = a, !.submissionPending = TRUE]
            d == LoopDispatch(n)
<1>1. CASE Looping(l) \/ ~ defined
  <2>1. h.loop = l /\ h.seq = AcceptedInput \o <<Publish("failed")>>
    BY <1>1, LoopParts DEF StartLoop
  <2>2. LoopConcluded(TRUE, l, <<Publish("failed")>>)
    BY LoopAnswers
  <2>3. LoopConcluded(TRUE, l, AcceptedInput \o <<Publish("failed")>>)
    BY <2>2, AcceptedIsPlain, LoopConcludedBefore
  <2>. QED  BY <2>1, <2>3
<1>2. CASE ~ (Looping(l) \/ ~ defined)
  <2>1. DOMAIN n = LoopFields /\ n.submissionPending = TRUE
    BY DEF NoLoop, LoopFields
  <2>2. h = LoopStep(d.loop, AcceptedInput \o d.seq)
    BY <1>2 DEF StartLoop
  <2>. HIDE DEF n
  <2>3. LoopConcluded(n.submissionPending, d.loop, d.seq)
    BY <2>1, LoopSends
  <2>. HIDE DEF d
  <2>4. LoopConcluded(TRUE, d.loop, AcceptedInput \o d.seq)
    BY <2>1, <2>3, AcceptedIsPlain, LoopConcludedBefore
  <2>. HIDE DEF h
  <2>5. h.loop = d.loop /\ h.seq = AcceptedInput \o d.seq
    BY <2>2, LoopParts
  <2>. QED  BY <2>4, <2>5 DEF h
<1>. QED  BY <1>1, <1>2

LEMMA LoopAfter ==
    ASSUME NEW m, NEW q, LoopConcluded(FALSE, m, q), NEW r, Plain(r)
    PROVE  LoopConcluded(FALSE, m, q \o r)
<1>1. IsSeq(q) /\ IsSeq(r) /\ AllSound(q) /\ AllSound(r)
  BY DEF LoopConcluded, Plain, AllSound
<1>2. \A c \in Classes : ~ Has(r, c) /\ Only(r, c)
  BY OnlyIfSeq DEF Plain
<1>. DEFINE n == q \o r
<1>3. /\ AllSound(n) /\ \A c : Has(n, c) <=> Has(q, c) \/ Has(r, c)
      /\ \A c : Only(q, c) /\ Only(r, c) /\ ~ (Has(q, c) /\ Has(r, c)) => Only(n, c)
  BY <1>1, CatSound, CatHas
<1>. HIDE DEF n
<1>4. LoopConcluded(FALSE, m, n)
  BY <1>2, <1>3 DEF LoopConcluded, Classes
<1>. QED  BY <1>4 DEF n

\* handleShellCompletion.
LEMMA LoopShellHandled ==
    ASSUME NEW l, LoopOK(l), l.phase # "dispatching", NEW result
    PROVE  LET h == LoopShellDone(l, result) IN LoopConcluded(FALSE, h.loop, h.seq)
<1>. DEFINE seen == <<AppendRecord, Publish("shellCompleted")>>
            cont == result = "failure" /\ l.turns < MaxLoopTurns
            n    == [l EXCEPT !.pending = NoRef]
            x    == IF cont THEN LoopDispatch(n) ELSE LoopStep(NoLoop, LoopStatus)
            h    == LoopShellDone(l, result)
            R    == <<RequestSnapshot>>
<1>1. Plain(seen)
  <2>1. Telling(AppendRecord) /\ Telling(Publish("shellCompleted"))
    BY DEF Telling, AppendRecord, Publish
  <2>2. Plain(<<AppendRecord>>) /\ Plain(<<Publish("shellCompleted")>>)
    BY <2>1, TellingIsPlain
  <2>3. seen = <<AppendRecord>> \o <<Publish("shellCompleted")>>
    BY Two
  <2>. QED  BY <2>2, <2>3, PlainCat
<1>2. h = IF ~ LoopMatches(l, Ref("loop", "shell"), "evaluating") THEN LoopStep(l, seen)
          ELSE LoopStep(x.loop, seen \o x.seq \o R)
  BY DEF LoopShellDone, Finish
<1>3. DOMAIN n = LoopFields /\ n.submissionPending = FALSE
  BY DEF LoopOK, LoopFields
<1>4. LoopConcluded(FALSE, x.loop, x.seq)
  <2>1. CASE cont
    <3>. HIDE DEF n
    <3>1. LoopConcluded(n.submissionPending, LoopDispatch(n).loop, LoopDispatch(n).seq)
      BY <1>3, LoopSends
    <3>2. x = LoopDispatch(n)
      BY <2>1
    <3>. HIDE DEF x
    <3>. QED  BY <1>3, <3>1, <3>2
  <2>2. CASE ~ cont
    <3>1. LoopConcluded(FALSE, NoLoop, LoopStatus)
      BY NoLoopIsOK, PlainOnes, LoopPlain
    <3>2. x = LoopStep(NoLoop, LoopStatus)
      BY <2>2
    <3>. HIDE DEF x
    <3>3. x.loop = NoLoop /\ x.seq = LoopStatus
      BY <3>2, LoopParts
    <3>. QED  BY <3>1, <3>3
  <2>. QED  BY <2>1, <2>2
<1>. HIDE DEF seen, x, h
<1>5. CASE ~ LoopMatches(l, Ref("loop", "shell"), "evaluating")
  <2>1. h.loop = l /\ h.seq = seen
    BY <1>2, <1>5, LoopParts
  <2>2. LoopConcluded(FALSE, l, seen)
    BY <1>1, LoopPlain
  <2>. QED  BY <2>1, <2>2 DEF h
<1>6. CASE LoopMatches(l, Ref("loop", "shell"), "evaluating")
  <2>1. h.loop = x.loop /\ h.seq = (seen \o x.seq) \o R
    BY <1>2, <1>6, LoopParts
  <2>2. LoopConcluded(FALSE, x.loop, seen \o x.seq)
    BY <1>1, <1>4, LoopConcludedBefore
  <2>3. LoopConcluded(FALSE, x.loop, (seen \o x.seq) \o R)
    BY <2>2, PlainOnes, LoopAfter
  <2>. QED  BY <2>1, <2>3 DEF h
<1>. QED  BY <1>5, <1>6

(***************************************************************************)
(* The invariant and the queue of the runner                               *)
(***************************************************************************)

\* The queue q is its head h and the rest r.
Split(q, h, r) ==
    /\ Sound(h) /\ AllSound(r) /\ Len(q) = Len(r) + 1 /\ Len(r) \in Nat
    /\ \A c : /\ Has(q, c) <=> Is(h, c) \/ Has(r, c)
              /\ Only(q, c) => Only(r, c) /\ ~ (Is(h, c) /\ Has(r, c))
    /\ \E k \in DOMAIN q : q[k] = h
    /\ \A k \in DOMAIN r : \E j \in DOMAIN q : r[k] = q[j]

\* The queue n is the items q, then r.
Joined(n, q, r) ==
    /\ AllSound(n) /\ Len(n) = Len(q) + Len(r)
    /\ \A c : /\ Has(n, c) <=> Has(q, c) \/ Has(r, c)
              /\ Only(q, c) /\ Only(r, c) /\ ~ (Has(q, c) /\ Has(r, c)) => Only(n, c)
    /\ \A k \in DOMAIN n : \/ \E j \in DOMAIN q : n[k] = q[j]
                           \/ \E j \in DOMAIN r : n[k] = r[j]

\* Every queue that is not empty has a head.
LEMMA Splits ==
    ASSUME NEW q, AllSound(q), q # <<>>
    PROVE  Split(q, Head(q), Tail(q))
<1>1. IsSeq(q)
  BY DEF AllSound
<1>2. /\ IsSeq(Tail(q)) /\ Len(Tail(q)) = Len(q) - 1
      /\ Head(q) = q[1] /\ 1 \in DOMAIN q
      /\ \A k \in DOMAIN Tail(q) : k + 1 \in DOMAIN q /\ Tail(q)[k] = q[k + 1]
  BY <1>1, Rest
<1>3. Len(q) \in Nat /\ Len(Tail(q)) \in Nat
  BY <1>1, <1>2, SeqFacts
<1>4. AllSound(Tail(q)) /\ Sound(Head(q))
  BY RestSound
<1>5. \A c : /\ Has(q, c) <=> Is(Head(q), c) \/ Has(Tail(q), c)
             /\ Only(q, c) => Only(Tail(q), c) /\ ~ (Is(Head(q), c) /\ Has(Tail(q), c))
  BY <1>1, RestHas
<1>6. \A k \in DOMAIN Tail(q) : \E j \in DOMAIN q : Tail(q)[k] = q[j]
  BY <1>2
<1>7. \E k \in DOMAIN q : q[k] = Head(q)
  BY <1>2
<1>8. Len(q) = Len(Tail(q)) + 1
  BY <1>2, <1>3
<1>. QED  BY <1>3, <1>4, <1>5, <1>6, <1>7, <1>8 DEF Split

\* Items are put before the queue.
LEMMA Joins ==
    ASSUME NEW q, NEW r, AllSound(q), AllSound(r)
    PROVE  Joined(q \o r, q, r)
<1>1. IsSeq(q) /\ IsSeq(r)
  BY DEF AllSound
<1>2. AllSound(q \o r)
  BY CatSound
<1>3. Len(q \o r) = Len(q) + Len(r)
  BY <1>1, Cat
<1>4. \A c : /\ Has(q \o r, c) <=> Has(q, c) \/ Has(r, c)
             /\ Only(q, c) /\ Only(r, c) /\ ~ (Has(q, c) /\ Has(r, c)) => Only(q \o r, c)
  BY <1>1, CatHas
<1>5. ASSUME NEW k \in DOMAIN (q \o r)
      PROVE  \/ \E j \in DOMAIN q : (q \o r)[k] = q[j]
             \/ \E j \in DOMAIN r : (q \o r)[k] = r[j]
  BY <1>1, CatItems
<1>. QED  BY <1>2, <1>3, <1>4, <1>5 DEF Joined

\* Nothing is under way while the runner has nothing to do.
LEMMA Quiescent ==
    ASSUME Shapes, Resting, Flight, Answering, Reporting, ~ running
    PROVE  /\ queue = <<>> /\ call = NoCall /\ ~ snapshotRequested
           /\ stage.phase \in {"none", "waiting"} /\ stage.submissionPending = FALSE
           /\ loop.phase # "dispatching" /\ loop.submissionPending = FALSE
           /\ answers = 1 /\ got = {}
<1>1. queue = <<>> /\ call = NoCall /\ ~ snapshotRequested
  BY DEF Resting
<1>2. \A c : ~ Has(queue, c)
  BY <1>1, Literals
<1>3. call.ref # DispatchRef /\ call.ref # LoopRef
  BY <1>1 DEF NoCall, NoRef, Ref, DispatchRef, LoopRef
<1>4. stage.phase \notin {"planning", "readingSource", "dispatching"} /\ loop.phase # "dispatching"
  BY <1>2, <1>3 DEF Flight
<1>5. stage.phase \in {"none", "waiting"} /\ stage.submissionPending = FALSE
  BY <1>4 DEF Shapes, StageOK, StagePhases, NoStage
<1>6. loop.submissionPending = FALSE
  BY <1>4 DEF Shapes, LoopOK
<1>7. answers = 1
  BY <1>2, <1>5, <1>6 DEF Answering
<1>8. got = {}
  BY <1>2, <1>3 DEF Reporting
<1>. QED  BY <1>1, <1>4, <1>5, <1>6, <1>7, <1>8

\* A step of the workflows that asks for the instructions q.
LEMMA Folded ==
    ASSUME Shapes, Flight, Answering, Reporting, UNCHANGED <<call, answers, got>>,
           NEW q, StageStep(stage, stage', q), LoopTook(loop, loop'),
           \A c \in Classes : Has(queue', c) <=> Has(queue, c) \/ Has(q, c),
           \A c \in Classes : ~ (Has(queue, c) /\ Has(q, c)) => Only(queue', c),
           \A k \in DOMAIN queue' :
               \/ \E j \in DOMAIN queue : queue'[k] = queue[j]
               \/ \E j \in DOMAIN q : queue'[k] = q[j]
               \/ \A c \in {"plan", "dispatch", "dispatched"} : ~ Is(queue'[k], c)
    PROVE  Shapes' /\ Flight' /\ Answering' /\ Reporting'
<1>. DEFINE s == stage
            t == stage'
<1>1. Shapes'
  BY DEF Shapes, StageStep, LoopTook
<1>2. /\ \A c \in {"plan", "answer", "loop", "dispatched"} : Has(queue', c) <=> Has(queue, c)
      /\ Has(queue', "source") <=> Has(queue, "source") \/ Has(q, "source")
      /\ Has(queue', "dispatch") <=> Has(queue, "dispatch") \/ Has(q, "dispatch")
  BY DEF StageStep, Classes
<1>3. /\ Has(q, "source") => s.phase = "waiting"
      /\ Has(q, "dispatch") => s.phase = "waiting"
  BY DEF StageStep
<1>4. \A c \in Classes : Only(queue', c)
  BY <1>3 DEF StageStep, Flight, Classes
<1>5. /\ t.phase = "planning" <=> s.phase = "planning"
      /\ t.phase = "readingSource" <=> s.phase = "readingSource" \/ Has(q, "source")
      /\ t.phase = "dispatching" <=> s.phase = "dispatching" \/ Has(q, "dispatch")
      /\ t.submissionPending = s.submissionPending
  BY DEF StageStep
<1>6. (loop.phase = "dispatching" <=> loop'.phase = "dispatching")
      /\ loop'.submissionPending = loop.submissionPending
  BY DEF LoopTook
<1>7. Flight'
  BY <1>2, <1>3, <1>4, <1>5, <1>6 DEF Flight
<1>8. Answering'
  BY <1>2, <1>5, <1>6 DEF Answering
<1>9. got # {} => s.phase # "waiting"
  BY DEF Flight, Reporting
<1>10. s.phase # "waiting" =>
           /\ t.phase = s.phase /\ t.stmt = s.stmt /\ t.routing = s.routing
           /\ t.dispatchRouting = s.dispatchRouting
           /\ ~ Has(q, "source") /\ ~ Has(q, "dispatch")
  BY DEF StageStep
<1>11. ~ Has(q, "plan") /\ ~ Has(q, "dispatched")
  BY DEF StageStep
<1>12. s.phase # "waiting" => /\ \A i : Planned(s, i) => Planned(t, i)
                              /\ \A i : Dispatching(s, i, got) => Dispatching(t, i, got)
                              /\ Reached(s, call, got) => Reached(t, call, got)
  <2>. SUFFICES ASSUME s.phase # "waiting"
                PROVE  /\ \A i : Planned(s, i) => Planned(t, i)
                       /\ \A i : Dispatching(s, i, got) => Dispatching(t, i, got)
                       /\ Reached(s, call, got) => Reached(t, call, got)
    OBVIOUS
  <2>1. t.stmt = s.stmt /\ t.routing = s.routing /\ t.dispatchRouting = s.dispatchRouting
    BY <1>10
  <2>2. \A i : Planned(s, i) => Planned(t, i)
    BY <2>1 DEF Planned
  <2>3. \A i : Dispatching(s, i, got) => Dispatching(t, i, got)
    BY <2>1 DEF Dispatching, Asked, Told, DeliveredTo
  <2>4. Reached(s, call, got) => Reached(t, call, got)
    BY <2>1 DEF Reached
  <2>. QED  BY <2>2, <2>3, <2>4
<1>13. ASSUME NEW k \in DOMAIN queue'
       PROVE  /\ Is(queue'[k], "plan") => Planned(stage', queue'[k])
              /\ Is(queue'[k], "dispatch") => Dispatching(stage', queue'[k], got')
              /\ Is(queue'[k], "dispatched") => got' # {} /\ queue'[k].routing = got'
  <2>. DEFINE x == queue'[k]
  <2>1. CASE \E j \in DOMAIN queue : x = queue[j]
    <3>1. PICK j \in DOMAIN queue : x = queue[j]
      BY <2>1
    <3>2. /\ Is(x, "plan") => Planned(s, x) /\ Has(queue, "plan")
          /\ Is(x, "dispatch") => Dispatching(s, x, got) /\ Has(queue, "dispatch")
          /\ Is(x, "dispatched") => got # {} /\ x.routing = got
      BY <3>1 DEF Reporting, Has
    <3>3. (Is(x, "plan") \/ Is(x, "dispatch")) => s.phase # "waiting"
      BY <3>2 DEF Flight
    <3>. QED  BY <3>2, <3>3, <1>12
  <2>2. CASE \E j \in DOMAIN q : x = q[j]
    <3>1. PICK j \in DOMAIN q : x = q[j]
      BY <2>2
    <3>2. ~ Is(x, "plan") /\ ~ Is(x, "dispatched")
      BY <1>11, <3>1 DEF Has
    <3>3. ASSUME Is(x, "dispatch") PROVE Dispatching(t, x, got)
      <4>1. Has(q, "dispatch")
        BY <3>1, <3>3 DEF Has
      <4>2. x.do = "execute" /\ Asked(t, x.request)
        BY <4>1, <3>1, <3>3 DEF StageStep
      <4>3. got = {}
        BY <4>1, <1>3, <1>9
      <4>. QED  BY <4>2, <4>3 DEF Dispatching
    <3>. QED  BY <3>2, <3>3
  <2>3. CASE \A c \in {"plan", "dispatch", "dispatched"} : ~ Is(x, c)
    BY <2>3
  <2>. QED  BY <2>1, <2>2, <2>3
<1>14. Has(queue', "dispatched") => stage'.phase = "none"
  BY <1>2, <1>10 DEF Reporting
<1>15. call'.ref = DispatchRef => Reached(stage', call', got')
  <2>1. call.ref = DispatchRef => s.phase # "waiting"
    BY DEF Flight
  <2>. QED  BY <2>1, <1>12 DEF Reporting
<1>16. got' # {} => \/ Has(queue', "dispatch") \/ Has(queue', "dispatched")
                    \/ call'.ref = DispatchRef
  BY <1>2 DEF Reporting
<1>17. Reporting'
  BY <1>13, <1>14, <1>15, <1>16 DEF Reporting
<1>. QED  BY <1>1, <1>7, <1>8, <1>17

\* The stage concludes what it had asked for.
LEMMA Concluding ==
    ASSUME Shapes, Flight, Answering, Reporting, UNCHANGED <<loop, call, answers, got>>,
           NEW h, NEW r, NEW q, NEW c0 \in {"plan", "source", "dispatch"},
           Split(queue, h, r), \A c \in Classes : Is(h, c) <=> c = c0,
           Joined(queue', q, r), Concluded(stage, stage', q, got)
    PROVE  Shapes' /\ Flight' /\ Answering' /\ Reporting'
<1>. DEFINE s == stage
            t == stage'
<1>1. Shapes'
  BY DEF Shapes, Concluded
<1>2. Has(queue, c0) /\ ~ Has(r, c0)
  BY DEF Split, Flight, Classes
<1>3. s.phase = CASE c0 = "plan" -> "planning"
                  [] c0 = "source" -> "readingSource"
                  [] c0 = "dispatch" -> "dispatching"
  BY <1>2 DEF Flight
<1>4. \A c \in {"plan", "source", "dispatch"} : ~ Has(r, c)
  BY <1>2, <1>3 DEF Flight, Split
<1>5. call.ref # DispatchRef
  BY <1>2, <1>3 DEF Flight
<1>6. ~ Has(r, "dispatched")
  BY <1>3 DEF Reporting, Split
<1>7. /\ \A c \in {"plan", "source", "dispatch", "dispatched"} : Has(queue', c) <=> Has(q, c)
      /\ Has(queue', "loop") <=> Has(queue, "loop")
      /\ Has(queue', "answer") <=> Has(queue, "answer") \/ Has(q, "answer")
  BY <1>4, <1>6 DEF Joined, Split, Concluded, Classes
<1>8. Has(queue, "answer") => ~ s.submissionPending
  BY DEF Answering
<1>9. \A c \in Classes : Only(queue', c)
  <2>1. \A c \in Classes : Only(q, c) /\ Only(r, c)
    BY DEF Concluded, Split, Flight
  <2>2. \A c \in Classes : ~ (Has(q, c) /\ Has(r, c))
    <3>1. ~ (Has(q, "answer") /\ Has(r, "answer"))
      BY <1>8 DEF Concluded, Split
    <3>. QED  BY <1>4, <1>6, <3>1 DEF Concluded, Classes
  <2>. QED  BY <2>1, <2>2 DEF Joined
<1>10. Flight'
  BY <1>5, <1>7, <1>9 DEF Flight, Concluded
<1>11. Answering'
  BY <1>7, <1>8 DEF Answering, Concluded
<1>12. ASSUME NEW k \in DOMAIN queue'
       PROVE  /\ Is(queue'[k], "plan") => Planned(stage', queue'[k])
              /\ Is(queue'[k], "dispatch") => Dispatching(stage', queue'[k], got')
              /\ Is(queue'[k], "dispatched") => got' # {} /\ queue'[k].routing = got'
  <2>. DEFINE x == queue'[k]
  <2>1. CASE \E j \in DOMAIN q : x = q[j]
    BY <2>1 DEF Concluded, Dispatching
  <2>2. CASE \E j \in DOMAIN r : x = r[j]
    <3>1. ~ Is(x, "plan") /\ ~ Is(x, "dispatch") /\ ~ Is(x, "dispatched")
      BY <1>4, <1>6, <2>2 DEF Has
    <3>. QED  BY <3>1
  <2>. QED  BY <2>1, <2>2 DEF Joined
<1>13. Has(queue', "dispatched") => stage'.phase = "none"
  BY <1>7 DEF Concluded
<1>14. got' # {} => \/ Has(queue', "dispatch") \/ Has(queue', "dispatched")
                    \/ call'.ref = DispatchRef
  BY <1>7 DEF Concluded
<1>15. Reporting'
  BY <1>5, <1>12, <1>13, <1>14 DEF Reporting
<1>. QED  BY <1>1, <1>10, <1>11, <1>15

\* The loop concludes what it had asked for.
LEMMA LoopConcluding ==
    ASSUME Shapes, Flight, Answering, Reporting, UNCHANGED <<stage, call, answers, got>>,
           NEW h, NEW r, NEW q,
           Split(queue, h, r), \A c \in Classes : Is(h, c) <=> c = "loop",
           Joined(queue', q, r), LoopConcluded(loop.submissionPending, loop', q),
           ~ Has(q, "loop")
    PROVE  Shapes' /\ Flight' /\ Answering' /\ Reporting'
<1>1. Shapes'
  BY DEF Shapes, LoopConcluded
<1>2. Has(queue, "loop") /\ ~ Has(r, "loop")
  BY DEF Split, Flight, Classes
<1>3. call.ref # LoopRef
  BY <1>2 DEF Flight
<1>4. /\ \A c \in {"plan", "source", "dispatch", "dispatched"} : Has(queue', c) <=> Has(queue, c)
      /\ ~ Has(queue', "loop")
      /\ Has(queue', "answer") <=> Has(queue, "answer") \/ Has(q, "answer")
  BY <1>2 DEF Joined, Split, LoopConcluded, Classes
<1>5. Has(queue, "answer") => ~ loop.submissionPending
  BY DEF Answering
<1>6. \A c \in Classes : Only(queue', c)
  <2>1. \A c \in Classes : Only(q, c) /\ Only(r, c)
    BY DEF LoopConcluded, Split, Flight
  <2>2. \A c \in Classes : ~ (Has(q, c) /\ Has(r, c))
    <3>1. ~ (Has(q, "answer") /\ Has(r, "answer"))
      BY <1>5 DEF LoopConcluded, Split
    <3>. QED  BY <3>1 DEF LoopConcluded, Classes
  <2>. QED  BY <2>1, <2>2 DEF Joined
<1>7. loop'.phase # "dispatching"
  BY DEF LoopConcluded
<1>8. Flight'
  BY <1>3, <1>4, <1>6, <1>7 DEF Flight
<1>9. Answering'
  BY <1>4, <1>5 DEF Answering, LoopConcluded
<1>10. ASSUME NEW k \in DOMAIN queue'
       PROVE  /\ Is(queue'[k], "plan") => Planned(stage', queue'[k])
              /\ Is(queue'[k], "dispatch") => Dispatching(stage', queue'[k], got')
              /\ Is(queue'[k], "dispatched") => got' # {} /\ queue'[k].routing = got'
  <2>. DEFINE x == queue'[k]
  <2>1. CASE \E j \in DOMAIN r : x = r[j]
    <3>1. \E j \in DOMAIN queue : x = queue[j]
      BY <2>1 DEF Split
    <3>. QED  BY <3>1 DEF Reporting
  <2>2. CASE \E j \in DOMAIN q : x = q[j]
    <3>1. ~ Is(x, "plan") /\ ~ Is(x, "dispatch") /\ ~ Is(x, "dispatched")
      BY <2>2 DEF LoopConcluded, Has
    <3>. QED  BY <3>1
  <2>. QED  BY <2>1, <2>2 DEF Joined
<1>11. Reporting'
  <2>1. Has(queue', "dispatched") => stage'.phase = "none"
    BY <1>4 DEF Reporting
  <2>2. call'.ref = DispatchRef => Reached(stage', call', got')
    BY DEF Reporting
  <2>3. got' # {} => \/ Has(queue', "dispatch") \/ Has(queue', "dispatched")
                     \/ call'.ref = DispatchRef
    BY <1>4 DEF Reporting
  <2>. QED  BY <1>10, <2>1, <2>2, <2>3 DEF Reporting
<1>. QED  BY <1>1, <1>8, <1>9, <1>11

\* What does not change, the invariant still says.
LEMMA StillLists ==
    ASSUME Lists, UNCHANGED <<queue, inbox, ops, owed, leaving, part>>
    PROVE  Lists'
  BY DEF Lists

LEMMA StillFlying ==
    ASSUME Shapes, Flight, Answering, Reporting, UNCHANGED <<queue, stage, loop, call, answers, got>>
    PROVE  Shapes' /\ Flight' /\ Answering' /\ Reporting'
<1>1. Shapes'
  BY DEF Shapes
<1>2. Flight'
  BY DEF Flight
<1>3. Answering'
  BY DEF Answering
<1>4. Reporting'
  BY DEF Reporting
<1>. QED  BY <1>1, <1>2, <1>3, <1>4

LEMMA StillOperations ==
    ASSUME Operations, UNCHANGED <<pc, op, ops, shells>>, Types(scene')
    PROVE  Operations'
  BY DEF Operations

LEMMA StillDraining ==
    ASSUME Draining, UNCHANGED <<inbox, drainPending, pc, ops>>
    PROVE  Draining'
  BY DEF Draining

LEMMA StillShownStage ==
    ASSUME ShownStage, UNCHANGED <<stage, shown, queue, snapshotRequested, call>>
    PROVE  ShownStage'
  BY DEF ShownStage

(***************************************************************************)
(* The goroutines around the executor                                      *)
(***************************************************************************)

LEMMA AppendKeeps ==
    ASSUME NEW q, IsSeq(q), NEW x
    PROVE  /\ IsSeq(Append(q, x))
           /\ \A k \in DOMAIN q : k \in DOMAIN Append(q, x) /\ Append(q, x)[k] = q[k]
           /\ \E k \in DOMAIN Append(q, x) : Append(q, x)[k] = x
           /\ \A k \in DOMAIN Append(q, x) : \/ k \in DOMAIN q /\ Append(q, x)[k] = q[k]
                                             \/ Append(q, x)[k] = x
<1>1. IsSeq(<<x>>) /\ Len(<<x>>) = 1 /\ <<x>>[1] = x
  BY Literals
<1>. DEFINE n == q \o <<x>>
<1>2. /\ IsSeq(n) /\ Len(n) = Len(q) + 1
      /\ \A k \in 1 .. Len(q) : n[k] = q[k]
      /\ n[Len(q) + 1] = x
  BY <1>1, Cat
<1>3. Append(q, x) = n
  BY Appended
<1>. HIDE DEF n
<1>4. /\ DOMAIN n = 1 .. (Len(q) + 1) /\ DOMAIN q = 1 .. Len(q) /\ Len(q) \in Nat
  BY <1>2, SeqFacts
<1>. QED  BY <1>2, <1>3, <1>4

LEMMA DrainDrains ==
    Drain.kind = "drain"
  BY DEF Drain, NoOp, Op

\* recordSessionEvent: a drain is pending as long as the inbox holds events.
LEMMA Notified ==
    ASSUME IsSeq(inbox), IsSeq(ops), Draining, NEW events, IsSeq(events), Notify(events),
           pc' = pc
    PROVE  /\ IsSeq(inbox') /\ IsSeq(ops') /\ Draining'
           /\ inbox # <<>> \/ events # <<>> => inbox' # <<>>
           /\ \A k \in DOMAIN ops' : ops'[k].kind = "drain"
                                     \/ (k \in DOMAIN ops /\ ops'[k] = ops[k])
<1>1. IsSeq(inbox') /\ Len(inbox') = Len(inbox) + Len(events)
  BY Cat DEF Notify
<1>2. /\ Len(inbox) \in Nat /\ Len(events) \in Nat
      /\ (inbox # <<>> <=> Len(inbox) # 0) /\ (events # <<>> <=> Len(events) # 0)
      /\ (inbox' # <<>> <=> Len(inbox') # 0)
  BY <1>1, SeqFacts
<1>3. inbox # <<>> \/ events # <<>> <=> inbox' # <<>>
  BY <1>1, <1>2
<1>4. CASE events # <<>> /\ ~ drainPending
  <2>1. ops' = Append(ops, Drain)
    BY <1>4 DEF Notify
  <2>2. /\ IsSeq(ops')
        /\ \E k \in DOMAIN ops' : ops'[k] = Drain
        /\ \A k \in DOMAIN ops' : \/ k \in DOMAIN ops /\ ops'[k] = ops[k]
                                  \/ ops'[k] = Drain
    BY <2>1, AppendKeeps
  <2>3. \E k \in DOMAIN ops' : ops'[k].kind = "drain"
    BY <2>2, DrainDrains
  <2>4. drainPending'
    BY <1>4 DEF Notify
  <2>5. Draining'
    BY <2>3, <2>4 DEF Draining
  <2>. QED  BY <1>1, <1>3, <2>2, <2>5, DrainDrains
<1>5. CASE ~ (events # <<>> /\ ~ drainPending)
  <2>1. ops' = ops /\ (drainPending' <=> drainPending)
    BY <1>5 DEF Notify
  <2>2. inbox' # <<>> => drainPending
    BY <1>3, <1>5 DEF Draining
  <2>3. Draining'
    BY <2>1, <2>2 DEF Draining
  <2>. QED  BY <1>1, <1>3, <2>1, <2>3
<1>. QED  BY <1>4, <1>5

\* A step that only notifies.
LEMMA NotifiesKeep ==
    ASSUME IInv, NEW e, Notify(<<e>>), DOMAIN owed' = Alias, DOMAIN leaving' = Alias,
           DOMAIN part' = Alias, Types(scene'),
           UNCHANGED <<pc, op, runner, call, model, shells, frontEnd, shown>>
    PROVE  IInv'
<1>. USE DEF runner, model, frontEnd
<1>1. IsSeq(<<e>>) /\ <<e>> # <<>>
  BY Literals
<1>2. /\ IsSeq(inbox') /\ IsSeq(ops') /\ Draining' /\ inbox' # <<>>
      /\ \A k \in DOMAIN ops' : ops'[k].kind = "drain"
                                \/ (k \in DOMAIN ops /\ ops'[k] = ops[k])
  BY <1>1, Notified DEF IInv, Lists
<1>3. Lists'
  BY <1>2 DEF IInv, Lists
<1>4. Shapes' /\ Flight' /\ Answering' /\ Reporting'
  BY StillFlying DEF IInv
<1>5. Operations'
  BY <1>2 DEF IInv, Operations
<1>6. Resting'
  BY DEF IInv, Resting
<1>7. ShownStage'
  BY StillShownStage DEF IInv, Showing
<1>8. ShownParts'
  BY <1>2 DEF ShownParts
<1>. QED  BY <1>2, <1>3, <1>4, <1>5, <1>6, <1>7, <1>8 DEF IInv, Showing

\* The goroutines of the session deliver what they owe.
LEMMA DeliverKeeps ==
    ASSUME IInv, NEW a \in Alias, Deliver(a) \/ DeliverLast(a), Outdate
    PROVE  IInv'
<1>1. CASE Deliver(a)
  <2>1. /\ Notify(<<Head(owed[a])>>) /\ DOMAIN owed' = Alias /\ DOMAIN leaving' = Alias
        /\ DOMAIN part' = Alias
        /\ UNCHANGED <<pc, op, runner, call, model, shells, frontEnd, shown, scene>>
    BY <1>1 DEF Deliver, IInv, Lists, Outdate
  <2>2. Types(scene')
    BY <2>1 DEF IInv, Operations
  <2>. QED  BY <2>1, <2>2, NotifiesKeep
<1>2. CASE DeliverLast(a)
  <2>1. /\ Notify(<<Head(leaving[a])>>) /\ DOMAIN owed' = Alias /\ DOMAIN leaving' = Alias
        /\ DOMAIN part' = Alias
        /\ UNCHANGED <<pc, op, runner, call, model, shells, frontEnd, shown, scene>>
    BY <1>2 DEF DeliverLast, IInv, Lists, Outdate
  <2>2. Types(scene')
    BY <2>1 DEF IInv, Operations
  <2>. QED  BY <2>1, <2>2, NotifiesKeep
<1>. QED  BY <1>1, <1>2

\* A participant changes, and somebody owes the events of it.
LEMMA OwingKeeps ==
    ASSUME IInv, NEW a \in Alias, NEW events, events # <<>>, owed' = [owed EXCEPT ![a] = events],
           DOMAIN part' = Alias, Types(scene'),
           UNCHANGED <<leaving, mailbox, pc, op, runner, call, model, shells, frontEnd, shown>>
    PROVE  IInv'
<1>. USE DEF runner, model, frontEnd, mailbox
<1>1. DOMAIN owed' = Alias /\ owed'[a] # <<>>
  BY DEF IInv, Lists
<1>2. Lists'
  BY <1>1 DEF IInv, Lists
<1>3. Shapes' /\ Flight' /\ Answering' /\ Reporting'
  BY StillFlying DEF IInv
<1>4. Operations'
  BY StillOperations DEF IInv
<1>5. Resting'
  BY DEF IInv, Resting
<1>6. ShownStage'
  BY StillShownStage DEF IInv, Showing
<1>7. ShownParts'
  BY <1>1 DEF ShownParts
<1>8. Draining'
  BY StillDraining DEF IInv
<1>. QED  BY <1>2, <1>3, <1>4, <1>5, <1>6, <1>7, <1>8 DEF IInv, Showing

LEMMA BecomeKeeps ==
    ASSUME IInv, NEW a \in Alias, NEW s, NEW events, events # <<>>, Become(a, s, events),
           Types(scene'), Outdate
    PROVE  IInv'
<1>1. /\ owed' = [owed EXCEPT ![a] = events] /\ DOMAIN part' = Alias
      /\ UNCHANGED <<leaving, mailbox, pc, op, runner, call, model, shells, frontEnd, shown>>
  BY DEF Become, Quiet, Outdate, IInv, Lists
<1>. QED  BY <1>1, OwingKeeps

\* A participant is started, ends its turn or dies.
LEMMA AgentsKeep ==
    ASSUME IInv, NEW a \in Alias, Agents(a) \/ AgentDies(a), Outdate
    PROVE  IInv'
<1>1. CASE CommitStarted(a)
  <2>1. Become(a, "idle", <<StatusChanged(a, "idle")>>) /\ scene' = scene
    BY <1>1 DEF CommitStarted
  <2>2. Types(scene')
    BY <2>1 DEF IInv, Operations
  <2>. QED  BY <2>1, <2>2, BecomeKeeps
<1>2. CASE SessionReadied(a)
  <2>1. /\ owed' = [owed EXCEPT ![a] = <<AgentStarted(a)>>] /\ DOMAIN part' = Alias
        /\ UNCHANGED <<leaving, mailbox, pc, op, runner, call, model, shells, frontEnd, shown,
                       scene>>
    BY <1>2 DEF SessionReadied, Quiet, Outdate, IInv, Lists
  <2>2. Types(scene')
    BY <2>1 DEF IInv, Operations
  <2>. QED  BY <2>1, <2>2, OwingKeeps
<1>3. CASE EndTurn(a)
  <2>1. scene' = scene
    BY <1>3 DEF EndTurn
  <2>2. PICK visible \in scene.visible :
            Become(a, "idle", <<StatusChanged(a, "idle"),
                                TurnCompleted(a, part[a].turn, visible)>>)
    BY <1>3 DEF EndTurn
  <2>3. Types(scene')
    BY <2>1 DEF IInv, Operations
  <2>. QED  BY <2>2, <2>3, BecomeKeeps
<1>4. CASE AgentDies(a)
  <2>1. /\ Become(a, "crashed", <<StatusChanged(a, "crashed"), AgentCrashed(a)>>)
        /\ scene' = [scene EXCEPT !.crashes = @ - 1]
    BY <1>4 DEF AgentDies
  <2>2. Types(scene')
    BY <2>1 DEF IInv, Operations, Types
  <2>. QED  BY <2>1, <2>2, BecomeKeeps
<1>. QED  BY <1>1, <1>2, <1>3, <1>4 DEF Agents

\* An operation is enqueued.
LEMMA EnqueueKeeps ==
    ASSUME IInv, NEW o, OpOK(o), Enqueue(o), Outdate, Types(scene'),
           shells' \subseteq shells
    PROVE  IInv'
<1>. USE DEF runner, model, frontEnd, session
<1>1. /\ ops' = Append(ops, o)
      /\ UNCHANGED <<session, inbox, drainPending, pc, op, runner, call, model, frontEnd>>
      /\ UNCHANGED shown /\ (fresh' <=> fresh)
  BY DEF Enqueue, Outdate
<1>2. /\ IsSeq(ops')
      /\ \A k \in DOMAIN ops : k \in DOMAIN ops' /\ ops'[k] = ops[k]
      /\ \A k \in DOMAIN ops' : \/ k \in DOMAIN ops /\ ops'[k] = ops[k]
                                \/ ops'[k] = o
  BY <1>1, AppendKeeps DEF IInv, Lists
<1>3. Lists'
  BY <1>1, <1>2 DEF IInv, Lists
<1>4. Shapes' /\ Flight' /\ Answering' /\ Reporting'
  BY <1>1, StillFlying DEF IInv
<1>5. Operations'
  BY <1>1, <1>2 DEF IInv, Operations
<1>6. Resting'
  BY <1>1 DEF IInv, Resting
<1>7. ShownStage'
  BY <1>1, StillShownStage DEF IInv, Showing
<1>8. ShownParts'
  BY <1>1 DEF ShownParts, IInv, Showing
<1>9. Draining'
  <2>1. (\E k \in DOMAIN ops : ops[k].kind = "drain") =>
             \E k \in DOMAIN ops' : ops'[k].kind = "drain"
    BY <1>2
  <2>. QED  BY <1>1, <2>1 DEF IInv, Draining
<1>. QED  BY <1>3, <1>4, <1>5, <1>6, <1>7, <1>8, <1>9 DEF IInv, Showing

\* What the user types is an operation.
LEMMA UserOpsAreOK ==
    ASSUME NEW o \in UserOps
    PROVE  OpOK(o)
<1>. DEFINE Stmts == {Send(a) : a \in Alias} \cup {Broadcast}
                     \cup {Handoff(a, b) : a \in Alias, b \in Alias}
            Kinds6 == {"shell", "def", "invoke", "who", "help", "invalid"}
<1>1. \/ o \in {Staged(stmt) : stmt \in Stmts}
      \/ \E a \in Alias : o \in {Loop(a), Invite(a), Removal(a), CancelOf(a)}
      \/ o \in {Policy, Edit, Discard, Interrupts}
      \/ o \in {Line(kind) : kind \in Kinds6}
  BY DEF UserOps
<1>2. CASE o \in {Staged(stmt) : stmt \in Stmts}
  <2>1. PICK stmt \in Stmts : o = Staged(stmt)
    BY <1>2
  <2>2. StatementOK(stmt)
    BY <2>1 DEF StatementOK, Send, Broadcast, Handoff
  <2>3. o.kind = "stage" /\ o.stmt = stmt
    BY <2>1 DEF Staged, Op
  <2>. QED  BY <2>2, <2>3 DEF OpOK, IsSubmission
<1>3. CASE \E a \in Alias : o \in {Loop(a), Invite(a), Removal(a), CancelOf(a)}
  <2>1. o.kind \in {"loop", "invite", "remove", "cancel"}
    BY <1>3 DEF Loop, Invite, Removal, CancelOf, Op
  <2>. QED  BY <2>1 DEF OpOK, IsSubmission, SessionCommands
<1>4. CASE o \in {Policy, Edit, Discard, Interrupts}
  <2>1. o.kind \in {"policy", "edit", "discard", "interrupt"}
    BY <1>4 DEF Policy, Edit, Discard, Interrupts, NoOp, Op
  <2>. QED  BY <2>1 DEF OpOK, IsSubmission, SessionCommands
<1>5. CASE o \in {Line(kind) : kind \in Kinds6}
  <2>1. o.kind \in Kinds6
    BY <1>5 DEF Line, NoOp, Op
  <2>. QED  BY <2>1 DEF OpOK, IsSubmission
<1>. QED  BY <1>1, <1>2, <1>3, <1>4, <1>5

LEMMA UserTypesKeeps ==
    ASSUME IInv, UserTypes, Outdate
    PROVE  IInv'
<1>1. scene.typed # <<>> /\ Enqueue(Head(scene.typed)) /\ shells' = shells
      /\ scene' = [scene EXCEPT !.typed = Tail(@)]
  BY DEF UserTypes
<1>2. scene.typed \in Seq(UserOps)
  BY DEF IInv, Operations, Types
<1>3. Head(scene.typed) \in UserOps /\ Tail(scene.typed) \in Seq(UserOps)
  BY <1>1, <1>2
<1>4. Types(scene')
  <2>1. "typed" \in DOMAIN scene
    BY DEF IInv, Operations, Types
  <2>. QED  BY <1>1, <1>3, <2>1 DEF Types
<1>5. OpOK(Head(scene.typed))
  BY <1>3, UserOpsAreOK
<1>. QED  BY <1>1, <1>4, <1>5, EnqueueKeeps

LEMMA ShellEndsKeeps ==
    ASSUME IInv, NEW kind \in {"loopShell", "userShell"}, ShellEnds(kind), Outdate
    PROVE  IInv'
<1>1. /\ shells' \subseteq shells /\ scene' = scene
  BY DEF ShellEnds
<1>2. PICK r \in {"success", "failure", "cancelled"} : Enqueue(ShellDone(kind, r))
  BY DEF ShellEnds
<1>3. OpOK(ShellDone(kind, r))
  <2>1. ShellDone(kind, r).kind = kind
    BY DEF ShellDone, NoOp, Op
  <2>. QED  BY <2>1 DEF OpOK
<1>4. Types(scene')
  BY <1>1 DEF IInv, Operations
<1>. QED  BY <1>1, <1>2, <1>3, <1>4, EnqueueKeeps

\* The invariant holds at the start.
LEMMA InitKeeps ==
    ASSUME Init
    PROVE  IInv
<1>1. /\ queue = <<>> /\ inbox = <<>> /\ ops = <<>> /\ call = NoCall
      /\ stage = NoStage /\ loop = NoLoop
  BY DEF Init
<1>2. AllSound(queue) /\ \A c : ~ Has(queue, c) /\ Only(queue, c)
  BY <1>1, Literals
<1>3. IsSeq(inbox) /\ IsSeq(ops)
  BY <1>1, Literals DEF AllSound
<1>4. Lists
  BY <1>2, <1>3 DEF Init, Lists
<1>5. call.ref # DispatchRef /\ call.ref # LoopRef /\ CallOK(call)
  BY <1>1 DEF NoCall, NoRef, Ref, DispatchRef, LoopRef, CallOK, CallFields
<1>6. Shapes
  BY <1>1, <1>5, NothingStaged, NoLoopIsOK DEF Shapes
<1>7. Operations
  <2>1. Types(scene)
    BY WorkflowsAssumption DEF Init, Types
  <2>2. \A k \in DOMAIN ops : FALSE
    BY <1>1
  <2>. QED  BY <2>1, <2>2 DEF Init, Operations
<1>8. Resting
  BY DEF Init, Resting
<1>9. Flight
  BY <1>1, <1>2, <1>5, NothingStaged, NoLoopIsOK DEF Flight
<1>10. Answering
  <2>1. answers = 1 /\ NoLoop.submissionPending = FALSE
    BY DEF Init, NoLoop
  <2>. QED  BY <1>1, <1>2, <2>1, NothingStaged DEF Answering
<1>11. Reporting
  <2>1. got = {} /\ DOMAIN queue = {}
    BY <1>1 DEF Init
  <2>. QED  BY <1>2, <1>5, <2>1 DEF Reporting
<1>12. Showing
  BY <1>1, NothingStaged DEF Init, Showing, ShownStage, ShownParts
<1>13. Draining
  BY DEF Init, Draining
<1>. QED  BY <1>4, <1>6, <1>7, <1>8, <1>9, <1>10, <1>11, <1>12, <1>13 DEF IInv

(***************************************************************************)
(* The executor, between two runs of instructions                          *)
(***************************************************************************)

LEMMA PullKeeps ==
    ASSUME IInv, Pull, Outdate
    PROVE  IInv'
<1>. USE DEF runner, model, session, frontEnd
<1>1. /\ pc = "pull" /\ ops # <<>> /\ op' = Head(ops) /\ ops' = Tail(ops)
      /\ pc' = IF Head(ops).kind = "drain" THEN "drain" ELSE "before"
      /\ UNCHANGED <<inbox, drainPending, runner, model, session, call, shells, frontEnd,
                     scene, shown>>
      /\ fresh' <=> fresh
  BY DEF Pull, NotRunning, Outdate
<1>2. /\ IsSeq(Tail(ops)) /\ Head(ops) = ops[1] /\ 1 \in DOMAIN ops
      /\ \A k \in DOMAIN Tail(ops) : k + 1 \in DOMAIN ops /\ Tail(ops)[k] = ops[k + 1]
      /\ \A k \in DOMAIN ops : k # 1 => k - 1 \in DOMAIN Tail(ops) /\ Tail(ops)[k - 1] = ops[k]
  BY <1>1, Rest DEF IInv, Lists
<1>3. Lists'
  BY <1>1, <1>2 DEF IInv, Lists
<1>4. Shapes' /\ Flight' /\ Answering' /\ Reporting'
  BY <1>1, StillFlying DEF IInv
<1>5. Operations'
  BY <1>1, <1>2 DEF IInv, Operations
<1>6. Resting'
  BY <1>1 DEF IInv, Resting
<1>7. ShownStage'
  BY <1>1, StillShownStage DEF IInv, Showing
<1>8. ShownParts'
  BY <1>1 DEF ShownParts, IInv, Showing
<1>9. Draining'
  <2>1. CASE Head(ops).kind = "drain"
    BY <1>1, <2>1 DEF IInv, Draining
  <2>2. CASE Head(ops).kind # "drain"
    <3>1. ASSUME NEW k \in DOMAIN ops, ops[k].kind = "drain"
          PROVE  \E j \in DOMAIN ops' : ops'[j].kind = "drain"
      BY <1>1, <1>2, <2>2, <3>1
    <3>2. drainPending => \E k \in DOMAIN ops : ops[k].kind = "drain"
      BY <1>1 DEF IInv, Draining
    <3>. QED  BY <1>1, <3>1, <3>2 DEF IInv, Draining
  <2>. QED  BY <2>1, <2>2
<1>. QED  BY <1>3, <1>4, <1>5, <1>6, <1>7, <1>8, <1>9 DEF IInv, Showing

LEMMA Three ==
    ASSUME NEW a, NEW b, NEW c
    PROVE  <<a>> \o (<<b>> \o <<c>>) = <<a, b, c>>
<1>. DEFINE S == {a, b, c}
            n == <<a>> \o <<b, c>>
<1>1. <<a>> \in Seq(S) /\ <<b, c>> \in Seq(S) /\ <<a, b, c>> \in Seq(S)
  OBVIOUS
<1>2. /\ Len(<<a>>) = 1 /\ Len(<<b, c>>) = 2 /\ Len(<<a, b, c>>) = 3
      /\ <<a>>[1] = a /\ <<b, c>>[1] = b /\ <<b, c>>[2] = c
      /\ <<a, b, c>>[1] = a /\ <<a, b, c>>[2] = b /\ <<a, b, c>>[3] = c
  OBVIOUS
<1>3. n \in Seq(S) /\ Len(n) = 3 /\ n[1] = a /\ n[2] = b /\ n[3] = c
  <2>. HIDE DEF S
  <2>. QED  BY <1>1, <1>2
<1>. HIDE DEF n, S
<1>4. n = <<a, b, c>>
  BY <1>1, <1>2, <1>3
<1>5. <<b>> \o <<c>> = <<b, c>>
  BY Two
<1>. QED  BY <1>4, <1>5 DEF n

LEMMA StepHasOnly ==
    ASSUME NEW s, NEW t, NEW q, StageStep(s, t, q)
    PROVE  \A c \in Classes : Only(q, c)
  BY OnlyIfSeq DEF StageStep, Classes

\* applySessionEvents, drainSessionEvents.
LEMMA TakeEventsKeeps ==
    ASSUME IInv, TakeEvents, Outdate
    PROVE  IInv'
<1>. USE DEF runner, model, session, frontEnd
<1>. DEFINE world == ApplyEvents(inbox)
<1>1. /\ pc \in {"before", "drain"} /\ ~ running /\ call = NoCall /\ inbox' = <<>>
      /\ UNCHANGED <<ops, op, session, call, shells, frontEnd, scene, shown>>
      /\ fresh' <=> fresh
  BY DEF TakeEvents, NotRunning, Outdate, Idle
<1>2. /\ queue = <<>> /\ ~ snapshotRequested /\ stage.phase \in {"none", "waiting"}
  BY <1>1, Quiescent DEF IInv
<1>3. IsSeq(inbox')
  BY <1>1, Literals DEF AllSound
<1>4. CASE inbox # <<>>
  <2>1. /\ loop' = world.loop /\ stage' = world.stage
        /\ queue' = world.seq /\ running' /\ ~ snapshotRequested'
        /\ pc' = pc /\ (drainPending' <=> drainPending)
    BY <1>4 DEF TakeEvents, Applied, Run
  <2>2. /\ StageStep(stage, world.stage, world.seq) /\ LoopTook(loop, world.loop)
        /\ Has(world.seq, "snap")
    BY <1>4, BurstStep DEF IInv, Shapes, Lists
  <2>. HIDE DEF world
  <2>3. StageStep(stage, stage', queue') /\ LoopTook(loop, loop') /\ Has(queue', "snap")
    BY <2>1, <2>2
  <2>4. \A c \in Classes : Only(queue', c)
    BY <2>3, StepHasOnly
  <2>5. \A c : ~ Has(queue, c)
    BY <1>2, Literals
  <2>6. Shapes' /\ Flight' /\ Answering' /\ Reporting'
    BY <1>1, <2>3, <2>4, <2>5, Folded DEF IInv
  <2>7. Lists'
    BY <1>1, <1>3, <2>3 DEF IInv, Lists, StageStep
  <2>8. Operations'
    BY <1>1, <2>1 DEF IInv, Operations
  <2>9. Resting'
    BY <2>1 DEF Resting
  <2>10. ShownStage'
    BY <1>2, <2>3 DEF StageStep, ShownStage
  <2>11. ShownParts'
    BY <2>3 DEF ShownParts
  <2>12. Draining'
    BY <1>1, <2>1 DEF IInv, Draining
  <2>. QED  BY <2>6, <2>7, <2>8, <2>9, <2>10, <2>11, <2>12 DEF IInv, Showing
<1>5. CASE inbox = <<>>
  <2>1. /\ UNCHANGED <<running, queue, snapshotRequested, stage, loop, inbox>>
        /\ drainPending' <=> (drainPending /\ pc # "drain")
        /\ pc' = IF pc = "drain" THEN "pull" ELSE "op"
    BY <1>5, <1>1 DEF TakeEvents
  <2>2. Shapes' /\ Flight' /\ Answering' /\ Reporting'
    BY <1>1, <2>1, StillFlying DEF IInv
  <2>3. Lists'
    BY <1>1, <2>1 DEF IInv, Lists
  <2>4. Operations'
    BY <1>1, <2>1 DEF IInv, Operations
  <2>5. Resting'
    BY <1>1, <2>1 DEF IInv, Resting
  <2>6. ShownStage'
    BY <1>1, <2>1, StillShownStage DEF IInv, Showing
  <2>7. ShownParts'
    BY <1>1, <2>1 DEF ShownParts, IInv, Showing
  <2>8. Draining'
    BY <1>1, <1>5, <2>1 DEF IInv, Draining
  <2>. QED  BY <2>2, <2>3, <2>4, <2>5, <2>6, <2>7, <2>8 DEF IInv, Showing
<1>. QED  BY <1>4, <1>5

\* An operation is applied: the runner begins with the instructions q.
LEMMA BeginsKeeps ==
    ASSUME IInv, ~ running, NEW q, AllSound(q), Run(q), pc = "op", pc' = "pull",
           UNCHANGED <<mailbox, session, call, shells, scene, shown>>, fresh' <=> fresh,
           Shapes', Flight', Answering', Reporting', ShownStage'
    PROVE  IInv'
<1>. USE DEF mailbox, session
<1>1. queue = <<>> /\ ~ snapshotRequested
  BY Quiescent DEF IInv
<1>2. running' /\ queue' = q
  BY DEF Run
<1>3. Lists'
  BY <1>2 DEF IInv, Lists
<1>4. Operations'
  BY DEF IInv, Operations
<1>5. Resting'
  BY <1>2 DEF Resting
<1>6. ShownParts'
  <2>1. ~ Has(queue, "snap")
    BY <1>1, Literals
  <2>. QED  BY <1>1, <2>1 DEF ShownParts, IInv, Showing
<1>7. Draining'
  BY DEF IInv, Draining
<1>. QED  BY <1>3, <1>4, <1>5, <1>6, <1>7 DEF IInv, Showing

\* What the front end sees while nothing is under way.
LEMMA QuietShows ==
    ASSUME IInv, ~ running
    PROVE  shown = StageSnapshot(stage)
<1>1. /\ queue = <<>> /\ ~ snapshotRequested /\ stage.phase \in {"none", "waiting"}
  BY Quiescent DEF IInv
<1>2. ~ Has(queue, "snap")
  BY <1>1, Literals
<1>. QED  BY <1>1, <1>2 DEF IInv, Showing, ShownStage

\* The runner is given a first queue, of a loop that answers or asks, or of nobody.
LEMMA BeginsLoop ==
    ASSUME IInv, ~ running, NEW open \in BOOLEAN, LoopConcluded(open, loop', queue'),
           UNCHANGED <<stage, call, got>>, answers' = IF open THEN 0 ELSE 1
    PROVE  Shapes' /\ Flight' /\ Answering' /\ Reporting'
<1>1. /\ queue = <<>> /\ call = NoCall
      /\ stage.phase \in {"none", "waiting"} /\ stage.submissionPending = FALSE
      /\ got = {}
  BY Quiescent DEF IInv
<1>2. call.ref # DispatchRef /\ call.ref # LoopRef
  BY <1>1 DEF NoCall, NoRef, Ref, DispatchRef, LoopRef
<1>3. Shapes'
  BY DEF IInv, Shapes, LoopConcluded
<1>4. Flight'
  BY <1>1, <1>2 DEF Flight, LoopConcluded
<1>5. Answering'
  BY <1>1 DEF Answering, LoopConcluded
<1>6. Reporting'
  <2>1. \A k \in DOMAIN queue' : ~ Is(queue'[k], "plan") /\ ~ Is(queue'[k], "dispatch")
                                 /\ ~ Is(queue'[k], "dispatched")
    BY DEF LoopConcluded, Has
  <2>. QED  BY <1>1, <1>2, <2>1 DEF Reporting, LoopConcluded
<1>. QED  BY <1>3, <1>4, <1>5, <1>6

\* One item that answers.
LEMMA LoopAnswersBy ==
    ASSUME NEW m, LoopOK(m), m.phase # "dispatching", NEW x, Sound(x), x.do \in Answers
    PROVE  LoopConcluded(TRUE, m, <<x>>)
<1>1. \A c \in Classes : Is(x, c) <=> c = "answer"
  BY Kinds
<1>2. AllSound(<<x>>) /\ \A c \in Classes : Only(<<x>>, c) /\ (Has(<<x>>, c) <=> c = "answer")
  BY <1>1, Literals
<1>. DEFINE q == <<x>>
<1>. HIDE DEF q
<1>3. LoopConcluded(TRUE, m, q)
  BY <1>2 DEF LoopConcluded, LoopOK, Classes, q
<1>. QED  BY <1>3 DEF q

\* Statements that need no workflow are answered once.
LEMMA CommandsAnswer ==
    ASSUME NEW m, LoopOK(m), m.phase # "dispatching", NEW o, IsSubmission(o),
           o.kind \notin {"stage", "loop"}
    PROVE  LoopConcluded(TRUE, m, CommandSequence(o))
<1>. DEFINE A == AcceptedInput
            q == CommandSequence(o)
<1>1. Plain(A)
  BY AcceptedIsPlain
<1>2. ASSUME NEW x, Sound(x), x.do \in Answers
      PROVE  LoopConcluded(TRUE, m, A \o <<x>>)
  <2>1. LoopConcluded(TRUE, m, <<x>>)
    BY <1>2, LoopAnswersBy
  <2>. QED  BY <1>1, <2>1, LoopConcludedBefore
<1>3. \A what \in {"succeeded", "failed", "rejected", "unknown"} :
          LoopConcluded(TRUE, m, <<Publish(what)>>)
  BY LoopAnswers
<1>4. /\ Sound(ExecuteCommand(o)) /\ ExecuteCommand(o).do \in Answers
      /\ Sound(StartUserShell) /\ StartUserShell.do \in Answers
      /\ Sound(ReadRoster) /\ ReadRoster.do \in Answers
  BY DEF ExecuteCommand, StartUserShell, ReadRoster, Sound, Answers, Requests
<1>5. ASSUME NEW x, NEW y, Telling(x), Telling(y)
      PROVE  LoopConcluded(TRUE, m, A \o <<x, y, Publish("succeeded")>>)
  <2>1. Plain(<<x>>) /\ Plain(<<y>>)
    BY <1>5, TellingIsPlain
  <2>2. LoopConcluded(TRUE, m, <<y>> \o <<Publish("succeeded")>>)
    BY <1>3, <2>1, LoopConcludedBefore
  <2>3. LoopConcluded(TRUE, m, <<x>> \o (<<y>> \o <<Publish("succeeded")>>))
    BY <2>1, <2>2, LoopConcludedBefore
  <2>4. <<x>> \o (<<y>> \o <<Publish("succeeded")>>) = <<x, y, Publish("succeeded")>>
    BY Three
  <2>5. LoopConcluded(TRUE, m, <<x, y, Publish("succeeded")>>)
    BY <2>3, <2>4
  <2>. QED  BY <1>1, <2>5, LoopConcludedBefore
<1>6. /\ Telling(AppendRecord) /\ Telling(PublishSnapshot) /\ Telling(Publish("help"))
  BY DEF Telling, AppendRecord, PublishSnapshot, Publish
<1>7. CASE o.kind = "invalid"
  BY <1>3, <1>7 DEF CommandSequence, SessionCommands
<1>8. CASE o.kind \in SessionCommands
  <2>1. q = A \o <<ExecuteCommand(o)>>
    BY <1>8 DEF CommandSequence, SessionCommands
  <2>. QED  BY <1>2, <1>4, <2>1
<1>9. CASE o.kind = "shell"
  <2>1. q = A \o <<StartUserShell>>
    BY <1>9 DEF CommandSequence, SessionCommands, ShellSequence
  <2>. QED  BY <1>2, <1>4, <2>1
<1>10. CASE o.kind = "invoke"
  <2>1. q = IF commands THEN A \o <<StartUserShell>> ELSE <<Publish("unknown")>>
    BY <1>10 DEF CommandSequence, SessionCommands, InvokeSequence
  <2>. QED  BY <1>2, <1>3, <1>4, <2>1
<1>11. CASE o.kind = "def"
  <2>1. q = A \o (IF commands THEN <<Publish("failed")>>
                  ELSE <<AppendRecord, PublishSnapshot, Publish("succeeded")>>)
    BY <1>11 DEF CommandSequence, SessionCommands, DefineSequence
  <2>2. LoopConcluded(TRUE, m, A \o <<Publish("failed")>>)
    BY <1>1, <1>3, LoopConcludedBefore
  <2>3. LoopConcluded(TRUE, m, A \o <<AppendRecord, PublishSnapshot, Publish("succeeded")>>)
    BY <1>5, <1>6
  <2>. QED  BY <2>1, <2>2, <2>3
<1>12. CASE o.kind = "who"
  <2>1. q = A \o <<ReadRoster>>
    BY <1>12 DEF CommandSequence, SessionCommands, WhoSequence
  <2>. QED  BY <1>2, <1>4, <2>1
<1>13. CASE o.kind = "help"
  <2>1. q = A \o <<PublishSnapshot, Publish("help"), Publish("succeeded")>>
    BY <1>13 DEF CommandSequence, SessionCommands, HelpSequence
  <2>. QED  BY <1>5, <1>6, <2>1
<1>. QED  BY <1>7, <1>8, <1>9, <1>10, <1>11, <1>12, <1>13 DEF IsSubmission

\* A statement is staged: its plan is asked for, and nothing else is on its way.
LEMMA StartBegins ==
    ASSUME IInv, ~ running, ~ Pending(stage), NEW stmt, StatementOK(stmt),
           stage' = Start(stmt).stage, queue' = Start(stmt).seq, ~ snapshotRequested',
           UNCHANGED <<loop, call, got, shown>>, answers' = 0
    PROVE  /\ Shapes' /\ Flight' /\ Answering' /\ Reporting' /\ ShownStage'
           /\ AllSound(queue')
<1>. DEFINE t == [NoStage EXCEPT !.stmt = stmt, !.phase = "planning",
                                 !.pending = Ref("stage", "plan"),
                                 !.submissionPending = TRUE]
            i == CASE stmt.kind = "send"      -> PlanShared(stmt.to)
                   [] stmt.kind = "broadcast" -> PlanBroadcast
                   [] stmt.kind = "handoff"   -> ReadParticipants
<1>1. stage' = t /\ queue' = <<i>>
  <2>1. Start(stmt) = Step(t, <<i>>)
    BY DEF Start
  <2>. HIDE DEF t, i
  <2>. QED  BY <2>1, StepParts
<1>2. /\ DOMAIN t = StageFields /\ t.phase = "planning" /\ t.pending = Ref("stage", "plan")
      /\ t.stmt = stmt /\ t.submissionPending = TRUE /\ t.routing = {} /\ t.barrier = NoBarrier
      /\ t.interruptPending = {}
  BY DEF NoStage, StageFields
<1>. HIDE DEF t
<1>3. StageOK(t)
  BY <1>2 DEF StageOK, StagePhases, Frozen, NoBarrier
<1>4. i.do \in Asks /\ Planned(t, i)
  <2>1. CASE stmt.kind = "send"
    <3>1. i = PlanShared(stmt.to)
      BY <2>1
    <3>. HIDE DEF i
    <3>. QED  BY <1>2, <2>1, <3>1 DEF PlanShared, Asks, Planned
  <2>2. CASE stmt.kind = "broadcast"
    <3>1. i = PlanBroadcast
      BY <2>2
    <3>. HIDE DEF i
    <3>. QED  BY <1>2, <2>2, <3>1 DEF PlanBroadcast, Asks, Planned
  <2>3. CASE stmt.kind = "handoff"
    <3>1. i = ReadParticipants
      BY <2>3
    <3>. HIDE DEF i
    <3>. QED  BY <1>2, <2>3, <3>1 DEF ReadParticipants, Asks, Planned
  <2>. QED  BY <2>1, <2>2, <2>3 DEF StatementOK
<1>5. Sound(i)
  <2>1. CASE stmt.kind = "send"
    <3>1. i = PlanShared(stmt.to)
      BY <2>1
    <3>. HIDE DEF i
    <3>. QED  BY <3>1 DEF PlanShared, Sound, Asks, Requests
  <2>2. CASE stmt.kind = "broadcast"
    <3>1. i = PlanBroadcast
      BY <2>2
    <3>. HIDE DEF i
    <3>. QED  BY <3>1 DEF PlanBroadcast, Sound, Asks, Requests
  <2>3. CASE stmt.kind = "handoff"
    <3>1. i = ReadParticipants
      BY <2>3
    <3>. HIDE DEF i
    <3>. QED  BY <3>1 DEF ReadParticipants, Sound, Asks, Requests
  <2>. QED  BY <2>1, <2>2, <2>3 DEF StatementOK
<1>. HIDE DEF i
<1>6. \A c \in Classes : Is(i, c) <=> c = "plan"
  BY <1>4, Kinds
<1>7. /\ AllSound(<<i>>) /\ DOMAIN <<i>> = {1} /\ <<i>>[1] = i /\ Len(<<i>>) = 1
      /\ \A c \in Classes : Only(<<i>>, c) /\ (Has(<<i>>, c) <=> c = "plan")
  BY <1>5, <1>6, Literals
<1>8. /\ loop.phase # "dispatching" /\ loop.submissionPending = FALSE
      /\ call = NoCall /\ got = {}
  BY Quiescent DEF IInv
<1>9. call.ref # DispatchRef /\ call.ref # LoopRef
  BY <1>8 DEF NoCall, NoRef, Ref, DispatchRef, LoopRef
<1>10. Shapes'
  BY <1>1, <1>3 DEF IInv, Shapes
<1>11. Flight'
  BY <1>1, <1>2, <1>7, <1>8, <1>9 DEF Flight, Classes
<1>12. Answering'
  BY <1>1, <1>2, <1>7, <1>8 DEF Answering, Classes
<1>13. Reporting'
  <2>1. \A k \in DOMAIN queue' : /\ queue'[k] = i /\ ~ Is(i, "dispatch") /\ ~ Is(i, "dispatched")
    BY <1>1, <1>6, <1>7 DEF Classes
  <2>2. ~ Has(queue', "dispatched")
    BY <1>1, <1>7 DEF Classes
  <2>. QED  BY <1>1, <1>4, <1>8, <1>9, <2>1, <2>2 DEF Reporting
<1>14. ShownStage'
  <2>1. stage = NoStage
    BY DEF Pending, IInv, Shapes, StageOK
  <2>2. shown = NoStage
    BY <2>1, QuietShows, NothingStaged
  <2>. QED  BY <1>8, <1>1, <1>2, <1>7, <2>2 DEF ShownStage
<1>. QED  BY <1>1, <1>7, <1>10, <1>11, <1>12, <1>13, <1>14

\* The stage does not change: what the front end was shown is still current.
LEMMA ShownStays ==
    ASSUME IInv, ~ running, UNCHANGED <<stage, shown>>
    PROVE  ShownStage'
<1>1. shown = StageSnapshot(stage) /\ stage.phase \in {"none", "waiting"}
  BY QuietShows, Quiescent DEF IInv
<1>. QED  BY <1>1 DEF ShownStage

\* submitOperation.
LEMMA ApplySubmissionKeeps ==
    ASSUME IInv, ApplySubmission, Outdate
    PROVE  IInv'
<1>. USE DEF model, session
<1>1. /\ pc = "op" /\ ~ running /\ call = NoCall /\ IsSubmission(op) /\ answers' = 0
      /\ pc' = "pull"
      /\ UNCHANGED <<mailbox, session, call, shells, got, scene, shown>>
      /\ fresh' <=> fresh
  BY DEF ApplySubmission, Idle, Outdate
<1>2. OpOK(op)
  BY <1>1 DEF IInv, Operations
<1>3. LoopOK(loop) /\ loop.phase # "dispatching"
  BY <1>1, Quiescent DEF IInv, Shapes
<1>4. ASSUME NEW q, Run(q), stage' = stage, LoopConcluded(TRUE, loop', q)
      PROVE  IInv'
  <2>1. queue' = q /\ AllSound(q)
    BY <1>4 DEF Run, LoopConcluded
  <2>2. Shapes' /\ Flight' /\ Answering' /\ Reporting'
    BY <1>1, <1>4, <2>1, BeginsLoop
  <2>3. ShownStage'
    BY <1>1, <1>4, ShownStays
  <2>. QED  BY <1>1, <1>4, <2>1, <2>2, <2>3, BeginsKeeps
<1>5. CASE Pending(stage)
  <2>1. Run(<<Publish("rejected")>>) /\ stage' = stage /\ loop' = loop
    BY <1>5 DEF ApplySubmission
  <2>2. LoopConcluded(TRUE, loop', <<Publish("rejected")>>)
    BY <1>3, <2>1, LoopAnswers
  <2>. QED  BY <1>4, <2>1, <2>2
<1>6. CASE ~ Pending(stage) /\ op.kind = "stage"
  <2>1. /\ stage' = Start(op.stmt).stage /\ Run(Start(op.stmt).seq) /\ loop' = loop
    BY <1>6 DEF ApplySubmission, Keep
  <2>2. StatementOK(op.stmt)
    BY <1>2, <1>6 DEF OpOK
  <2>3. queue' = Start(op.stmt).seq /\ ~ snapshotRequested'
    BY <2>1 DEF Run
  <2>4. /\ Shapes' /\ Flight' /\ Answering' /\ Reporting' /\ ShownStage'
        /\ AllSound(queue')
    BY <1>1, <1>6, <2>1, <2>2, <2>3, StartBegins
  <2>. QED  BY <1>1, <2>1, <2>3, <2>4, BeginsKeeps
<1>7. CASE ~ Pending(stage) /\ op.kind = "loop"
  <2>. DEFINE l == StartLoop(loop, op.alias, commands)
  <2>1. loop' = l.loop /\ stage' = stage /\ Run(l.seq)
    BY <1>7 DEF ApplySubmission
  <2>2. LoopConcluded(TRUE, l.loop, l.seq)
    BY <1>3, LoopStarted
  <2>. QED  BY <1>4, <2>1, <2>2
<1>8. CASE ~ Pending(stage) /\ op.kind \notin {"stage", "loop"}
  <2>1. Run(CommandSequence(op)) /\ stage' = stage /\ loop' = loop
    BY <1>8 DEF ApplySubmission
  <2>2. LoopConcluded(TRUE, loop', CommandSequence(op))
    BY <1>1, <1>3, <1>8, <2>1, CommandsAnswer
  <2>. QED  BY <1>4, <2>1, <2>2
<1>. QED  BY <1>5, <1>6, <1>7, <1>8

\* A step of the stage begins a run.
LEMMA BeginsStage ==
    ASSUME IInv, ~ running, pc = "op", pc' = "pull", NEW q, Run(q), StageStep(stage, stage', q),
           stage' = stage \/ Has(q, "snap"),
           UNCHANGED <<loop, mailbox, session, call, shells, scene, shown, answers, got>>,
           fresh' <=> fresh
    PROVE  IInv'
<1>1. queue = <<>> /\ stage.phase \in {"none", "waiting"} /\ queue' = q /\ AllSound(q)
  BY Quiescent DEF IInv, Run, StageStep
<1>2. \A c : ~ Has(queue, c)
  BY <1>1, Literals
<1>3. \A c \in Classes : Only(q, c)
  BY StepHasOnly
<1>4. LoopTook(loop, loop')
  BY DEF LoopTook, IInv, Shapes
<1>5. Shapes' /\ Flight' /\ Answering' /\ Reporting'
  BY <1>1, <1>2, <1>3, <1>4, Folded DEF IInv
<1>6. ShownStage'
  <2>1. stage'.phase # "planning"
    BY <1>1 DEF StageStep
  <2>. QED  BY <1>1, <2>1, QuietShows DEF ShownStage
<1>. QED  BY <1>1, <1>5, <1>6, BeginsKeeps

\* takeStageForEdit-, discardStage- and interruptAndDispatchStageOperation.
LEMMA ApplyUserOpKeeps ==
    ASSUME IInv, ApplyUserOp, Outdate
    PROVE  IInv'
<1>. USE DEF model, session, frontEnd
<1>1. /\ pc = "op" /\ ~ running /\ pc' = "pull"
      /\ UNCHANGED <<loop, mailbox, session, call, shells, scene, shown, answers, got>>
      /\ fresh' <=> fresh
  BY DEF ApplyUserOp, Idle, Outdate, NotRunning, Keep
<1>2. StageOK(stage) /\ stage.phase \in {"none", "waiting"}
  BY <1>1, Quiescent DEF IInv, Shapes
<1>3. CASE UNCHANGED stage /\ Run(<<>>)
  <2>1. StageStep(stage, stage', <<>>)
    BY <1>2, <1>3, PlainOnes, StageStays
  <2>. QED  BY <1>1, <1>3, <2>1, BeginsStage
<1>4. CASE op.kind = "interrupt" /\ CanInterrupt(stage)
  <2>. DEFINE order == InOrder(Interruptible(stage))
              s == Interrupt(stage, order)
  <2>1. stage' = s.stage /\ Run(s.seq)
    BY <1>4 DEF ApplyUserOp, Keep
  <2>2. stage.phase = "waiting"
    BY <1>2, <1>4 DEF CanInterrupt, Pending
  <2>3. order \in Seq(Alias)
    <3>1. Interruptible(stage) \subseteq Alias
      BY <1>2 DEF Interruptible, StageOK
    <3>2. order \in Seq(Interruptible(stage))
      BY OrderedNames
    <3>. QED  BY <3>1, <3>2
  <2>. HIDE DEF order
  <2>4. StageStep(stage, s.stage, s.seq) /\ Has(s.seq, "snap")
    BY <1>2, <2>2, <2>3, InterruptStep
  <2>. QED  BY <1>1, <2>1, <2>4, BeginsStage
<1>5. CASE op.kind # "interrupt" /\ Pending(stage)
  <2>. DEFINE R == <<RequestSnapshot>>
  <2>1. stage' = NoStage /\ Run(R)
    BY <1>1, <1>5, StepParts DEF ApplyUserOp, Keep, Abandon
  <2>2. stage.phase = "waiting" /\ stage.submissionPending = FALSE
    BY <1>1, <1>2, <1>5, Quiescent DEF Pending, IInv
  <2>3. Plain(R) /\ Has(R, "snap")
    BY PlainOnes
  <2>. HIDE DEF R
  <2>4. \A c \in Classes : ~ Has(R, c) /\ Only(R, c)
    BY <2>3, OnlyIfSeq DEF Plain
  <2>5. StageStep(stage, NoStage, R)
    BY <2>2, <2>3, <2>4, NothingStaged DEF StageStep, Plain, Classes
  <2>. QED  BY <1>1, <2>1, <2>3, <2>5, BeginsStage
<1>. QED  BY <1>3, <1>4, <1>5 DEF ApplyUserOp

\* workflowShellCompletedOperation, shellCompletedOperation.
LEMMA ApplyShellKeeps ==
    ASSUME IInv, ApplyShell, Outdate
    PROVE  IInv'
<1>. USE DEF session, frontEnd
<1>1. /\ pc = "op" /\ ~ running /\ pc' = "pull" /\ stage' = stage
      /\ UNCHANGED <<mailbox, session, call, shells, scene, shown, answers, got>>
      /\ fresh' <=> fresh
  BY DEF ApplyShell, Idle, Outdate, NotRunning
<1>2. LoopOK(loop) /\ loop.phase # "dispatching" /\ answers = 1
  BY <1>1, Quiescent DEF IInv, Shapes
<1>3. ASSUME NEW q, Run(q), LoopConcluded(FALSE, loop', q)
      PROVE  IInv'
  <2>1. queue' = q /\ AllSound(q)
    BY <1>3 DEF Run, LoopConcluded
  <2>2. Shapes' /\ Flight' /\ Answering' /\ Reporting'
    BY <1>1, <1>2, <1>3, <2>1, BeginsLoop
  <2>3. ShownStage'
    BY <1>1, ShownStays
  <2>. QED  BY <1>1, <1>3, <2>1, <2>2, <2>3, BeginsKeeps
<1>4. CASE op.kind = "loopShell"
  <2>. DEFINE l == LoopShellDone(loop, op.result)
  <2>1. loop' = l.loop /\ Run(l.seq)
    BY <1>4 DEF ApplyShell
  <2>2. LoopConcluded(FALSE, l.loop, l.seq)
    BY <1>2, LoopShellHandled
  <2>. QED  BY <1>3, <2>1, <2>2
<1>5. CASE op.kind # "loopShell"
  <2>. DEFINE q == <<AppendRecord, Publish("shellCompleted"), PublishSnapshot>>
  <2>1. loop' = loop /\ Run(q)
    BY <1>5 DEF ApplyShell
  <2>2. Plain(q)
    <3>1. /\ Telling(AppendRecord) /\ Telling(Publish("shellCompleted"))
          /\ Telling(PublishSnapshot)
      BY DEF Telling, AppendRecord, Publish, PublishSnapshot
    <3>2. /\ Plain(<<AppendRecord>>) /\ Plain(<<Publish("shellCompleted")>>)
          /\ Plain(<<PublishSnapshot>>)
      BY <3>1, TellingIsPlain
    <3>3. Plain(<<AppendRecord>> \o (<<Publish("shellCompleted")>> \o <<PublishSnapshot>>))
      BY <3>2, PlainCat
    <3>. QED  BY <3>3, Three
  <2>3. LoopConcluded(FALSE, loop, q)
    BY <1>2, <2>2, LoopPlain
  <2>. QED  BY <1>3, <2>1, <2>3
<1>. QED  BY <1>4, <1>5

(***************************************************************************)
(* The instruction runner                                                  *)
(***************************************************************************)

\* A step of the runner that leaves the operations alone.
LEMMA RunKeeps ==
    ASSUME IInv, running, running', UNCHANGED <<pc, op, session, mailbox, shells>>,
           Types(scene'), AllSound(queue'),
           Shapes', Flight', Answering', Reporting', ShownStage', ShownParts'
    PROVE  IInv'
<1>. USE DEF session, mailbox
<1>1. Lists'
  BY DEF IInv, Lists, AllSound
<1>2. Operations'
  BY StillOperations DEF IInv
<1>3. Resting'
  BY DEF Resting
<1>4. Draining'
  BY StillDraining DEF IInv
<1>. QED  BY <1>1, <1>2, <1>3, <1>4 DEF IInv, Showing

\* A plan on its way is all there is.
LEMMA PlanningAlone ==
    ASSUME IInv, stage.phase = "planning"
    PROVE  /\ Len(queue) = 1 /\ Is(Head(queue), "plan") /\ queue # <<>> /\ call = NoCall
           /\ shown = NoStage /\ ~ snapshotRequested
<1>1. /\ Len(queue) = 1 /\ Has(queue, "plan") /\ IsSeq(queue) /\ call = NoCall
      /\ shown = NoStage /\ ~ snapshotRequested
  BY DEF IInv, Showing, ShownStage, Flight, Lists, AllSound
<1>2. queue # <<>> /\ DOMAIN queue = {1} /\ Head(queue) = queue[1]
  BY <1>1, SeqFacts, Rest
<1>. QED  BY <1>1, <1>2 DEF Has

\* The parts shown stay current, or a snapshot is still on its way.
LEMMA PartsStay ==
    ASSUME ShownParts, UNCHANGED <<inbox, owed, leaving>>, fresh => fresh',
           snapshotRequested => snapshotRequested' \/ fresh',
           Has(queue, "snap") => Has(queue', "snap") \/ snapshotRequested' \/ fresh'
    PROVE  ShownParts'
  BY DEF ShownParts

\* Likewise the stage, when no plan is on its way.
LEMMA StageStaysShown ==
    ASSUME ShownStage, UNCHANGED <<stage, shown>>, stage.phase # "planning",
           snapshotRequested => snapshotRequested',
           Has(queue, "snap") => Has(queue', "snap") \/ snapshotRequested'
    PROVE  ShownStage'
  BY DEF ShownStage

\* The head is replaced by items that lead to the same.
LEMMA Swapped ==
    ASSUME Shapes, Flight, Answering, Reporting,
           UNCHANGED <<stage, loop, call, answers, got>>,
           NEW h, NEW r, NEW q, Split(queue, h, r), Joined(queue', q, r),
           \A c \in Classes : Only(q, c) /\ (Has(q, c) <=> Is(h, c)),
           \A k \in DOMAIN q : /\ ~ Is(q[k], "dispatch") /\ ~ Is(q[k], "dispatched")
                               /\ Is(q[k], "plan") => Planned(stage, q[k])
    PROVE  Shapes' /\ Flight' /\ Answering' /\ Reporting'
<1>1. \A c \in Classes : Has(queue', c) <=> Has(queue, c)
  BY DEF Split, Joined
<1>2. \A c \in Classes : Only(queue', c)
  BY DEF Split, Joined, Flight
<1>3. /\ Has(queue', "plan") <=> Has(queue, "plan")
      /\ Has(queue', "source") <=> Has(queue, "source")
      /\ Has(queue', "dispatch") <=> Has(queue, "dispatch")
      /\ Has(queue', "loop") <=> Has(queue, "loop")
      /\ Has(queue', "answer") <=> Has(queue, "answer")
      /\ Has(queue', "dispatched") <=> Has(queue, "dispatched")
  BY <1>1 DEF Classes
<1>4. Shapes'
  BY DEF Shapes
<1>5. Flight'
  BY <1>2, <1>3 DEF Flight
<1>6. Answering'
  BY <1>3 DEF Answering
<1>7. Reporting'
  <2>1. ASSUME NEW k \in DOMAIN queue'
        PROVE  /\ Is(queue'[k], "plan") => Planned(stage, queue'[k])
               /\ Is(queue'[k], "dispatch") => Dispatching(stage, queue'[k], got)
               /\ Is(queue'[k], "dispatched") => got # {} /\ queue'[k].routing = got
    <3>1. CASE \E j \in DOMAIN q : queue'[k] = q[j]
      BY <3>1
    <3>2. CASE \E j \in DOMAIN r : queue'[k] = r[j]
      <4>1. \E j \in DOMAIN queue : queue'[k] = queue[j]
        BY <3>2 DEF Split
      <4>. QED  BY <4>1 DEF Reporting
    <3>. QED  BY <3>1, <3>2, <2>1 DEF Joined
  <2>. QED  BY <1>3, <2>1 DEF Reporting
<1>. QED  BY <1>4, <1>5, <1>6, <1>7

\* The head answers the submission.
LEMMA Answered ==
    ASSUME Shapes, Flight, Answering, Reporting, UNCHANGED <<stage, loop, call, got>>,
           NEW h, NEW r, Split(queue, h, r), queue' = r, answers' = answers + 1,
           \A c \in Classes : Is(h, c) <=> c = "answer"
    PROVE  Shapes' /\ Flight' /\ Answering' /\ Reporting'
<1>1. \A c \in Classes : c # "answer" => (Has(queue', c) <=> Has(queue, c))
  BY DEF Split
<1>2. \A c \in Classes : Only(queue', c)
  BY DEF Split, Flight
<1>3. /\ Has(queue', "plan") <=> Has(queue, "plan")
      /\ Has(queue', "source") <=> Has(queue, "source")
      /\ Has(queue', "dispatch") <=> Has(queue, "dispatch")
      /\ Has(queue', "loop") <=> Has(queue, "loop")
      /\ Has(queue', "dispatched") <=> Has(queue, "dispatched")
      /\ Has(queue, "answer") /\ ~ Has(queue', "answer")
  BY <1>1 DEF Classes, Split, Flight
<1>4. Shapes'
  BY DEF Shapes
<1>5. Flight'
  BY <1>2, <1>3 DEF Flight
<1>6. Answering'
  BY <1>3 DEF Answering
<1>7. Reporting'
  <2>1. \A k \in DOMAIN queue' : \E j \in DOMAIN queue : queue'[k] = queue[j]
    BY DEF Split
  <2>. QED  BY <1>3, <2>1 DEF Reporting
<1>. QED  BY <1>4, <1>5, <1>6, <1>7

\* The head reports the dispatch.
LEMMA Reported ==
    ASSUME Shapes, Flight, Answering, Reporting, UNCHANGED <<stage, loop, call, answers>>,
           NEW h, NEW r, Split(queue, h, r), queue' = r, got' = {},
           \A c \in Classes : Is(h, c) <=> c = "dispatched"
    PROVE  Shapes' /\ Flight' /\ Answering' /\ Reporting'
<1>1. \A c \in Classes : c # "dispatched" => (Has(queue', c) <=> Has(queue, c))
  BY DEF Split
<1>2. \A c \in Classes : Only(queue', c)
  BY DEF Split, Flight
<1>3. /\ Has(queue', "plan") <=> Has(queue, "plan")
      /\ Has(queue', "source") <=> Has(queue, "source")
      /\ Has(queue', "dispatch") <=> Has(queue, "dispatch")
      /\ Has(queue', "loop") <=> Has(queue, "loop")
      /\ Has(queue', "answer") <=> Has(queue, "answer")
      /\ Has(queue, "dispatched") /\ ~ Has(queue', "dispatched")
  BY <1>1 DEF Classes, Split, Flight
<1>4. Shapes'
  BY DEF Shapes
<1>5. Flight'
  BY <1>2, <1>3 DEF Flight
<1>6. Answering'
  BY <1>3 DEF Answering
<1>7. Reporting'
  <2>1. stage.phase = "none" /\ ~ Has(queue, "dispatch") /\ ~ Has(queue, "plan")
        /\ call.ref # DispatchRef
    BY <1>3 DEF Reporting, Flight
  <2>2. \A k \in DOMAIN queue' : /\ ~ Is(queue'[k], "plan") /\ ~ Is(queue'[k], "dispatch")
                                 /\ ~ Is(queue'[k], "dispatched")
    BY <1>3, <2>1 DEF Has
  <2>. QED  BY <1>3, <2>1, <2>2 DEF Reporting
<1>. QED  BY <1>4, <1>5, <1>6, <1>7

LEMMA NothingBefore ==
    ASSUME NEW q, IsSeq(q)
    PROVE  <<>> \o q = q /\ q \o <<>> = q
  BY DEF IsSeq

\* The end of Run.
LEMMA EndRunKeeps ==
    ASSUME IInv, EndRun
    PROVE  IInv'
<1>. USE DEF session, mailbox, frontEnd, model
<1>1. /\ running /\ queue = <<>> /\ call = NoCall /\ ~ running' /\ ~ snapshotRequested'
      /\ UNCHANGED <<pc, op, queue, session, mailbox, call, stage, loop, shells, frontEnd, scene>>
      /\ shown' = IF snapshotRequested THEN StageSnapshot(stage) ELSE shown
      /\ fresh' <=> (fresh \/ snapshotRequested)
  BY DEF EndRun, Show
<1>2. \A c : ~ Has(queue, c)
  BY <1>1, Literals
<1>3. call.ref # DispatchRef
  BY <1>1 DEF NoCall, NoRef, Ref, DispatchRef
<1>4. stage.phase \in {"none", "waiting"}
  BY <1>2, <1>3 DEF IInv, Shapes, StageOK, Flight, StagePhases
<1>5. Shapes' /\ Flight' /\ Answering' /\ Reporting'
  BY <1>1, StillFlying DEF IInv
<1>6. Lists'
  BY <1>1, StillLists DEF IInv
<1>7. Operations'
  BY <1>1, StillOperations DEF IInv, Operations
<1>8. Resting'
  BY <1>1 DEF Resting
<1>9. Draining'
  BY <1>1, StillDraining DEF IInv
<1>10. ShownStage'
  BY <1>1, <1>2, <1>4 DEF ShownStage, IInv, Showing
<1>11. ShownParts'
  BY <1>1, <1>2 DEF ShownParts, IInv, Showing
<1>. QED  BY <1>5, <1>6, <1>7, <1>8, <1>9, <1>10, <1>11 DEF IInv, Showing

\* What is known of the head of the queue while the runner is at it.
LEMMA AtWork ==
    ASSUME IInv, NEW what, Running(what)
    PROVE  /\ running /\ call = NoCall /\ queue # <<>> /\ Head(queue).do \in what
           /\ Split(queue, Head(queue), Tail(queue)) /\ Sound(Head(queue))
           /\ AllSound(Tail(queue)) /\ AllSound(queue)
           /\ Is(Head(queue), "plan") => Planned(stage, Head(queue))
           /\ Is(Head(queue), "dispatch") => Dispatching(stage, Head(queue), got)
           /\ call.ref # DispatchRef
           /\ stage.phase = "planning" => Is(Head(queue), "plan") /\ Tail(queue) = <<>>
<1>1. running /\ call = NoCall /\ queue # <<>> /\ Head(queue).do \in what /\ AllSound(queue)
  BY DEF Running, Current, IInv, Lists
<1>2. Split(queue, Head(queue), Tail(queue))
  BY <1>1, Splits
<1>3. \E k \in DOMAIN queue : queue[k] = Head(queue)
  BY <1>2 DEF Split
<1>4. call.ref # DispatchRef
  BY <1>1 DEF NoCall, NoRef, Ref, DispatchRef
<1>5. ASSUME stage.phase = "planning"
      PROVE  Is(Head(queue), "plan") /\ Tail(queue) = <<>>
  <2>1. Len(queue) = 1 /\ Is(Head(queue), "plan")
    BY <1>5, PlanningAlone
  <2>2. Len(Tail(queue)) = 0 /\ IsSeq(Tail(queue))
    BY <1>2, <2>1 DEF Split, AllSound
  <2>. QED  BY <2>1, <2>2, SeqFacts
<1>. QED  BY <1>1, <1>2, <1>3, <1>4, <1>5 DEF IInv, Reporting, Split

\* The head goes, and leads to nothing more.
LEMMA Dropped ==
    ASSUME Shapes, Flight, Answering, Reporting,
           UNCHANGED <<stage, loop, call, answers, got>>,
           NEW h, NEW r, Split(queue, h, r), queue' = r, \A c \in Classes : ~ Is(h, c)
    PROVE  Shapes' /\ Flight' /\ Answering' /\ Reporting'
<1>1. AllSound(<<>>) /\ \A c : ~ Has(<<>>, c) /\ Only(<<>>, c)
  BY Literals
<1>2. IsSeq(r)
  BY DEF Split, AllSound
<1>3. Joined(queue', <<>>, r)
  BY <1>1, <1>2, Joins, NothingBefore DEF Split
<1>. DEFINE q == <<>>
<1>4. \A c \in Classes : Only(q, c) /\ (Has(q, c) <=> Is(h, c))
  BY <1>1
<1>5. \A k \in DOMAIN q : /\ ~ Is(q[k], "dispatch") /\ ~ Is(q[k], "dispatched")
                          /\ Is(q[k], "plan") => Planned(stage, q[k])
  OBVIOUS
<1>6. Joined(queue', q, r)
  BY <1>3
<1>. HIDE DEF q
<1>. QED  BY <1>4, <1>5, <1>6, Swapped

\* applyStateInstruction.
LEMMA TellKeeps ==
    ASSUME IInv, Tell
    PROVE  IInv'
<1>. USE DEF session, mailbox, model
<1>. DEFINE h == Head(queue)
            r == Tail(queue)
<1>1. /\ Running({"publish", "append", "requestSnapshot", "publishSnapshot"})
      /\ queue' = <<>> \o r
      /\ snapshotRequested' <=> (snapshotRequested \/ h.do = "requestSnapshot")
      /\ shown' = IF h.do = "publishSnapshot" THEN StageSnapshot(stage) ELSE shown
      /\ fresh' <=> (fresh \/ h.do = "publishSnapshot")
      /\ answers' = IF IsPublish(h, {"succeeded", "failed", "rejected", "unknown"})
                    THEN answers + 1 ELSE answers
      /\ got' = IF IsPublish(h, {"dispatched"}) THEN {} ELSE got
      /\ UNCHANGED <<pc, op, running, session, mailbox, call, stage, loop, shells, scene>>
  BY DEF Tell, Replace, Show, Still, Current
<1>2. /\ running /\ Split(queue, h, r) /\ AllSound(r)
      /\ h.do \in {"publish", "append", "requestSnapshot", "publishSnapshot"}
      /\ stage.phase = "planning" => Is(h, "plan")
  BY <1>1, AtWork
<1>. HIDE DEF h, r
<1>3. queue' = r
  BY <1>1, <1>2, NothingBefore DEF AllSound
<1>4. Shapes' /\ Flight' /\ Answering' /\ Reporting'
  <2>1. CASE IsPublish(h, {"succeeded", "failed", "rejected", "unknown"})
    <3>1. answers' = answers + 1 /\ got' = got
      BY <1>1, <2>1 DEF IsPublish
    <3>2. \A c \in Classes : Is(h, c) <=> c = "answer"
      BY <2>1, Kinds
    <3>. QED  BY <1>1, <1>2, <1>3, <3>1, <3>2, Answered DEF IInv
  <2>2. CASE IsPublish(h, {"dispatched"})
    <3>1. answers' = answers /\ got' = {}
      BY <1>1, <2>2 DEF IsPublish
    <3>2. \A c \in Classes : Is(h, c) <=> c = "dispatched"
      BY <2>2, Kinds
    <3>. QED  BY <1>1, <1>2, <1>3, <3>1, <3>2, Reported DEF IInv
  <2>3. CASE /\ ~ IsPublish(h, {"succeeded", "failed", "rejected", "unknown"})
             /\ ~ IsPublish(h, {"dispatched"})
    <3>1. Telling(h)
      BY <1>2, <2>3 DEF Telling, IsPublish
    <3>2. \A c \in Classes : ~ Is(h, c)
      BY <3>1, TellingIsPlain, Literals DEF Plain
    <3>3. answers' = answers /\ got' = got
      BY <1>1, <2>3
    <3>. QED  BY <1>1, <1>2, <1>3, <3>2, <3>3, Dropped DEF IInv
  <2>. QED  BY <2>1, <2>2, <2>3
<1>5. stage.phase # "planning"
  BY <1>2 DEF Is, Asks
<1>6. Has(queue, "snap") => Has(queue', "snap") \/ h.do \in {"requestSnapshot", "publishSnapshot"}
  <2>1. Is(h, "snap") => h.do \in {"requestSnapshot", "publishSnapshot"}
    BY <1>2 DEF Is, Shows
  <2>. QED  BY <1>2, <1>3, <2>1 DEF Split
<1>7. ShownStage'
  <2>1. CASE h.do = "publishSnapshot"
    BY <1>1, <1>5, <2>1 DEF ShownStage
  <2>2. CASE h.do # "publishSnapshot"
    <3>1. shown' = shown
      BY <1>1, <2>2
    <3>. QED  BY <1>1, <1>5, <1>6, <2>2, <3>1, StageStaysShown DEF IInv, Showing
  <2>. QED  BY <2>1, <2>2
<1>8. ShownParts'
  BY <1>1, <1>6, PartsStay DEF IInv, Showing
<1>9. Types(scene')
  BY <1>1 DEF IInv, Operations
<1>. QED  BY <1>1, <1>2, <1>3, <1>4, <1>7, <1>8, <1>9, RunKeeps

\* One item takes the place of the head.
LEMMA OneForOne ==
    ASSUME IInv, NEW h, NEW r, Split(queue, h, r), running, running', NEW x, Sound(x),
           queue' = <<x>> \o r,
           UNCHANGED <<pc, op, snapshotRequested, session, mailbox, call, stage, loop, shells,
                       answers, got, scene, shown>>,
           fresh' <=> fresh,
           \A c \in Classes : Is(x, c) <=> Is(h, c), Is(h, "snap") => Is(x, "snap"),
           Is(x, "plan") => Planned(stage, x),
           ~ Is(h, "dispatch"), ~ Is(h, "dispatched")
    PROVE  IInv'
<1>. USE DEF session, mailbox
<1>. DEFINE q == <<x>>
<1>1. /\ AllSound(q) /\ Len(q) = 1
      /\ \A c : (Has(q, c) <=> Is(x, c)) /\ Only(q, c)
      /\ \A k \in DOMAIN q : q[k] = x
  BY Literals
<1>2. queue' = q \o r
  OBVIOUS
<1>. HIDE DEF q
<1>3. Joined(queue', q, r)
  BY <1>1, <1>2, Joins DEF Split
<1>4. \A c \in Classes : Only(q, c) /\ (Has(q, c) <=> Is(h, c))
  BY <1>1
<1>5. ~ Is(x, "dispatch") /\ ~ Is(x, "dispatched")
  BY DEF Classes
<1>6. \A k \in DOMAIN q : /\ ~ Is(q[k], "dispatch") /\ ~ Is(q[k], "dispatched")
                          /\ Is(q[k], "plan") => Planned(stage, q[k])
  BY <1>1, <1>5
<1>7. Shapes' /\ Flight' /\ Answering' /\ Reporting'
  BY <1>3, <1>4, <1>6, Swapped DEF IInv
<1>8. /\ AllSound(queue') /\ Len(queue') = Len(queue)
      /\ Has(queue, "snap") => Has(queue', "snap")
  BY <1>1, <1>3 DEF Split, Joined
<1>9. ShownStage'
  BY <1>8 DEF ShownStage, IInv, Showing
<1>10. ShownParts'
  BY <1>8, PartsStay DEF IInv, Showing
<1>11. Types(scene')
  BY DEF IInv, Operations
<1>. QED  BY <1>7, <1>8, <1>9, <1>10, <1>11, RunKeeps

\* The instructions that only read are replaced by their completion.
LEMMA ReadKeeps ==
    ASSUME IInv, Read, Outdate
    PROVE  IInv'
<1>. USE DEF session, mailbox, model, frontEnd
<1>. DEFINE h == Head(queue)
            r == Tail(queue)
            live == {a \in Known : part[a].status # "crashed"}
            readers == {"planShared", "planBroadcast", "readParticipants", "readSource",
                        "readRoster"}
            x == CASE h.do = "planShared" ->
                          PlanDone({h.alias} \cup (IF scene.notices THEN live ELSE {}))
                   [] h.do = "planBroadcast"    -> PlanDone(live)
                   [] h.do = "readParticipants" ->
                          ParticipantsDone([a \in Known |-> part[a]])
                   [] h.do = "readRoster" -> RosterDone
                   [] h.do = "readSource" -> SourceDone(h.alias \in sources)
<1>1. /\ Running(readers) /\ queue' = <<x>> \o r
      /\ UNCHANGED <<pc, op, running, snapshotRequested, session, mailbox, call, stage, loop,
                     shells, answers, got, scene, shown>>
      /\ fresh' <=> fresh
  BY DEF Read, Replace, Still, Current, Outdate
<1>2. /\ running /\ Split(queue, h, r) /\ AllSound(r) /\ h.do \in readers
      /\ Is(h, "plan") => Planned(stage, h) /\ Has(queue, "plan")
  <2>1. /\ running /\ Split(queue, h, r) /\ AllSound(r) /\ h.do \in readers
        /\ Is(h, "plan") => Planned(stage, h)
    BY <1>1, AtWork
  <2>. HIDE DEF h, r, readers
  <2>. QED  BY <2>1 DEF Split
<1>3. live \subseteq Alias /\ Known \subseteq Alias
  BY DEF Known
<1>. HIDE DEF live
<1>4. ASSUME NEW y, x = y, Sound(y), \A c \in Classes : Is(y, c) <=> Is(h, c),
             Is(h, "snap") => Is(y, "snap"), Is(y, "plan") => Planned(stage, y),
             ~ Is(h, "dispatch"), ~ Is(h, "dispatched")
      PROVE  IInv'
  <2>1. queue' = <<y>> \o r
    BY <1>1, <1>4
  <2>. HIDE DEF h, r, readers, x
  <2>2. UNCHANGED <<pc, op, running, snapshotRequested, session, mailbox, call, stage, loop,
                    shells, answers, got, scene, shown>>
    BY <1>1
  <2>3. fresh' <=> fresh
    BY <1>1
  <2>. QED  BY <1>2, <1>4, <2>1, <2>2, <2>3, OneForOne
<1>5. Is(h, "plan") => StatementOK(stage.stmt)
  <2>. HIDE DEF h
  <2>1. Has(queue, "plan") => stage.phase = "planning"
    BY DEF IInv, Flight
  <2>2. stage.phase = "planning" => StatementOK(stage.stmt)
    BY DEF IInv, Shapes, StageOK
  <2>. QED  BY <1>2, <2>1, <2>2
<1>6. ASSUME h.do \in {"planShared", "planBroadcast"}, NEW targets, x = PlanDone(targets),
             targets \subseteq Alias, h.do = "planShared" => h.alias \in targets
      PROVE  IInv'
  <2>. DEFINE y == PlanDone(targets)
  <2>1. y.do = "planDone" /\ y.targets = targets
    BY DEF PlanDone
  <2>. HIDE DEF h, x, y
  <2>2. \A c \in Classes : (Is(h, c) <=> c = "plan") /\ (Is(y, c) <=> c = "plan")
    BY <1>6, <2>1, Kinds DEF Asks
  <2>3. Sound(y)
    BY <1>6, <2>1 DEF Sound, Asks, Requests
  <2>4. Planned(stage, h)
    BY <1>2, <2>2 DEF Classes
  <2>5. Planned(stage, y)
    BY <1>6, <2>1, <2>4 DEF Planned
  <2>6. ~ Is(h, "snap")
    BY <1>6 DEF Is, Shows
  <2>7. ~ Is(h, "dispatch") /\ ~ Is(h, "dispatched")
    BY <2>2 DEF Classes
  <2>. QED  BY <1>4, <1>6, <2>2, <2>3, <2>5, <2>6, <2>7 DEF y
<1>7. CASE h.do = "planShared"
  <2>. DEFINE targets == {h.alias} \cup (IF scene.notices THEN live ELSE {})
  <2>1. x = PlanDone(targets)
    BY <1>7
  <2>2. targets \subseteq Alias
    <3>. HIDE DEF h
    <3>1. Is(h, "plan")
      BY <1>7 DEF Is, Asks
    <3>2. stage.stmt.kind = "send" /\ h.alias = stage.stmt.to
      BY <1>2, <1>7, <3>1 DEF Planned
    <3>. QED  BY <1>3, <1>5, <3>1, <3>2 DEF StatementOK
  <2>3. h.alias \in targets
    OBVIOUS
  <2>. HIDE DEF targets, h, x
  <2>. QED  BY <1>6, <1>7, <2>1, <2>2, <2>3
<1>8. CASE h.do = "planBroadcast"
  <2>1. x = PlanDone(live)
    BY <1>8
  <2>. HIDE DEF h, x
  <2>. QED  BY <1>3, <1>6, <1>8, <2>1
<1>9. CASE h.do = "readParticipants"
  <2>. DEFINE seen == [a \in Known |-> part[a]]
              y == ParticipantsDone(seen)
  <2>1. x = y
    BY <1>9
  <2>2. y.do = "participantsDone" /\ DOMAIN y.barrier \subseteq Alias
    BY <1>3 DEF ParticipantsDone
  <2>. HIDE DEF h, x, y
  <2>3. \A c \in Classes : (Is(h, c) <=> c = "plan") /\ (Is(y, c) <=> c = "plan")
    BY <1>9, <2>2, Kinds DEF Asks
  <2>4. Sound(y)
    BY <2>2 DEF Sound, Asks, Requests
  <2>5. Planned(stage, h)
    BY <1>2, <2>3 DEF Classes
  <2>6. Planned(stage, y)
    BY <1>9, <2>2, <2>5 DEF Planned
  <2>7. ~ Is(h, "snap")
    BY <1>9 DEF Is, Shows
  <2>8. ~ Is(h, "dispatch") /\ ~ Is(h, "dispatched")
    BY <2>3 DEF Classes
  <2>. QED  BY <1>4, <2>1, <2>3, <2>4, <2>6, <2>7, <2>8
<1>10. CASE h.do = "readRoster"
  <2>. DEFINE y == RosterDone
  <2>1. x = y
    BY <1>10
  <2>2. y.do = "rosterDone"
    BY DEF RosterDone
  <2>. HIDE DEF h, x, y
  <2>3. \A c \in Classes : (Is(h, c) <=> c = "answer") /\ (Is(y, c) <=> c = "answer")
    BY <1>10, <2>2, Kinds DEF Answers
  <2>4. Sound(y)
    BY <2>2 DEF Sound, Answers, Requests
  <2>5. Is(y, "snap")
    BY <2>2 DEF Is, Shows
  <2>6. ~ Is(h, "dispatch") /\ ~ Is(h, "dispatched") /\ ~ Is(y, "plan")
    BY <2>3 DEF Classes
  <2>. QED  BY <1>4, <2>1, <2>3, <2>4, <2>5, <2>6
<1>11. CASE h.do = "readSource"
  <2>. DEFINE y == SourceDone(h.alias \in sources)
  <2>1. x = y
    BY <1>11
  <2>2. y.do = "sourceDone"
    BY DEF SourceDone
  <2>. HIDE DEF h, x, y
  <2>3. \A c \in Classes : (Is(h, c) <=> c = "source") /\ (Is(y, c) <=> c = "source")
    BY <1>11, <2>2, Kinds DEF Sources
  <2>4. Sound(y)
    BY <2>2 DEF Sound, Sources, Requests
  <2>5. ~ Is(h, "snap")
    BY <1>11 DEF Is, Shows
  <2>6. ~ Is(h, "dispatch") /\ ~ Is(h, "dispatched") /\ ~ Is(y, "plan")
    BY <2>3 DEF Classes
  <2>. QED  BY <1>4, <2>1, <2>3, <2>4, <2>5, <2>6
<1>. QED  BY <1>2, <1>7, <1>8, <1>9, <1>10, <1>11

\* startShellInstruction, startUserShellInstruction.
LEMMA LaunchShellKeeps ==
    ASSUME IInv, LaunchShell, Outdate
    PROVE  IInv'
<1>. USE DEF session, mailbox, model
<1>. DEFINE h == Head(queue)
            r == Tail(queue)
<1>1. /\ Running({"startShell", "startUserShell"}) /\ queue' = <<>> \o r
      /\ shells' \subseteq shells \cup {"loopShell", "userShell"}
      /\ answers' = answers + (IF h.do = "startUserShell" THEN 1 ELSE 0)
      /\ UNCHANGED <<pc, op, running, snapshotRequested, session, mailbox, call, stage, loop,
                     got, scene, shown>>
      /\ fresh' <=> fresh
  BY DEF LaunchShell, Replace, Still, Current, Outdate
<1>2. /\ running /\ Split(queue, h, r) /\ AllSound(r)
      /\ h.do \in {"startShell", "startUserShell"}
      /\ stage.phase = "planning" => Is(h, "plan")
  BY <1>1, AtWork
<1>. HIDE DEF h, r
<1>3. queue' = r
  BY <1>1, <1>2, NothingBefore DEF AllSound
<1>4. Shapes' /\ Flight' /\ Answering' /\ Reporting'
  <2>1. CASE h.do = "startUserShell"
    <3>1. \A c \in Classes : Is(h, c) <=> c = "answer"
      BY <2>1, Kinds DEF Answers
    <3>2. answers' = answers + 1
      BY <1>1, <2>1
    <3>. QED  BY <1>1, <1>2, <1>3, <3>1, <3>2, Answered DEF IInv
  <2>2. CASE h.do = "startShell"
    <3>1. \A c \in Classes : ~ Is(h, c)
      BY <2>2, TellingIsPlain, Literals DEF Plain, Telling
    <3>2. answers' = answers
      BY <1>1, <2>2 DEF IInv, Answering
    <3>. QED  BY <1>1, <1>2, <1>3, <3>1, <3>2, Dropped DEF IInv
  <2>. QED  BY <1>2, <2>1, <2>2
<1>5. stage.phase # "planning"
  BY <1>2 DEF Is, Asks
<1>6. Has(queue, "snap") => Has(queue', "snap")
  <2>1. ~ Is(h, "snap")
    BY <1>2 DEF Is, Shows
  <2>. QED  BY <1>2, <1>3, <2>1 DEF Split
<1>7. ShownStage'
  BY <1>1, <1>5, <1>6, StageStaysShown DEF IInv, Showing
<1>8. ShownParts'
  BY <1>1, <1>6, PartsStay DEF IInv, Showing
<1>9. Lists'
  BY <1>1, <1>2, <1>3 DEF IInv, Lists
<1>10. Operations'
  BY <1>1 DEF IInv, Operations
<1>11. Resting'
  BY <1>1, <1>2 DEF Resting
<1>12. Draining'
  BY <1>1, StillDraining DEF IInv
<1>. QED  BY <1>4, <1>7, <1>8, <1>9, <1>10, <1>11, <1>12 DEF IInv, Showing

(***************************************************************************)
(* Completions and bursts                                                  *)
(***************************************************************************)

\* The items of three parts, the later two empty.
LEMMA NothingAfter ==
    ASSUME NEW q, AllSound(q)
    PROVE  q \o <<>> \o <<>> = q
  BY NothingBefore DEF AllSound

\* A completion of the stage: its workflow goes on, and its instructions come next.
LEMMA StageGoesOn ==
    ASSUME IInv, NEW h, NEW r, Split(queue, h, r), running, running',
           NEW q, NEW c0 \in {"plan", "source", "dispatch"},
           \A c \in Classes : Is(h, c) <=> c = c0, ~ Is(h, "snap"),
           queue' = q \o r, Concluded(stage, stage', q, got),
           stage.phase = "planning" => r = <<>>,
           UNCHANGED <<pc, op, snapshotRequested, session, mailbox, call, loop, shells,
                       answers, got, scene, shown>>,
           fresh' <=> fresh
    PROVE  IInv'
<1>. USE DEF session, mailbox
<1>1. Joined(queue', q, r)
  BY Joins DEF Split, Concluded
<1>2. Shapes' /\ Flight' /\ Answering' /\ Reporting'
  BY <1>1, Concluding DEF IInv
<1>3. AllSound(queue') /\ (Has(queue', "snap") <=> Has(q, "snap") \/ Has(queue, "snap"))
  BY <1>1 DEF Joined, Split
<1>4. ShownStage'
  <2>1. stage'.phase = "planning" =>
            shown' = NoStage /\ Len(queue') = 1 /\ ~ snapshotRequested' /\ call' = NoCall
    <3>1. SUFFICES ASSUME stage'.phase = "planning"
                   PROVE  shown = NoStage /\ Len(queue') = 1 /\ ~ snapshotRequested /\ call = NoCall
      OBVIOUS
    <3>2. stage.phase = "planning" /\ Len(q) = 1
      BY <3>1 DEF Concluded
    <3>3. r = <<>> /\ Len(r) = 0
      BY <3>2
    <3>4. Len(queue') = 1
      BY <1>1, <3>2, <3>3 DEF Joined
    <3>. QED  BY <3>2, <3>4, PlanningAlone
  <2>2. \/ shown' = StageSnapshot(stage') \/ snapshotRequested' \/ Has(queue', "snap")
        \/ stage'.phase \in {"planning", "readingSource", "dispatching"}
    <3>1. CASE Has(q, "snap")
      BY <1>3, <3>1
    <3>2. CASE stage.phase = "planning" /\ stage' = NoStage
      <4>1. shown = NoStage
        BY <3>2, PlanningAlone
      <4>2. StageSnapshot(stage') = NoStage
        BY <3>2, NothingStaged
      <4>. QED  BY <4>1, <4>2
    <3>. QED  BY <3>1, <3>2 DEF Concluded
  <2>. QED  BY <2>1, <2>2 DEF ShownStage
<1>5. ShownParts'
  BY <1>3, PartsStay DEF IInv, Showing
<1>6. Types(scene')
  BY DEF IInv, Operations
<1>. QED  BY <1>2, <1>3, <1>4, <1>5, <1>6, RunKeeps

\* The head is folded into the stage and the loop, and leads to nothing else.
LEMMA Folding ==
    ASSUME IInv, NEW h, NEW r, Split(queue, h, r), running, running', NEW q,
           \A c \in Classes : ~ Is(h, c), queue' = q \o r,
           StageStep(stage, stage', q), LoopTook(loop, loop'),
           stage' = stage \/ Has(q, "snap"), Is(h, "snap") => Has(q, "snap"),
           stage.phase # "planning",
           UNCHANGED <<pc, op, snapshotRequested, session, mailbox, call, shells,
                       answers, got, scene, shown>>,
           fresh' <=> fresh
    PROVE  IInv'
<1>. USE DEF session, mailbox
<1>1. Joined(queue', q, r)
  BY Joins DEF Split, StageStep
<1>2. \A c \in Classes : Has(queue', c) <=> Has(queue, c) \/ Has(q, c)
  BY <1>1 DEF Joined, Split
<1>3. \A c \in Classes : ~ (Has(queue, c) /\ Has(q, c)) => Only(queue', c)
  <2>1. \A c \in Classes : Only(q, c)
    BY StepHasOnly
  <2>. QED  BY <1>1, <2>1 DEF Joined, Split, IInv, Flight
<1>4. \A k \in DOMAIN queue' : \/ \E j \in DOMAIN queue : queue'[k] = queue[j]
                               \/ \E j \in DOMAIN q : queue'[k] = q[j]
  BY <1>1 DEF Joined, Split
<1>5. Shapes' /\ Flight' /\ Answering' /\ Reporting'
  BY <1>2, <1>3, <1>4, Folded DEF IInv
<1>6. AllSound(queue') /\ (Has(queue, "snap") \/ Has(q, "snap") => Has(queue', "snap"))
  BY <1>1 DEF Joined, Split
<1>7. ShownStage'
  <2>1. CASE stage' = stage
    BY <1>6, <2>1, StageStaysShown DEF IInv, Showing
  <2>2. CASE Has(q, "snap")
    <3>1. stage'.phase # "planning"
      BY DEF StageStep
    <3>. QED  BY <1>6, <2>2, <3>1 DEF ShownStage
  <2>. QED  BY <2>1, <2>2
<1>8. ShownParts'
  BY <1>6, PartsStay DEF IInv, Showing
<1>9. Types(scene')
  BY DEF IInv, Operations
<1>. QED  BY <1>5, <1>6, <1>7, <1>8, <1>9, RunKeeps

\* A burst is projected.
LEMMA ProjectKeeps ==
    ASSUME IInv, Project, Outdate
    PROVE  IInv'
<1>. USE DEF session, mailbox, frontEnd
<1>. DEFINE h == Head(queue)
            r == Tail(queue)
            world == ApplyEvents(h.events)
            what == {"burst"}
<1>1. /\ Running(what) /\ queue' = world.seq \o r
      /\ stage' = world.stage /\ loop' = world.loop
      /\ UNCHANGED <<pc, op, running, snapshotRequested, session, mailbox, call, shells,
                     answers, got, scene, shown>>
      /\ fresh' <=> fresh
  BY DEF Project, Applied, Replace, Still, Current, Outdate
<1>2. /\ running /\ Split(queue, h, r) /\ h.do = "burst" /\ Sound(h)
      /\ stage.phase = "planning" => Is(h, "plan")
  BY <1>1, AtWork
<1>. HIDE DEF h, r, what
<1>3. IsSeq(h.events)
  BY <1>2 DEF Sound
<1>4. /\ StageStep(stage, world.stage, world.seq) /\ LoopTook(loop, world.loop)
      /\ h.events # <<>> => Has(world.seq, "snap")
  BY <1>3, BurstStep DEF IInv, Shapes
<1>5. h.events = <<>> => world.stage = stage
  <2>1. SUFFICES ASSUME h.events = <<>> PROVE world.stage = stage
    OBVIOUS
  <2>2. PICK w : /\ w[0] = [loop |-> loop, stage |-> stage, sources |-> sources, seq |-> <<>>]
                 /\ world = w[Len(h.events)]
    BY <1>3, EventByEvent
  <2>3. Len(h.events) = 0
    BY <2>1
  <2>. HIDE DEF world
  <2>. QED  BY <2>2, <2>3
<1>6. \A c \in Classes : ~ Is(h, c)
  BY <1>2 DEF Is, Classes, Asks, Sources, Requests, Answers, IsPublish
<1>7. Is(h, "snap") => h.events # <<>>
  BY <1>2 DEF Is, Shows
<1>8. stage.phase # "planning"
  BY <1>2, <1>6 DEF Classes
<1>. HIDE DEF world
<1>9. UNCHANGED <<pc, op, snapshotRequested, session, mailbox, call, shells,
                     answers, got, scene, shown>>
  BY <1>1
<1>. QED  BY <1>1, <1>2, <1>4, <1>5, <1>6, <1>7, <1>8, <1>9, Folding

\* Nobody has accepted anything while the stage is planned, or its source read.
LEMMA NobodyYet ==
    ASSUME Flight, Reporting, stage.phase \in {"planning", "readingSource"}
    PROVE  got = {}
  BY DEF Flight, Reporting

\* A completion of the runner: the answer to the submission.
LEMMA AnswerGoesOn ==
    ASSUME IInv, NEW h, NEW r, Split(queue, h, r), running, running',
           NEW x, Telling(x), Is(x, "snap"), NEW p, Plain(p),
           NEW what \in {"succeeded", "failed"},
           queue' = (<<x>> \o (p \o <<Publish(what)>>)) \o r,
           \A c \in Classes : Is(h, c) <=> c = "answer",
           stage.phase # "planning",
           UNCHANGED <<pc, op, snapshotRequested, session, mailbox, call, stage, loop, shells,
                       answers, got, scene, shown>>,
           fresh' <=> fresh
    PROVE  IInv'
<1>. USE DEF session, mailbox
<1>. DEFINE a == <<Publish(what)>>
            m == p \o a
            n == <<x>>
            q == n \o m
<1>1. AllSound(a) /\ \A c \in Classes : Only(a, c) /\ (Has(a, c) <=> c = "answer")
  BY AnswerOne
<1>2. Plain(n) /\ Has(n, "snap")
  BY TellingIsPlain, Literals
<1>3. queue' = q \o r
  OBVIOUS
<1>. HIDE DEF a, n
<1>4. Prefixed(p, a, m)
  BY <1>1, PlainBefore
<1>5. AllSound(m) /\ \A c \in Classes : Only(m, c) /\ (Has(m, c) <=> c = "answer")
  BY <1>1, <1>4 DEF Prefixed
<1>. HIDE DEF m
<1>6. Prefixed(n, m, q)
  BY <1>2, <1>5, PlainBefore
<1>7. /\ AllSound(q) /\ Has(q, "snap")
      /\ \A c \in Classes : Only(q, c) /\ (Has(q, c) <=> c = "answer")
  BY <1>2, <1>5, <1>6 DEF Prefixed
<1>. HIDE DEF q
<1>8. Joined(queue', q, r)
  BY <1>3, <1>7, Joins DEF Split
<1>9. \A c \in Classes : Only(q, c) /\ (Has(q, c) <=> Is(h, c))
  BY <1>7
<1>10. ~ Has(q, "plan") /\ ~ Has(q, "dispatch") /\ ~ Has(q, "dispatched")
  BY <1>7 DEF Classes
<1>11. \A k \in DOMAIN q : /\ ~ Is(q[k], "dispatch") /\ ~ Is(q[k], "dispatched")
                           /\ Is(q[k], "plan") => Planned(stage, q[k])
  BY <1>10 DEF Has
<1>12. Shapes' /\ Flight' /\ Answering' /\ Reporting'
  BY <1>8, <1>9, <1>11, Swapped DEF IInv
<1>13. AllSound(queue') /\ Has(queue', "snap")
  BY <1>7, <1>8 DEF Joined
<1>14. ShownStage'
  BY <1>13 DEF ShownStage
<1>15. ShownParts'
  BY <1>13 DEF ShownParts
<1>16. Types(scene')
  BY DEF IInv, Operations
<1>. QED  BY <1>12, <1>13, <1>14, <1>15, <1>16, RunKeeps

\* The completion of a dispatch of a loop goes to the loop.
LEMMA LoopGoesOn ==
    ASSUME IInv, NEW h, NEW r, Split(queue, h, r), running, running', NEW q,
           \A c \in Classes : Is(h, c) <=> c = "loop", ~ Is(h, "snap"),
           queue' = q \o r, LoopConcluded(loop.submissionPending, loop', q), ~ Has(q, "loop"),
           stage.phase # "planning",
           UNCHANGED <<pc, op, snapshotRequested, session, mailbox, call, stage, shells,
                       answers, got, scene, shown>>,
           fresh' <=> fresh
    PROVE  IInv'
<1>. USE DEF session, mailbox
<1>1. Joined(queue', q, r)
  BY Joins DEF Split, LoopConcluded
<1>2. Shapes' /\ Flight' /\ Answering' /\ Reporting'
  BY <1>1, LoopConcluding DEF IInv
<1>3. AllSound(queue') /\ (Has(queue, "snap") => Has(queue', "snap"))
  BY <1>1 DEF Joined, Split
<1>4. ShownStage'
  BY <1>3, StageStaysShown DEF IInv, Showing
<1>5. ShownParts'
  BY <1>3, PartsStay DEF IInv, Showing
<1>6. Types(scene')
  BY DEF IInv, Operations
<1>. QED  BY <1>2, <1>3, <1>4, <1>5, <1>6, RunKeeps

LEMMA RefKinds ==
    /\ DispatchRef.kind = "stage" /\ LoopRef.kind = "loop"
    /\ \A a : CancelRef(a).kind = "stage" /\ CancelRef(a) \notin {DispatchRef, LoopRef}
    /\ DispatchRef # LoopRef
  BY DEF DispatchRef, LoopRef, Ref, CancelRef

\* A completion goes to the workflow that asked, by its kind.
LEMMA CompleteKeeps ==
    ASSUME IInv, Complete, Outdate
    PROVE  IInv'
<1>. USE DEF session, mailbox, frontEnd
<1>. DEFINE h == Head(queue)
            r == Tail(queue)
            what == {"planDone", "participantsDone", "sourceDone", "sessionDone",
                     "commandDone", "rosterDone"}
            ours == CASE h.do = "planDone"  -> HandlePlan(stage, h.targets)
                      [] h.do = "participantsDone" -> HandleParticipants(stage, h.barrier)
                      [] h.do = "sourceDone" -> HandleSource(stage, h.ok)
                      [] h.do = "sessionDone" /\ h.ref.kind = "stage" ->
                             HandleSessionDone(stage, h)
                      [] OTHER -> Ignore(stage)
            theirs == IF h.do = "sessionDone" /\ h.ref.kind = "loop"
                      THEN LoopSessionDone(loop, h) ELSE LoopIgnore(loop)
            answer == CASE h.do = "commandDone" ->
                             <<PublishSnapshot,
                               Publish(IF h.ok THEN "succeeded" ELSE "failed")>>
                        [] h.do = "rosterDone" ->
                             <<PublishSnapshot, Publish("roster"), Publish("succeeded")>>
                        [] OTHER -> <<>>
            nothing == <<>>
<1>1. /\ Running(what) /\ queue' = (ours.seq \o theirs.seq \o answer) \o r
      /\ stage' = ours.stage /\ loop' = theirs.loop
      /\ UNCHANGED <<pc, op, running, snapshotRequested, session, mailbox, call, shells,
                     answers, got, scene, shown>>
      /\ fresh' <=> fresh
  BY DEF Complete, Replace, Still, Current, Outdate
<1>2. /\ running /\ Split(queue, h, r) /\ h.do \in what /\ Sound(h)
      /\ Is(h, "plan") => Planned(stage, h)
      /\ Is(h, "dispatch") => Dispatching(stage, h, got)
      /\ stage.phase = "planning" => Is(h, "plan") /\ r = <<>>
  BY <1>1, AtWork
<1>3. /\ Ignore(stage).stage = stage /\ Ignore(stage).seq = nothing
      /\ LoopIgnore(loop).loop = loop /\ LoopIgnore(loop).seq = nothing
  BY StepParts, LoopParts DEF Ignore, LoopIgnore
<1>. HIDE DEF r
<1>4. /\ Is(h, "plan") => Has(queue, "plan") /\ stage.phase = "planning"
      /\ Is(h, "source") => stage.phase = "readingSource"
      /\ Is(h, "dispatch") => stage.phase = "dispatching"
      /\ Is(h, "loop") => loop.phase = "dispatching"
  <2>. HIDE DEF h
  <2>. QED  BY <1>2 DEF Split, IInv, Flight
<1>5. StageOK(stage) /\ LoopOK(loop)
  BY DEF IInv, Shapes
<1>6. UNCHANGED <<pc, op, snapshotRequested, session, mailbox, call, shells,
                  answers, got, scene, shown>>
  BY <1>1
<1>7. ASSUME NEW n, ours = n, theirs = LoopIgnore(loop), answer = nothing,
             NEW c0 \in {"plan", "source", "dispatch"},
             \A c \in Classes : Is(h, c) <=> c = c0, ~ Is(h, "snap"),
             Concluded(stage, n.stage, n.seq, got)
      PROVE  IInv'
  <2>1. n.seq \o nothing \o nothing = n.seq
    BY <1>7, NothingAfter DEF Concluded
  <2>2. stage' = n.stage /\ loop' = loop /\ queue' = (n.seq \o nothing \o nothing) \o r
    BY <1>1, <1>3, <1>7
  <2>. HIDE DEF h, ours, theirs, answer, nothing, what
  <2>3. Concluded(stage, stage', n.seq, got) /\ queue' = n.seq \o r
    BY <1>7, <2>1, <2>2
  <2>. DEFINE q == n.seq
  <2>4. Concluded(stage, stage', q, got) /\ queue' = q \o r
    BY <2>3
  <2>. HIDE DEF q
  <2>. QED  BY <1>1, <1>2, <1>6, <1>7, <2>2, <2>4, StageGoesOn
<1>8. CASE h.do = "planDone"
  <2>1. ours = HandlePlan(stage, h.targets) /\ theirs = LoopIgnore(loop) /\ answer = nothing
    BY <1>8
  <2>. HIDE DEF h, ours, theirs, answer, nothing, what
  <2>2. \A c \in Classes : Is(h, c) <=> c = "plan"
    BY <1>8, Kinds DEF Asks
  <2>3. Planned(stage, h) /\ stage.phase = "planning" /\ got = {}
    BY <1>2, <1>4, <2>2, NobodyYet DEF Classes, IInv
  <2>4. h.targets \subseteq Alias
    BY <1>2, <1>8 DEF Sound
  <2>5. Planned(stage, PlanDone(h.targets))
    <3>1. PlanDone(h.targets).do = "planDone" /\ PlanDone(h.targets).targets = h.targets
      BY DEF PlanDone
    <3>. QED  BY <1>8, <2>3, <3>1 DEF Planned
  <2>6. Concluded(stage, HandlePlan(stage, h.targets).stage, HandlePlan(stage, h.targets).seq, got)
    BY <1>5, <2>3, <2>4, <2>5, PlanHandled
  <2>7. ~ Is(h, "snap")
    BY <1>8 DEF Is, Shows
  <2>. QED  BY <1>7, <2>1, <2>2, <2>6, <2>7
<1>9. CASE h.do = "participantsDone"
  <2>1. ours = HandleParticipants(stage, h.barrier) /\ theirs = LoopIgnore(loop) /\ answer = nothing
    BY <1>9
  <2>. HIDE DEF h, ours, theirs, answer, nothing, what
  <2>2. \A c \in Classes : Is(h, c) <=> c = "plan"
    BY <1>9, Kinds DEF Asks
  <2>3. Planned(stage, h) /\ stage.phase = "planning" /\ got = {}
    BY <1>2, <1>4, <2>2, NobodyYet DEF Classes, IInv
  <2>4. DOMAIN h.barrier \subseteq Alias
    BY <1>2, <1>9 DEF Sound
  <2>5. stage.stmt.kind = "send" => stage.stmt.to \in stage.routing
    BY <1>9, <2>3 DEF Planned
  <2>6. Concluded(stage, HandleParticipants(stage, h.barrier).stage,
                  HandleParticipants(stage, h.barrier).seq, got)
    BY <1>5, <2>3, <2>4, <2>5, ParticipantsHandled
  <2>7. ~ Is(h, "snap")
    BY <1>9 DEF Is, Shows
  <2>. QED  BY <1>7, <2>1, <2>2, <2>6, <2>7
<1>10. CASE h.do = "sourceDone"
  <2>1. ours = HandleSource(stage, h.ok) /\ theirs = LoopIgnore(loop) /\ answer = nothing
    BY <1>10
  <2>. HIDE DEF h, ours, theirs, answer, nothing, what
  <2>2. \A c \in Classes : Is(h, c) <=> c = "source"
    BY <1>10, Kinds DEF Sources
  <2>3. stage.phase = "readingSource" /\ got = {}
    BY <1>4, <2>2, NobodyYet DEF Classes, IInv
  <2>4. Concluded(stage, HandleSource(stage, h.ok).stage, HandleSource(stage, h.ok).seq, got)
    BY <1>5, <2>3, SourceHandled
  <2>5. ~ Is(h, "snap")
    BY <1>10 DEF Is, Shows
  <2>. QED  BY <1>7, <2>1, <2>2, <2>4, <2>5
<1>11. CASE h.do = "sessionDone" /\ h.ref = DispatchRef
  <2>1. ours = HandleSessionDone(stage, h) /\ theirs = LoopIgnore(loop) /\ answer = nothing
    BY <1>11, RefKinds
  <2>. HIDE DEF h, ours, theirs, answer, nothing, what
  <2>2. \A c \in Classes : Is(h, c) <=> c = "dispatch"
    BY <1>11, Kinds DEF Requests
  <2>3. stage.phase = "dispatching" /\ Dispatching(stage, h, got)
    BY <1>2, <1>4, <2>2 DEF Classes
  <2>4. got = DeliveredTo(stage, h)
    BY <1>11, <2>3 DEF Dispatching, Told
  <2>5. Concluded(stage, HandleSessionDone(stage, h).stage, HandleSessionDone(stage, h).seq, got)
    BY <1>5, <1>11, <2>3, <2>4, DispatchHandled
  <2>6. ~ Is(h, "snap")
    BY <1>11 DEF Is, Shows
  <2>. QED  BY <1>7, <2>1, <2>2, <2>5, <2>6
<1>12. CASE h.do = "sessionDone" /\ h.ref = LoopRef
  <2>1. ours = Ignore(stage) /\ theirs = LoopSessionDone(loop, h) /\ answer = nothing
    BY <1>12, RefKinds
  <2>. DEFINE n == LoopSessionDone(loop, h)
  <2>. HIDE DEF h, ours, theirs, answer
  <2>2. \A c \in Classes : Is(h, c) <=> c = "loop"
    BY <1>12, Kinds DEF Requests
  <2>3. loop.phase = "dispatching"
    BY <1>4, <2>2 DEF Classes
  <2>4. LoopConcluded(loop.submissionPending, n.loop, n.seq) /\ ~ Has(n.seq, "loop")
    BY <1>5, <1>12, <2>3, LoopHandled
  <2>5. stage.phase # "planning"
    BY <1>2, <2>2 DEF Classes
  <2>6. ~ Is(h, "snap")
    BY <1>12 DEF Is, Shows
  <2>. HIDE DEF n, what
  <2>7. stage' = stage /\ loop' = n.loop /\ queue' = (nothing \o n.seq \o nothing) \o r
    BY <1>1, <1>3, <2>1 DEF n
  <2>. DEFINE q == n.seq
  <2>8. nothing \o q \o nothing = q
    BY <2>4, NothingBefore DEF LoopConcluded, AllSound
  <2>9. /\ queue' = q \o r /\ LoopConcluded(loop.submissionPending, loop', q)
        /\ ~ Has(q, "loop")
    BY <2>4, <2>7, <2>8
  <2>. HIDE DEF q, nothing
  <2>. QED  BY <1>1, <1>2, <1>6, <2>2, <2>5, <2>6, <2>7, <2>9, LoopGoesOn
<1>13. CASE h.do = "sessionDone" /\ \E a \in Alias : h.ref = CancelRef(a)
  <2>1. PICK a \in Alias : h.ref = CancelRef(a)
    BY <1>13
  <2>2. ours = HandleSessionDone(stage, h) /\ theirs = LoopIgnore(loop) /\ answer = nothing
    BY <1>13, <2>1, RefKinds
  <2>. DEFINE n == HandleSessionDone(stage, h)
  <2>. HIDE DEF h, ours, theirs, answer
  <2>3. \A c \in Classes : ~ Is(h, c)
    <3>1. h.do \in Requests /\ h.ref \notin {DispatchRef, LoopRef}
      BY <1>13, <2>1, RefKinds DEF Requests
    <3>. QED  BY <3>1, Kinds
  <2>4. StageStep(stage, n.stage, n.seq) /\ (n.stage = stage \/ Has(n.seq, "snap"))
    BY <1>5, <2>1, CancelHandled
  <2>5. stage.phase # "planning"
    BY <1>2, <2>3 DEF Classes
  <2>6. ~ Is(h, "snap")
    BY <1>13 DEF Is, Shows
  <2>. HIDE DEF n, what
  <2>7. stage' = n.stage /\ loop' = loop /\ queue' = (n.seq \o nothing \o nothing) \o r
    BY <1>1, <1>3, <2>2 DEF n
  <2>. DEFINE q == n.seq
  <2>8. q \o nothing \o nothing = q
    BY <2>4, NothingAfter DEF StageStep
  <2>9. /\ queue' = q \o r /\ StageStep(stage, stage', q)
        /\ stage' = stage \/ Has(q, "snap")
    BY <2>4, <2>7, <2>8
  <2>10. LoopTook(loop, loop')
    BY <1>5, <2>7 DEF LoopTook
  <2>. HIDE DEF q, nothing
  <2>. QED  BY <1>1, <1>2, <1>6, <2>3, <2>5, <2>6, <2>9, <2>10, Folding
<1>14. ASSUME ours = Ignore(stage), theirs = LoopIgnore(loop),
              h.do \in {"commandDone", "rosterDone"}, NEW p, Plain(p),
              NEW said \in {"succeeded", "failed"},
              answer = <<PublishSnapshot>> \o (p \o <<Publish(said)>>)
       PROVE  IInv'
  <2>. HIDE DEF h, ours, theirs, answer, what
  <2>1. \A c \in Classes : Is(h, c) <=> c = "answer"
    BY <1>14, Kinds DEF Answers
  <2>2. stage.phase # "planning"
    BY <1>2, <2>1 DEF Classes
  <2>3. stage' = stage /\ loop' = loop /\ queue' = (nothing \o nothing \o answer) \o r
    BY <1>1, <1>3, <1>14
  <2>4. Telling(PublishSnapshot) /\ Is(PublishSnapshot, "snap")
    BY DEF Telling, PublishSnapshot, Is, Shows
  <2>5. AllSound(answer)
    <3>. DEFINE n == <<Publish(said)>>
                o == <<PublishSnapshot>>
    <3>1. AllSound(n)
      BY AnswerOne
    <3>2. AllSound(o)
      BY <2>4, TellingIsPlain DEF Plain
    <3>3. answer = o \o (p \o n)
      BY <1>14
    <3>. HIDE DEF n, o
    <3>. QED  BY <1>14, <3>1, <3>2, <3>3, CatSound DEF Plain
  <2>6. nothing \o nothing \o answer = answer
    BY <2>5, NothingBefore DEF AllSound
  <2>7. queue' = (<<PublishSnapshot>> \o (p \o <<Publish(said)>>)) \o r
    BY <1>14, <2>3, <2>6
  <2>8. UNCHANGED <<pc, op, snapshotRequested, session, mailbox, call, stage, loop, shells,
                    answers, got, scene, shown>>
    BY <1>6, <2>3
  <2>. HIDE DEF nothing
  <2>. QED  BY <1>1, <1>2, <1>14, <2>1, <2>2, <2>4, <2>7, <2>8, AnswerGoesOn
<1>15. CASE h.do = "commandDone"
  <2>. DEFINE said == IF h.ok THEN "succeeded" ELSE "failed"
  <2>1. ours = Ignore(stage) /\ theirs = LoopIgnore(loop)
    BY <1>15
  <2>2. answer = <<PublishSnapshot, Publish(said)>>
    BY <1>15
  <2>3. said \in {"succeeded", "failed"}
    OBVIOUS
  <2>. HIDE DEF h, said, ours, theirs, answer
  <2>4. answer = <<PublishSnapshot>> \o (nothing \o <<Publish(said)>>)
    <3>1. nothing \o <<Publish(said)>> = <<Publish(said)>>
      BY Literals, NothingBefore
    <3>. QED  BY <2>2, <3>1, Two
  <2>5. Plain(nothing)
    BY PlainOnes
  <2>. HIDE DEF nothing
  <2>. QED  BY <1>14, <1>15, <2>1, <2>3, <2>4, <2>5
<1>16. CASE h.do = "rosterDone"
  <2>. DEFINE p == <<Publish("roster")>>
              said == "succeeded"
  <2>1. ours = Ignore(stage) /\ theirs = LoopIgnore(loop)
    BY <1>16
  <2>2. answer = <<PublishSnapshot, Publish("roster"), Publish("succeeded")>>
    BY <1>16
  <2>. HIDE DEF h, ours, theirs, answer, nothing, what
  <2>3. answer = <<PublishSnapshot>> \o (p \o <<Publish(said)>>)
    BY <2>2, Three
  <2>4. Plain(p)
    BY TellingIsPlain DEF Telling, Publish
  <2>5. said \in {"succeeded", "failed"}
    OBVIOUS
  <2>. HIDE DEF p, said
  <2>. QED  BY <1>14, <1>16, <2>1, <2>3, <2>4, <2>5
<1>17. h.do = "sessionDone" => h.ref \in {DispatchRef, LoopRef} \/ \E a \in Alias : h.ref = CancelRef(a)
  BY <1>2 DEF Sound, Requests, Refs
<1>. QED  BY <1>2, <1>8, <1>9, <1>10, <1>11, <1>12, <1>13, <1>15, <1>16, <1>17

(***************************************************************************)
(* Commands and session requests                                           *)
(***************************************************************************)

\* A command is executed: its events are folded in, its completion follows.
LEMMA ExecutedKeeps ==
    ASSUME IInv, Running({"command"}), NEW ok, NEW now, IsSeq(now), Executed(ok, now),
           DOMAIN owed' = Alias, DOMAIN leaving' = Alias, DOMAIN part' = Alias,
           Types(scene'), UNCHANGED shown
    PROVE  IInv'
<1>. USE DEF frontEnd
<1>. DEFINE h == Head(queue)
            r == Tail(queue)
            world == ApplyEvents(inbox \o now)
            w == world.seq
            m == Materialize(w)
            d == <<CommandDone(ok)>>
            q == m \o d
            what == {"command"}
<1>1. /\ queue' = q \o r /\ stage' = world.stage /\ loop' = world.loop
      /\ inbox' = <<>> /\ (drainPending' <=> (drainPending \/ now # <<>>))
      /\ ops' = IF now # <<>> /\ ~drainPending THEN Append(ops, Drain) ELSE ops
      /\ UNCHANGED <<pc, op, running, snapshotRequested, call, shells, answers, got>>
  BY DEF Executed, Applied, Replace, Still
<1>2. /\ running /\ call = NoCall /\ Split(queue, h, r) /\ h.do = "command" /\ AllSound(r)
      /\ stage.phase = "planning" => Is(h, "plan")
  <2>1. Running(what)
    OBVIOUS
  <2>. HIDE DEF what
  <2>2. /\ running /\ call = NoCall /\ Split(queue, h, r) /\ h.do \in what /\ AllSound(r)
        /\ stage.phase = "planning" => Is(h, "plan")
    BY <2>1, AtWork
  <2>. QED  BY <2>2 DEF what
<1>. HIDE DEF h, r, what
<1>3. \A c \in Classes : Is(h, c) <=> c = "answer"
  BY <1>2, Kinds DEF Answers
<1>4. stage.phase # "planning"
  BY <1>2, <1>3 DEF Classes
<1>5. IsSeq(inbox \o now)
  BY Cat DEF IInv, Lists
<1>6. StageStep(stage, world.stage, w) /\ LoopTook(loop, world.loop)
  BY <1>5, BurstStep DEF IInv, Shapes
<1>. HIDE DEF world
<1>7. stage'.phase # "planning" /\ AllSound(w) /\ \A c \in Classes : Only(w, c)
  <2>1. AllSound(w) /\ world.stage.phase # "planning"
    BY <1>4, <1>6 DEF StageStep
  <2>2. \A c \in Classes : Only(w, c)
    BY <1>6, StepHasOnly
  <2>. QED  BY <1>1, <2>1, <2>2
<1>8. StageStep(stage, stage', w) /\ LoopTook(loop, loop')
  BY <1>1, <1>6
<1>. HIDE DEF w
<1>9. /\ AllSound(m)
      /\ \A c \in Classes : (Has(m, c) <=> Has(w, c)) /\ Only(m, c)
      /\ \A k \in DOMAIN m : m[k] = PublishSnapshot \/ \E j \in DOMAIN w : m[k] = w[j]
  BY <1>7, Materialized
<1>. HIDE DEF m
<1>10. /\ AllSound(d) /\ Has(d, "snap") /\ \A c : Only(d, c)
       /\ \A c \in Classes : Has(d, c) <=> c = "answer"
       /\ \A k \in DOMAIN d : \A c \in {"plan", "dispatch", "dispatched"} : ~ Is(d[k], c)
  <2>. DEFINE x == CommandDone(ok)
  <2>1. x.do = "commandDone"
    BY DEF CommandDone
  <2>. HIDE DEF x
  <2>2. \A c \in Classes : Is(x, c) <=> c = "answer"
    BY <2>1, Kinds DEF Answers
  <2>3. Sound(x) /\ Is(x, "snap")
    BY <2>1 DEF Sound, Answers, Requests, Is, Shows
  <2>4. \A c \in {"plan", "dispatch", "dispatched"} : ~ Is(x, c)
    BY <2>2 DEF Classes
  <2>5. /\ AllSound(<<x>>) /\ Has(<<x>>, "snap") /\ \A c : Only(<<x>>, c)
        /\ \A c \in Classes : Has(<<x>>, c) <=> c = "answer"
        /\ \A k \in DOMAIN <<x>> : <<x>>[k] = x
    BY <2>2, <2>3, Literals
  <2>. QED  BY <2>4, <2>5 DEF x
<1>. HIDE DEF d
<1>11. Joined(q, m, d)
  BY <1>9, <1>10, Joins
<1>. HIDE DEF q
<1>12. Joined(queue', q, r)
  <2>1. AllSound(q)
    BY <1>11 DEF Joined
  <2>. QED  BY <1>1, <1>2, <2>1, Joins
<1>13. ~ Has(w, "answer")
  BY <1>8 DEF StageStep
<1>14. \A c \in Classes : Has(queue', c) <=> Has(queue, c) \/ Has(w, c)
  BY <1>2, <1>3, <1>9, <1>10, <1>11, <1>12 DEF Joined, Split
<1>15. \A c \in Classes : ~ (Has(queue, c) /\ Has(w, c)) => Only(queue', c)
  <2>1. SUFFICES ASSUME NEW c \in Classes, ~ (Has(queue, c) /\ Has(w, c)) PROVE Only(queue', c)
    OBVIOUS
  <2>2. Only(queue, c)
    BY DEF IInv, Flight
  <2>3. Only(r, c) /\ ~ (Is(h, c) /\ Has(r, c))
    BY <1>2, <2>2 DEF Split
  <2>4. Only(q, c)
    BY <1>9, <1>10, <1>11, <1>13 DEF Joined
  <2>5. ~ (Has(q, c) /\ Has(r, c))
    BY <1>2, <1>3, <1>9, <1>10, <1>11, <2>1, <2>3 DEF Joined, Split
  <2>. QED  BY <1>12, <2>3, <2>4, <2>5 DEF Joined
<1>16. \A k \in DOMAIN queue' :
           \/ \E j \in DOMAIN queue : queue'[k] = queue[j]
           \/ \E j \in DOMAIN w : queue'[k] = w[j]
           \/ \A c \in {"plan", "dispatch", "dispatched"} : ~ Is(queue'[k], c)
  <2>1. \A c \in {"plan", "dispatch", "dispatched"} : ~ Is(PublishSnapshot, c)
    BY DEF PublishSnapshot, Is, Asks, Requests, IsPublish
  <2>2. ASSUME NEW k \in DOMAIN queue'
        PROVE  \/ \E j \in DOMAIN queue : queue'[k] = queue[j]
               \/ \E j \in DOMAIN w : queue'[k] = w[j]
               \/ \A c \in {"plan", "dispatch", "dispatched"} : ~ Is(queue'[k], c)
    <3>1. CASE \E j \in DOMAIN r : queue'[k] = r[j]
      BY <1>2, <3>1 DEF Split
    <3>2. CASE \E j \in DOMAIN q : queue'[k] = q[j]
      <4>1. PICK j \in DOMAIN q : queue'[k] = q[j]
        BY <3>2
      <4>2. CASE \E i \in DOMAIN m : q[j] = m[i]
        BY <1>9, <2>1, <4>1, <4>2
      <4>3. CASE \E i \in DOMAIN d : q[j] = d[i]
        BY <1>10, <4>1, <4>3
      <4>. QED  BY <1>11, <4>2, <4>3 DEF Joined
    <3>. QED  BY <1>12, <3>1, <3>2 DEF Joined
  <2>. QED  BY <2>2
<1>17. Shapes' /\ Flight' /\ Answering' /\ Reporting'
  BY <1>1, <1>8, <1>14, <1>15, <1>16, Folded DEF IInv
<1>18. AllSound(queue') /\ Has(queue', "snap")
  BY <1>10, <1>11, <1>12 DEF Joined
<1>19. IsSeq(inbox') /\ IsSeq(ops') /\ \A k \in DOMAIN ops' :
           ops'[k].kind = "drain" \/ (k \in DOMAIN ops /\ ops'[k] = ops[k])
  <2>1. IsSeq(inbox')
    BY <1>1, Literals DEF AllSound
  <2>2. IsSeq(ops)
    BY DEF IInv, Lists
  <2>. QED  BY <1>1, <2>1, <2>2, AppendKeeps, DrainDrains
<1>20. Lists'
  BY <1>18, <1>19 DEF Lists
<1>21. Operations'
  BY <1>1, <1>19 DEF IInv, Operations
<1>22. Resting'
  BY <1>1, <1>2 DEF Resting
<1>23. Draining'
  <2>1. drainPending => pc = "drain" \/ \E k \in DOMAIN ops : ops[k].kind = "drain"
    BY DEF IInv, Draining
  <2>2. IsSeq(ops)
    BY DEF IInv, Lists
  <2>3. CASE now # <<>> /\ ~drainPending
    <3>1. ops' = Append(ops, Drain)
      BY <1>1, <2>3
    <3>2. \E k \in DOMAIN ops' : ops'[k].kind = "drain"
      BY <2>2, <3>1, AppendKeeps, DrainDrains
    <3>. QED  BY <1>1, <3>2 DEF Draining
  <2>4. CASE ~ (now # <<>> /\ ~drainPending)
    <3>1. ops' = ops
      BY <1>1, <2>4
    <3>2. drainPending' => drainPending
      BY <1>1, <2>4
    <3>3. inbox' = <<>>
      BY <1>1
    <3>4. pc' = pc
      BY <1>1
    <3>. QED  BY <2>1, <3>1, <3>2, <3>3, <3>4 DEF Draining
  <2>. QED  BY <2>3, <2>4
<1>24. ShownStage' /\ ShownParts'
  BY <1>7, <1>18 DEF ShownStage, ShownParts
<1>. QED  BY <1>17, <1>20, <1>21, <1>22, <1>23, <1>24 DEF IInv, Showing

\* RemoveCommand, InviteCommand, CancelCommand and EnablePolicyCommand.
LEMMA CommandsKeep ==
    ASSUME IInv, ExecuteRemoval \/ ExecuteInvite \/ ExecuteOther, Outdate
    PROVE  IInv'
<1>1. UNCHANGED shown
  BY DEF Outdate
<1>2. /\ DOMAIN owed = Alias /\ DOMAIN leaving = Alias /\ DOMAIN part = Alias
      /\ Types(scene)
  BY DEF IInv, Lists, Operations
<1>3. IsSeq(<<>>) /\ \A x : IsSeq(<<x>>)
  BY Literals DEF AllSound
<1>4. CASE ExecuteRemoval
  <2>. DEFINE a     == Current.command.alias
              p     == part[a]
              gone  == IsRemovable(p)
              now   == IF gone /\ p.status = "crashed" /\ ~p.ready
                       THEN <<AgentStopped(a)>> ELSE <<>>
              later == IF gone /\ p.status # "crashed" THEN <<AgentStopped(a)>> ELSE <<>>
              what  == {"command"}
  <2>1. /\ Running(what)
        /\ part' = IF gone THEN [part EXCEPT ![a] = View("absent")] ELSE part
        /\ leaving' = IF gone THEN [leaving EXCEPT ![a] = @ \o owed[a] \o later]
                              ELSE leaving
        /\ owed' = IF gone THEN [owed EXCEPT ![a] = <<>>] ELSE owed
        /\ Executed(gone, now) /\ scene' = scene
    BY <1>4 DEF ExecuteRemoval, Executing
  <2>2. IsSeq(now)
    BY <1>3
  <2>. HIDE DEF a, gone, now, later
  <2>3. DOMAIN owed' = Alias /\ DOMAIN leaving' = Alias /\ DOMAIN part' = Alias /\ Types(scene')
    BY <1>2, <2>1
  <2>. QED  BY <1>1, <2>1, <2>2, <2>3, ExecutedKeeps
<1>5. CASE ExecuteInvite
  <2>. DEFINE a   == Current.command.alias
              ok  == ~Present(a)
              now == IF ok THEN <<StatusChanged(a, "starting")>> ELSE <<>>
              what == {"command"}
  <2>1. /\ Running(what)
        /\ part' = IF ok THEN [part EXCEPT ![a] = View("starting")] ELSE part
        /\ Executed(ok, now) /\ UNCHANGED <<owed, leaving, scene>>
    BY <1>5 DEF ExecuteInvite, Executing
  <2>2. IsSeq(now)
    BY <1>3
  <2>. HIDE DEF a, ok, now
  <2>3. DOMAIN owed' = Alias /\ DOMAIN leaving' = Alias /\ DOMAIN part' = Alias /\ Types(scene')
    BY <1>2, <2>1
  <2>. QED  BY <1>1, <2>1, <2>2, <2>3, ExecutedKeeps
<1>6. CASE ExecuteOther
  <2>. DEFINE now == <<>>
              what == {"command"}
              policy == Current.command.kind = "policy"
  <2>1. PICK ok \in BOOLEAN : Executed(ok, now)
    BY <1>6 DEF ExecuteOther
  <2>2. /\ Running(what) /\ UNCHANGED <<part, owed, leaving>>
        /\ scene' = [scene EXCEPT !.notices = @ \/ policy]
    BY <1>6 DEF ExecuteOther, Executing
  <2>3. IsSeq(now)
    BY <1>3
  <2>. HIDE DEF now, policy
  <2>4. Types(scene')
    BY <1>2, <2>2 DEF Types
  <2>5. DOMAIN owed' = Alias /\ DOMAIN leaving' = Alias /\ DOMAIN part' = Alias
    BY <1>2, <2>2
  <2>. QED  BY <1>1, <2>1, <2>2, <2>3, <2>4, <2>5, ExecutedKeeps
<1>. QED  BY <1>4, <1>5, <1>6

\* The request at the head of the queue is under way.
LEMMA BeginCallKeeps ==
    ASSUME IInv, BeginCall, Outdate
    PROVE  IInv'
<1>. USE DEF session, mailbox, model, frontEnd
<1>. DEFINE h == Head(queue)
            tl == Tail(queue)
            what == {"execute"}
            r == h.request
            new == [NoCall EXCEPT !.ref = h.ref, !.kind = r.kind,
                                  !.recorded = h.recorded, !.routing = h.routing]
            rest == {a \in Known \ {r.direct} : scene.notices /\ part[a].status # "crashed"}
            begun == CASE r.kind = "planShared" ->
                            [new EXCEPT !.kind = "shared", !.direct = r.direct, !.todo = rest]
                       [] r.kind = "broadcast" -> [new EXCEPT !.todo = r.others]
                       [] r.kind = "shared"  ->
                            [new EXCEPT !.direct = r.direct, !.todo = r.others]
                       [] r.kind = "cancel"  -> [new EXCEPT !.direct = r.direct]
                       [] r.kind = "handoff" ->
                            [new EXCEPT !.direct = r.direct, !.idle = r.others,
                                        !.from = stage.stmt.from]
<1>1. /\ Running(what) /\ queue' = <<>> \o tl /\ call' = begun
      /\ UNCHANGED <<pc, op, running, snapshotRequested, session, mailbox, stage, loop, shells,
                     answers, got, scene, shown>>
      /\ fresh' <=> fresh
  BY DEF BeginCall, Replace, Still, Current, Outdate
<1>2. /\ running /\ Split(queue, h, tl) /\ h.do \in what /\ Sound(h) /\ AllSound(tl)
      /\ Is(h, "dispatch") => Dispatching(stage, h, got)
      /\ stage.phase = "planning" => Is(h, "plan") /\ tl = <<>>
      /\ call = NoCall
  BY <1>1, AtWork
<1>3. /\ h.do = "execute" /\ h.ref \in Refs
      /\ r.kind \in {"planShared", "broadcast", "shared", "cancel", "handoff"}
  BY <1>2 DEF Sound, Requests
<1>4. /\ DOMAIN call' = CallFields /\ call'.ref = h.ref
      /\ call'.kind \in {"shared", "broadcast", "handoff", "cancel"}
      /\ call'.delivered = {} /\ call'.err = FALSE
      /\ r.kind = "handoff" => /\ call'.kind = "handoff" /\ call'.todo = {}
                               /\ call'.from = stage.stmt.from /\ call'.direct = r.direct
      /\ r.kind = "shared" => /\ call'.kind = "shared" /\ call'.todo = r.others
                              /\ call'.direct = r.direct
      /\ r.kind = "broadcast" => /\ call'.kind = "broadcast" /\ call'.todo = r.others
                                 /\ call'.direct = NoAlias
  <2>0. /\ DOMAIN new = CallFields /\ new.ref = h.ref /\ new.kind = r.kind
        /\ new.delivered = {} /\ new.err = FALSE /\ new.todo = {} /\ new.direct = NoAlias
    <3>. HIDE DEF h, r
    <3>. QED  BY DEF NoCall, CallFields
  <2>1. CASE r.kind = "planShared"
    <3>1. call' = [new EXCEPT !.kind = "shared", !.direct = r.direct, !.todo = rest]
      BY <1>1, <2>1
    <3>. HIDE DEF new, r, h, rest
    <3>. QED  BY <2>0, <2>1, <3>1 DEF CallFields
  <2>2. CASE r.kind = "broadcast"
    <3>1. call' = [new EXCEPT !.todo = r.others]
      BY <1>1, <2>2
    <3>. HIDE DEF new, r, h
    <3>. QED  BY <2>0, <2>2, <3>1 DEF CallFields
  <2>3. CASE r.kind = "shared"
    <3>1. call' = [new EXCEPT !.direct = r.direct, !.todo = r.others]
      BY <1>1, <2>3
    <3>. HIDE DEF new, r, h
    <3>. QED  BY <2>0, <2>3, <3>1 DEF CallFields
  <2>4. CASE r.kind = "cancel"
    <3>1. call' = [new EXCEPT !.direct = r.direct]
      BY <1>1, <2>4
    <3>. HIDE DEF new, r, h
    <3>. QED  BY <2>0, <2>4, <3>1 DEF CallFields
  <2>5. CASE r.kind = "handoff"
    <3>1. call' = [new EXCEPT !.direct = r.direct, !.idle = r.others,
                              !.from = stage.stmt.from]
      BY <1>1, <2>5
    <3>. HIDE DEF new, r, h
    <3>. QED  BY <2>0, <2>5, <3>1 DEF CallFields
  <2>. QED  BY <1>3, <2>1, <2>2, <2>3, <2>4, <2>5
<1>. HIDE DEF h, tl, what, begun, r
<1>5. queue' = tl
  BY <1>1, <1>2, NothingBefore DEF AllSound
<1>6. /\ \A c \in {"plan", "source", "answer", "dispatched"} : ~ Is(h, c)
      /\ Is(h, "dispatch") <=> h.ref = DispatchRef
      /\ Is(h, "loop") <=> h.ref = LoopRef
      /\ ~ Is(h, "snap")
  BY <1>3 DEF Is, Asks, Sources, Requests, Answers, IsPublish, Shows
<1>7. call.ref # DispatchRef /\ call.ref # LoopRef
  BY <1>2 DEF NoCall, NoRef, Ref, DispatchRef, LoopRef
<1>8. /\ \A c : Has(queue, c) <=> Is(h, c) \/ Has(queue', c)
      /\ \A c \in Classes : Only(queue', c) /\ ~ (Is(h, c) /\ Has(queue', c))
  BY <1>2, <1>5 DEF Split, IInv, Flight
<1>9. stage.phase # "planning"
  BY <1>2, <1>6
<1>10. Shapes'
  BY <1>1, <1>3, <1>4 DEF IInv, Shapes, CallOK
<1>11. Flight'
  <2>1. "dispatch" \in Classes /\ "loop" \in Classes
    BY DEF Classes
  <2>2. /\ Has(queue', "plan") <=> Has(queue, "plan")
        /\ Has(queue', "source") <=> Has(queue, "source")
    BY <1>6, <1>8
  <2>. QED  BY <1>1, <1>4, <1>6, <1>7, <1>8, <2>1, <2>2 DEF IInv, Flight
<1>12. Answering'
  <2>1. Has(queue', "answer") <=> Has(queue, "answer")
    BY <1>6, <1>8
  <2>. QED  BY <1>1, <2>1 DEF IInv, Answering
<1>13. Reporting'
  <2>1. \A k \in DOMAIN queue' : \E j \in DOMAIN queue : queue'[k] = queue[j]
    BY <1>2, <1>5 DEF Split
  <2>2. Has(queue', "dispatched") <=> Has(queue, "dispatched")
    BY <1>6, <1>8
  <2>3. call'.ref = DispatchRef => Reached(stage, call', got)
    <3>1. SUFFICES ASSUME h.ref = DispatchRef PROVE Reached(stage, call', got)
      BY <1>4
    <3>2. got = {} /\ Asked(stage, r) /\ stage.phase = "dispatching"
      <4>1. Is(h, "dispatch") /\ Has(queue, "dispatch")
        BY <1>6, <1>8, <3>1
      <4>2. Dispatching(stage, h, got)
        BY <1>2, <4>1
      <4>. QED  BY <1>3, <4>1, <4>2 DEF Dispatching, IInv, Flight, r
    <3>3. StatementOK(stage.stmt)
      BY <3>2 DEF IInv, Shapes, StageOK
    <3>4. CASE r.kind = "shared" /\ stage.stmt.kind = "send" /\ r.direct \in Alias
               /\ r.others \cup {r.direct} = stage.dispatchRouting
      <4>1. r.direct # NoAlias
        BY <3>4, WorkflowsAssumption
      <4>. QED  BY <1>4, <3>2, <3>4, <4>1 DEF Reached
    <3>5. CASE r.kind = "broadcast" /\ stage.stmt.kind = "broadcast"
               /\ r.others = stage.dispatchRouting
      BY <1>4, <3>2, <3>5 DEF Reached
    <3>6. CASE r.kind = "handoff" /\ stage.stmt.kind = "handoff" /\ r.direct = stage.stmt.to
      BY <1>4, <3>2, <3>6 DEF Reached
    <3>. QED  BY <3>2, <3>4, <3>5, <3>6 DEF Asked
  <2>4. got # {} => Has(queue', "dispatch") \/ Has(queue', "dispatched") \/ call'.ref = DispatchRef
    BY <1>4, <1>6, <1>7, <1>8, <2>2 DEF IInv, Reporting
  <2>. QED  BY <1>1, <2>1, <2>2, <2>3, <2>4 DEF IInv, Reporting
<1>14. ShownStage'
  BY <1>1, <1>6, <1>8, <1>9, StageStaysShown DEF IInv, Showing
<1>15. ShownParts'
  BY <1>1, <1>6, <1>8, PartsStay DEF IInv, Showing
<1>16. AllSound(queue') /\ Types(scene')
  BY <1>1, <1>2, <1>5 DEF IInv, Operations
<1>. QED  BY <1>1, <1>2, <1>10, <1>11, <1>12, <1>13, <1>14, <1>15, <1>16, RunKeeps

\* The agent is asked to end its turn.
LEMMA CancelKeeps ==
    ASSUME IInv, Cancel, Outdate
    PROVE  IInv'
<1>. USE DEF session, mailbox, model, runner
<1>1. PICK ok \in BOOLEAN : call' = [call EXCEPT !.direct = NoAlias, !.err = ~ok]
  BY DEF Cancel
<1>2. /\ running /\ call # NoCall /\ call.kind = "cancel"
      /\ UNCHANGED <<session, mailbox, got, running, queue, snapshotRequested, pc, op, stage,
                     loop, shells, answers, scene, shown>>
      /\ fresh' <=> fresh
  BY DEF Cancel, Calling, CallStep, Outdate
<1>3. DOMAIN call = CallFields /\ call.kind = "cancel" /\ call.ref \in Refs
  BY <1>2 DEF IInv, Shapes, CallOK
<1>4. DOMAIN call' = CallFields /\ call'.kind = "cancel" /\ call'.ref = call.ref
  BY <1>1, <1>3 DEF CallFields
<1>5. call.ref # DispatchRef
  BY <1>2 DEF IInv, Reporting, Reached
<1>6. Shapes'
  BY <1>2, <1>3, <1>4 DEF IInv, Shapes, CallOK
<1>7. Flight'
  BY <1>2, <1>4 DEF IInv, Flight
<1>8. Answering'
  BY <1>2 DEF IInv, Answering
<1>9. Reporting'
  BY <1>2, <1>4, <1>5 DEF IInv, Reporting
<1>10. ShownStage'
  <2>1. stage.phase # "planning"
    BY <1>2, PlanningAlone
  <2>. QED  BY <1>2, <2>1, StageStaysShown DEF IInv, Showing
<1>11. ShownParts'
  BY <1>2, PartsStay DEF IInv, Showing
<1>12. AllSound(queue') /\ Types(scene')
  BY <1>2 DEF IInv, Lists, Operations
<1>. QED  BY <1>2, <1>6, <1>7, <1>8, <1>9, <1>10, <1>11, <1>12, RunKeeps

\* The request returns.
LEMMA EndCallKeeps ==
    ASSUME IInv, EndCall, Outdate
    PROVE  IInv'
<1>. USE DEF session, model, frontEnd
<1>. DEFINE done == SessionDone(call.ref, call.err, call.delivered, ~call.err /\ call.recorded)
            told == IF ~call.err /\ call.recorded THEN <<AppendInput(call.routing)>> ELSE <<>>
            burst == Burst(inbox)
            pair == <<burst, done>>
            n == told \o pair
<1>1. /\ running /\ call # NoCall /\ call.direct = NoAlias /\ call.todo = {}
      /\ queue' = n \o queue /\ inbox' = <<>> /\ call' = NoCall
      /\ UNCHANGED <<session, drainPending, ops, pc, op, running, snapshotRequested, stage, loop,
                     shells, answers, got, scene, shown>>
      /\ fresh' <=> fresh
  BY DEF EndCall, Calling, Outdate
<1>2. /\ burst.do = "burst" /\ burst.events = inbox
      /\ done.do = "sessionDone" /\ done.ref = call.ref
      /\ done.err = call.err /\ done.delivered = call.delivered
  BY DEF Burst, SessionDone
<1>3. call.ref \in Refs
  BY <1>1 DEF IInv, Shapes, CallOK
<1>4. IsSeq(inbox) /\ AllSound(queue)
  BY DEF IInv, Lists
<1>5. Plain(told)
  <2>1. Telling(AppendInput(call.routing))
    BY DEF Telling, AppendInput
  <2>. QED  BY <2>1, TellingIsPlain, PlainOnes
<1>. HIDE DEF burst, done, told
<1>6. /\ \A c \in Classes : ~ Is(burst, c)
      /\ Sound(burst) /\ (Is(burst, "snap") <=> inbox # <<>>)
  <2>1. \A c \in Classes : ~ Is(burst, c)
    BY <1>2 DEF Is, Classes, Asks, Sources, Requests, Answers, IsPublish
  <2>2. Sound(burst)
    BY <1>2, <1>4 DEF Sound, Requests
  <2>3. Is(burst, "snap") <=> inbox # <<>>
    BY <1>2 DEF Is, Shows
  <2>. QED  BY <2>1, <2>2, <2>3
<1>7. /\ Sound(done)
      /\ \A c \in {"plan", "source", "answer", "dispatched"} : ~ Is(done, c)
      /\ Is(done, "dispatch") <=> call.ref = DispatchRef
      /\ Is(done, "loop") <=> call.ref = LoopRef
  BY <1>2, <1>3 DEF Sound, Is, Asks, Sources, Requests, Answers, IsPublish
<1>8. Prefixed(<<burst>>, <<done>>, pair)
  <2>1. Plain(<<burst>>) /\ AllSound(<<done>>)
    BY <1>6, <1>7, Literals DEF Plain
  <2>2. <<burst>> \o <<done>> = pair
    BY Two
  <2>. HIDE DEF pair
  <2>. QED  BY <2>1, <2>2, PlainBefore
<1>9. /\ AllSound(pair)
      /\ \A c \in Classes : Only(pair, c) /\ (Has(pair, c) <=> Is(done, c))
      /\ Has(pair, "snap") <=> Is(burst, "snap") \/ Is(done, "snap")
      /\ \A k \in DOMAIN pair : (\A c \in Classes : ~ Is(pair[k], c)) \/ pair[k] = done
  <2>1. /\ \A c : (Has(<<done>>, c) <=> Is(done, c)) /\ Only(<<done>>, c)
        /\ \A c : Has(<<burst>>, c) <=> Is(burst, c)
    BY Literals
  <2>2. \A k \in DOMAIN <<done>> : <<done>>[k] = done
    OBVIOUS
  <2>. DEFINE p == <<burst>>
              q == <<done>>
  <2>3. /\ \A c : (Has(q, c) <=> Is(done, c)) /\ Only(q, c)
        /\ \A c : Has(p, c) <=> Is(burst, c)
        /\ \A k \in DOMAIN q : q[k] = done
        /\ Prefixed(p, q, pair)
    BY <1>8, <2>1, <2>2
  <2>. HIDE DEF p, q, pair
  <2>. QED  BY <2>3 DEF Prefixed
<1>. HIDE DEF pair
<1>10. Prefixed(told, pair, n)
  BY <1>5, <1>9, PlainBefore
<1>11. /\ AllSound(n)
       /\ \A c \in Classes : Only(n, c) /\ (Has(n, c) <=> Is(done, c))
       /\ inbox # <<>> => Has(n, "snap")
       /\ \A k \in DOMAIN n : (\A c \in Classes : ~ Is(n[k], c)) \/ n[k] = done
  <2>1. ASSUME NEW k \in DOMAIN n
        PROVE  (\A c \in Classes : ~ Is(n[k], c)) \/ n[k] = done
    <3>. HIDE DEF n
    <3>. QED  BY <1>9, <1>10 DEF Prefixed
  <2>. HIDE DEF n
  <2>2. \A k \in DOMAIN n : (\A c \in Classes : ~ Is(n[k], c)) \/ n[k] = done
    BY <2>1
  <2>3. AllSound(n) /\ \A c \in Classes : Only(n, c) /\ (Has(n, c) <=> Is(done, c))
    BY <1>9, <1>10 DEF Prefixed
  <2>4. inbox # <<>> => Has(n, "snap")
    BY <1>6, <1>9, <1>10 DEF Prefixed
  <2>. QED  BY <2>2, <2>3, <2>4
<1>. HIDE DEF n
<1>12. Joined(queue', n, queue)
  BY <1>1, <1>4, <1>11, Joins
<1>13. \A c : Has(queue', c) <=> Has(n, c) \/ Has(queue, c)
  BY <1>12 DEF Joined
<1>14. /\ Has(queue', "plan") <=> Has(queue, "plan")
       /\ Has(queue', "source") <=> Has(queue, "source")
       /\ Has(queue', "answer") <=> Has(queue, "answer")
       /\ Has(queue', "dispatched") <=> Has(queue, "dispatched")
       /\ Has(queue', "dispatch") <=> Has(queue, "dispatch") \/ call.ref = DispatchRef
       /\ Has(queue', "loop") <=> Has(queue, "loop") \/ call.ref = LoopRef
  BY <1>7, <1>11, <1>13 DEF Classes
<1>15. \A c \in Classes : Only(queue', c)
  <2>1. \A c \in Classes : ~ (Is(done, c) /\ Has(queue, c))
    BY <1>7 DEF IInv, Flight, Classes
  <2>2. \A c \in Classes : Only(queue, c)
    BY DEF IInv, Flight
  <2>. QED  BY <1>11, <1>12, <2>1, <2>2 DEF Joined
<1>16. call'.ref # DispatchRef /\ call'.ref # LoopRef /\ DOMAIN call' = CallFields
  BY <1>1 DEF NoCall, NoRef, Ref, DispatchRef, LoopRef, CallFields
<1>17. stage.phase # "planning"
  BY <1>1, PlanningAlone
<1>18. Shapes'
  BY <1>1, <1>16 DEF IInv, Shapes, CallOK
<1>19. Flight'
  BY <1>1, <1>14, <1>15, <1>16 DEF IInv, Flight
<1>20. Answering'
  BY <1>1, <1>14 DEF IInv, Answering
<1>21. Reporting'
  <2>1. call.ref = DispatchRef => got = DeliveredTo(stage, done)
    <3>1. SUFFICES ASSUME call.ref = DispatchRef PROVE got = DeliveredTo(stage, done)
      OBVIOUS
    <3>2. Reached(stage, call, got) /\ stage.phase = "dispatching"
      BY <3>1 DEF IInv, Reporting, Flight
    <3>3. /\ StatementOK(stage.stmt)
          /\ stage.stmt.kind = "handoff" => stage.dispatchRouting = {stage.stmt.from, stage.stmt.to}
      BY <3>2 DEF IInv, Shapes, StageOK
    <3>4. stage.stmt.kind = "handoff" => stage.stmt.to # NoAlias
      BY <3>3, WorkflowsAssumption DEF StatementOK
    <3>. QED  BY <1>1, <1>2, <3>2, <3>3, <3>4 DEF Reached, DeliveredTo
  <2>2. ASSUME NEW k \in DOMAIN queue'
        PROVE  /\ Is(queue'[k], "plan") => Planned(stage, queue'[k])
               /\ Is(queue'[k], "dispatch") => Dispatching(stage, queue'[k], got)
               /\ Is(queue'[k], "dispatched") => got # {} /\ queue'[k].routing = got
    <3>1. CASE \E j \in DOMAIN queue : queue'[k] = queue[j]
      BY <3>1 DEF IInv, Reporting
    <3>2. CASE \A c \in Classes : ~ Is(queue'[k], c)
      BY <3>2 DEF Classes
    <3>3. CASE queue'[k] = done
      BY <1>2, <1>7, <2>1, <3>3 DEF Dispatching, Told
    <3>. QED  BY <1>11, <1>12, <3>1, <3>2, <3>3 DEF Joined
  <2>. QED  BY <1>1, <1>14, <1>16, <2>2 DEF IInv, Reporting
<1>22. ShownStage'
  BY <1>1, <1>13, <1>17, StageStaysShown DEF IInv, Showing
<1>23. ShownParts'
  <2>1. CASE inbox # <<>>
    BY <1>11, <1>13, <2>1 DEF ShownParts
  <2>2. CASE inbox = <<>>
    BY <1>1, <1>13, <2>2, PartsStay DEF IInv, Showing
  <2>. QED  BY <2>1, <2>2
<1>24. Lists'
  <2>1. IsSeq(inbox')
    BY <1>1, Literals DEF AllSound
  <2>. QED  BY <1>1, <1>12, <2>1 DEF IInv, Lists, Joined
<1>25. Operations'
  BY <1>1 DEF IInv, Operations
<1>26. Resting'
  BY <1>1 DEF Resting
<1>27. Draining'
  BY <1>1 DEF IInv, Draining
<1>. QED  BY <1>18, <1>19, <1>20, <1>21, <1>22, <1>23, <1>24, <1>25, <1>26, <1>27
        DEF IInv, Showing

\* A recipient of the request under way is dealt with: what the session does
\* is notified at once.
LEMMA CallGoesOn ==
    ASSUME IInv, running, call # NoCall, CallStep,
           DOMAIN call' = CallFields, call'.kind = call.kind, call'.ref = call.ref,
           IF call.ref = DispatchRef THEN Reached(stage, call', got') ELSE got' = got,
           Outdate,
           \/ UNCHANGED <<session, mailbox>>
           \/ /\ DOMAIN part' = Alias /\ UNCHANGED <<owed, leaving>>
              /\ \E events : IsSeq(events) /\ events # <<>> /\ Notify(events)
    PROVE  IInv'
<1>. USE DEF session, mailbox, model, runner
<1>1. /\ UNCHANGED <<running, queue, snapshotRequested, pc, op, stage, loop, shells, answers,
                     scene, shown>>
      /\ owed' = owed /\ leaving' = leaving /\ DOMAIN part' = Alias
  BY DEF CallStep, Outdate, IInv, Lists
<1>2. /\ IsSeq(inbox') /\ IsSeq(ops') /\ Draining'
      /\ \A k \in DOMAIN ops' : ops'[k].kind = "drain" \/ (k \in DOMAIN ops /\ ops'[k] = ops[k])
      /\ inbox' # <<>> \/ (inbox' = inbox /\ (fresh' <=> fresh))
  <2>1. CASE UNCHANGED <<session, mailbox>>
    <3>1. fresh' <=> fresh
      BY <2>1 DEF Outdate
    <3>2. IsSeq(inbox') /\ IsSeq(ops')
      BY <2>1 DEF IInv, Lists
    <3>3. Draining'
      BY <1>1, <2>1, StillDraining DEF IInv
    <3>4. \A k \in DOMAIN ops' : ops'[k].kind = "drain" \/ (k \in DOMAIN ops /\ ops'[k] = ops[k])
      BY <2>1
    <3>. QED  BY <2>1, <3>1, <3>2, <3>3, <3>4
  <2>2. CASE \E events : IsSeq(events) /\ events # <<>> /\ Notify(events)
    <3>1. PICK events : IsSeq(events) /\ events # <<>> /\ Notify(events)
      BY <2>2
    <3>2. IsSeq(inbox) /\ IsSeq(ops) /\ Draining
      BY DEF IInv, Lists
    <3>. QED  BY <1>1, <3>1, <3>2, Notified
  <2>. QED  BY <2>1, <2>2
<1>3. Lists'
  BY <1>1, <1>2 DEF IInv, Lists
<1>4. Shapes'
  BY <1>1 DEF IInv, Shapes, CallOK
<1>5. Operations'
  BY <1>1, <1>2 DEF IInv, Operations
<1>6. Resting'
  BY <1>1 DEF Resting
<1>7. Flight'
  BY <1>1 DEF IInv, Flight
<1>8. Answering'
  BY <1>1 DEF IInv, Answering
<1>9. Reporting'
  <2>1. CASE call.ref = DispatchRef
    <3>1. ~ Has(queue, "plan") /\ ~ Has(queue, "dispatch") /\ ~ Has(queue, "dispatched")
      BY <2>1 DEF IInv, Flight, Reporting
    <3>2. \A k \in DOMAIN queue' : /\ ~ Is(queue'[k], "plan") /\ ~ Is(queue'[k], "dispatch")
                                   /\ ~ Is(queue'[k], "dispatched")
      BY <1>1, <3>1 DEF Has
    <3>3. Reached(stage', call', got') /\ ~ Has(queue', "dispatched")
      BY <1>1, <2>1, <3>1
    <3>. QED  BY <2>1, <3>2, <3>3 DEF Reporting
  <2>2. CASE call.ref # DispatchRef
    BY <1>1, <2>2 DEF IInv, Reporting
  <2>. QED  BY <2>1, <2>2
<1>10. ShownStage'
  <2>1. stage.phase # "planning"
    BY PlanningAlone
  <2>. QED  BY <1>1, <2>1, StageStaysShown DEF IInv, Showing
<1>11. ShownParts'
  <2>1. CASE inbox' # <<>>
    BY <2>1 DEF ShownParts
  <2>2. CASE inbox' = inbox /\ (fresh' <=> fresh)
    BY <1>1, <2>2, PartsStay DEF IInv, Showing
  <2>. QED  BY <1>2, <2>1, <2>2
<1>. QED  BY <1>2, <1>3, <1>4, <1>5, <1>6, <1>7, <1>8, <1>9, <1>10, <1>11 DEF IInv, Showing

\* Which recipient comes next.
LEMMA RecipientIs ==
    ASSUME NEW a, Recipient(a)
    PROVE  \/ call.direct # NoAlias /\ a = call.direct
           \/ call.direct = NoAlias /\ a \in call.todo
  BY DEF Recipient

\* Who accepts a message is announced at once, unless it was layered on a turn.
LEMMA SendTurnTells ==
    ASSUME IInv, NEW a \in Alias, SendTurn(a)
    PROVE  \/ UNCHANGED <<session, mailbox>>
           \/ /\ DOMAIN part' = Alias /\ UNCHANGED <<owed, leaving>>
              /\ \E events : IsSeq(events) /\ events # <<>> /\ Notify(events)
<1>. DEFINE x == StatusChanged(a, "preparing")
            y == StatusChanged(a, "working")
            more == IF call.kind = "handoff" THEN <<ContextHandoff(call.from, a)>> ELSE <<>>
            events == <<x, y>> \o more
<1>1. UNCHANGED <<session, mailbox>> \/ Accepted(a, more)
  BY DEF SendTurn
<1>2. ASSUME Accepted(a, more)
      PROVE  DOMAIN part' = Alias /\ UNCHANGED <<owed, leaving>> /\ Notify(events)
  BY <1>2 DEF Accepted, IInv, Lists
<1>3. IsSeq(events) /\ events # <<>>
  <2>1. IsSeq(more)
    BY Literals DEF AllSound
  <2>. HIDE DEF more, x, y
  <2>2. <<x>> \o <<y>> = <<x, y>>
    BY Two
  <2>3. IsSeq(<<x, y>>) /\ Len(<<x, y>>) = 2
    BY <2>2, Literals, Cat
  <2>4. IsSeq(events) /\ Len(events) = 2 + Len(more) /\ Len(more) \in Nat
    BY <2>1, <2>3, Cat, SeqFacts
  <2>. HIDE DEF events
  <2>. QED  BY <2>4, SeqFacts
<1>. HIDE DEF events, more
<1>. QED  BY <1>1, <1>2, <1>3

\* Somebody accepts the message, and will be named.
LEMMA SendTurnKeeps ==
    ASSUME IInv, NEW a \in Alias, SendTurn(a), Outdate
    PROVE  IInv'
<1>1. /\ running /\ call # NoCall /\ call.kind # "cancel" /\ Recipient(a) /\ CallStep
      /\ GotIt(a)
      /\ call' = [call EXCEPT !.direct = NoAlias, !.todo = @ \ {a}, !.delivered = @ \cup {a}]
  BY DEF SendTurn, Calling
<1>2. DOMAIN call = CallFields
  BY DEF IInv, Shapes, CallOK
<1>3. /\ DOMAIN call' = CallFields /\ call'.kind = call.kind /\ call'.ref = call.ref
      /\ call'.direct = NoAlias /\ call'.todo = call.todo \ {a}
      /\ call'.delivered = call.delivered \cup {a} /\ call'.err = call.err
      /\ call'.from = call.from
  BY <1>1, <1>2 DEF CallFields
<1>4. CASE call.ref = DispatchRef
  <2>1. Reached(stage, call, got) /\ stage.phase = "dispatching"
    BY <1>4 DEF IInv, Reporting, Flight
  <2>2. got' = got \cup {a} \cup (IF call.kind = "handoff" THEN {call.from} ELSE {})
    BY <1>1, <1>4 DEF GotIt, DispatchRef
  <2>3. \/ call.direct # NoAlias /\ a = call.direct
        \/ call.direct = NoAlias /\ a \in call.todo
    BY <1>1, RecipientIs
  <2>4. Reached(stage, call', got')
    <3>1. CASE /\ call.kind = "handoff" /\ stage.stmt.kind = "handoff"
               /\ call.todo = {} /\ call.from = stage.stmt.from
               /\ call.direct = stage.stmt.to /\ call.delivered = {} /\ got = {} /\ ~ call.err
      <4>1. a = stage.stmt.to
        BY <2>3, <3>1
      <4>2. got' = {stage.stmt.from, stage.stmt.to}
        BY <2>2, <3>1, <4>1
      <4>3. call'.todo = {} /\ call'.from = stage.stmt.from /\ ~ call'.err
        BY <1>3, <3>1
      <4>. QED  BY <1>3, <3>1, <4>2, <4>3 DEF Reached
    <3>2. CASE /\ call.kind = "handoff" /\ call.todo = {} /\ call.direct = NoAlias
      BY <2>3, <3>2
    <3>3. CASE /\ call.kind \in {"shared", "broadcast"}
               /\ stage.stmt.kind \in {"send", "broadcast"}
               /\ got = call.delivered
               /\ ~ call.err => call.delivered \cup call.todo \cup ({call.direct} \ {NoAlias})
                                    = stage.dispatchRouting
      <4>1. got' = call'.delivered
        BY <1>3, <2>2, <3>3
      <4>2. ~ call'.err => call'.delivered \cup call'.todo \cup ({call'.direct} \ {NoAlias})
                               = stage.dispatchRouting
        BY <1>3, <2>3, <3>3
      <4>. QED  BY <1>3, <3>3, <4>1, <4>2 DEF Reached
    <3>. QED  BY <2>1, <3>1, <3>2, <3>3 DEF Reached
  <2>5. IF call.ref = DispatchRef THEN Reached(stage, call', got') ELSE got' = got
    BY <1>4, <2>4
  <2>. QED  BY <1>1, <1>3, <2>5, SendTurnTells, CallGoesOn
<1>5. CASE call.ref # DispatchRef
  <2>1. got' = got
    BY <1>1, <1>5 DEF GotIt, DispatchRef
  <2>2. IF call.ref = DispatchRef THEN Reached(stage, call', got') ELSE got' = got
    BY <1>5, <2>1
  <2>. QED  BY <1>1, <1>3, <2>2, SendTurnTells, CallGoesOn
<1>. QED  BY <1>4, <1>5

LEMMA SendFailsTells ==
    ASSUME IInv, NEW a \in Alias, SendFails(a)
    PROVE  \/ UNCHANGED <<session, mailbox>>
           \/ /\ DOMAIN part' = Alias /\ UNCHANGED <<owed, leaving>>
              /\ \E events : IsSeq(events) /\ events # <<>> /\ Notify(events)
<1>. DEFINE events == <<StatusChanged(a, "idle")>>
<1>1. \/ UNCHANGED <<session, mailbox>>
      \/ /\ part' = [part EXCEPT ![a].status = "idle"]
         /\ Notify(events) /\ UNCHANGED <<owed, leaving>>
  BY DEF SendFails
<1>2. IsSeq(events) /\ events # <<>>
  BY Literals DEF AllSound
<1>3. DOMAIN part = Alias
  BY DEF IInv, Lists
<1>. HIDE DEF events
<1>. QED  BY <1>1, <1>2, <1>3

\* Somebody does not, and the request ends with an error.
LEMMA SendFailsKeeps ==
    ASSUME IInv, NEW a \in Alias, SendFails(a), Outdate
    PROVE  IInv'
<1>1. /\ running /\ call # NoCall /\ call.kind # "cancel" /\ Recipient(a) /\ CallStep
      /\ got' = got
      /\ call' = [call EXCEPT !.direct = NoAlias, !.err = TRUE,
                              !.todo = IF call.direct = NoAlias THEN @ \ {a} ELSE {}]
  BY DEF SendFails, Calling
<1>2. DOMAIN call = CallFields
  BY DEF IInv, Shapes, CallOK
<1>3. /\ DOMAIN call' = CallFields /\ call'.kind = call.kind /\ call'.ref = call.ref
      /\ call'.direct = NoAlias /\ call'.delivered = call.delivered /\ call'.err = TRUE
      /\ call'.from = call.from /\ (call.direct # NoAlias => call'.todo = {})
  BY <1>1, <1>2 DEF CallFields
<1>4. IF call.ref = DispatchRef THEN Reached(stage, call', got') ELSE got' = got
  <2>1. SUFFICES ASSUME call.ref = DispatchRef PROVE Reached(stage, call', got')
    BY <1>1
  <2>2. Reached(stage, call, got)
    BY <2>1 DEF IInv, Reporting
  <2>3. \/ call.direct # NoAlias /\ a = call.direct
        \/ call.direct = NoAlias /\ a \in call.todo
    BY <1>1, RecipientIs
  <2>4. CASE /\ call.kind = "handoff" /\ stage.stmt.kind = "handoff"
             /\ call.todo = {} /\ call.from = stage.stmt.from
             /\ call.direct = stage.stmt.to /\ call.delivered = {} /\ got = {} /\ ~ call.err
    BY <1>1, <1>3, <2>3, <2>4 DEF Reached
  <2>5. CASE /\ call.kind = "handoff" /\ call.todo = {} /\ call.direct = NoAlias
    BY <2>3, <2>5
  <2>6. CASE /\ call.kind \in {"shared", "broadcast"}
             /\ stage.stmt.kind \in {"send", "broadcast"}
             /\ got = call.delivered
    BY <1>1, <1>3, <2>6 DEF Reached
  <2>. QED  BY <2>2, <2>4, <2>5, <2>6 DEF Reached
<1>. QED  BY <1>1, <1>3, <1>4, SendFailsTells, CallGoesOn

-----------------------------------------------------------------------------

\* Every step keeps the invariant.
LEMMA NextKeeps ==
    ASSUME IInv, [Next]_vars
    PROVE  IInv'
<1>1. CASE UNCHANGED vars
  <2>1. UNCHANGED <<part, owed, leaving, inbox, drainPending, ops, pc, op, running, queue,
                    snapshotRequested, call, stage, loop, shells, answers, got, scene, shown>>
        /\ (fresh' <=> fresh)
    BY <1>1 DEF vars, others, session, mailbox, runner, model, frontEnd
  <2>2. Shapes' /\ Flight' /\ Answering' /\ Reporting'
    BY <2>1, StillFlying DEF IInv
  <2>3. Lists' /\ Draining'
    BY <2>1, StillLists, StillDraining DEF IInv
  <2>4. Operations'
    BY <2>1, StillOperations DEF IInv, Operations
  <2>5. Resting'
    BY <2>1 DEF IInv, Resting
  <2>6. ShownStage' /\ ShownParts'
    BY <2>1, StillShownStage, PartsStay DEF IInv, Showing
  <2>. QED  BY <2>2, <2>3, <2>4, <2>5, <2>6 DEF IInv, Showing
<1>2. CASE Publishing
  BY <1>2, EndRunKeeps, TellKeeps DEF Publishing
<1>3. CASE Working /\ Outdate
  <2>1. CASE Pull \/ TakeEvents
    BY <1>3, <2>1, PullKeeps, TakeEventsKeeps
  <2>2. CASE ApplySubmission \/ ApplyUserOp \/ ApplyShell
    BY <1>3, <2>2, ApplySubmissionKeeps, ApplyUserOpKeeps, ApplyShellKeeps
  <2>3. CASE Read \/ Complete \/ Project \/ LaunchShell
    BY <1>3, <2>3, ReadKeeps, CompleteKeeps, ProjectKeeps, LaunchShellKeeps
  <2>4. CASE ExecuteRemoval \/ ExecuteInvite \/ ExecuteOther
    BY <1>3, <2>4, CommandsKeep
  <2>5. CASE BeginCall \/ Cancel \/ EndCall
    BY <1>3, <2>5, BeginCallKeeps, CancelKeeps, EndCallKeeps
  <2>6. CASE \E a \in Alias : SendTurn(a) \/ SendFails(a)
    BY <1>3, <2>6, SendTurnKeeps, SendFailsKeeps
  <2>. QED  BY <1>3, <2>1, <2>2, <2>3, <2>4, <2>5, <2>6 DEF Working
<1>4. ASSUME NEW a \in Alias, Runs(a) \/ Notices(a) \/ (AgentDies(a) /\ Outdate)
      PROVE  IInv'
  BY <1>4, AgentsKeep, DeliverKeeps DEF Runs, Notices
<1>5. CASE UserTypes /\ Outdate
  BY <1>5, UserTypesKeeps
<1>6. CASE Finishes
  BY <1>6, ShellEndsKeeps DEF Finishes
<1>. QED  BY <1>1, <1>2, <1>3, <1>4, <1>5, <1>6 DEF Next, Executor

\* The invariant holds in every state.
LEMMA Invariant ==
    Spec => []IInv
<1>1. Init => IInv
  BY InitKeeps
<1>2. IInv /\ [Next]_vars => IInv'
  BY NextKeeps
<1>. QED  BY <1>1, <1>2, PTL DEF Spec

\* Each submission is answered exactly once: by its own sequence, by its stage or
\* by its loop, and by nothing that happens to these afterwards (submitOperation,
\* stageDispatchOutcomeInstruction, appendSubmissionSuccess).
THEOREM AnswersOnce == Spec => []AnsweredOnce
<1>1. IInv => AnsweredOnce
  BY Quiescent DEF IInv, AnsweredOnce, Answering, Idle
<1>. QED  BY <1>1, Invariant, PTL

\* The event that reports a dispatch names everybody who accepted the input and
\* nobody else, also when the send fails for some (stageDispatchRecordSequence,
\* DeliveredAliases).
THEOREM DeliveriesAreReported == Spec => []ReportsDeliveries
<1>1. ASSUME IInv
      PROVE  ReportsDeliveries
  <2>1. Idle => got = {}
    BY <1>1, Quiescent DEF IInv, Idle
  <2>2. ASSUME queue # <<>>, IsPublish(Head(queue), {"dispatched"})
        PROVE  got # {} /\ Head(queue).routing = got
    <3>1. Is(Head(queue), "dispatched")
      BY <2>2 DEF Is
    <3>2. Head(queue) = queue[1] /\ 1 \in DOMAIN queue
      BY <1>1, <2>2, Rest DEF IInv, Lists, AllSound
    <3>. QED  BY <1>1, <3>1, <3>2 DEF IInv, Reporting
  <2>. QED  BY <2>1, <2>2 DEF ReportsDeliveries
<1>. QED  BY <1>1, Invariant, PTL

\* When nothing is on its way, the front end has been shown the stage and the
\* participants as they are (refreshSnapshot, materializeSnapshot, Run).
THEOREM ScreenIsCurrent == Spec => []ShownIsCurrent
<1>1. ASSUME IInv
      PROVE  ShownIsCurrent
  <2>1. SUFFICES ASSUME ~ Busy, inbox = <<>>,
                        \A a \in Alias : owed[a] = <<>> /\ leaving[a] = <<>>
                 PROVE  fresh /\ shown = StageSnapshot(stage)
    BY DEF ShownIsCurrent
  <2>2. ~ running
    BY <2>1 DEF Busy
  <2>3. shown = StageSnapshot(stage)
    BY <1>1, <2>2, QuietShows
  <2>4. queue = <<>> /\ ~ snapshotRequested
    BY <1>1, <2>2 DEF IInv, Resting
  <2>5. ~ Has(queue, "snap")
    BY <2>4, Literals
  <2>6. ShownParts
    BY <1>1 DEF IInv, Showing
  <2>. QED  BY <2>1, <2>3, <2>4, <2>5, <2>6 DEF ShownParts
<1>. QED  BY <1>1, Invariant, PTL

\* No event stays in the inbox with nobody to take it (sessionEventInbox.Record,
\* recordSessionEvent, drainSessionEvents).
THEOREM NothingStranded == Spec => []NoStrandedEvent
<1>1. ASSUME IInv
      PROVE  NoStrandedEvent
  <2>1. SUFFICES ASSUME inbox # <<>> PROVE Busy
    BY DEF NoStrandedEvent
  <2>2. pc = "drain" \/ \E k \in DOMAIN ops : ops[k].kind = "drain"
    BY <1>1, <2>1 DEF IInv, Draining
  <2>3. ops = <<>> => ~ \E k \in DOMAIN ops : ops[k].kind = "drain"
    OBVIOUS
  <2>. QED  BY <2>2, <2>3 DEF Busy
<1>. QED  BY <1>1, Invariant, PTL
=============================================================================
