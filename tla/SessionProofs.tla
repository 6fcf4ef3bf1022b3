---------------------------- MODULE SessionProofs ----------------------------
(***************************************************************************)
(* Proofs about the session for every set of aliases and every bound:      *)
(* type correctness, and the ownership of Preparing and the cleanliness of *)
(* inactive participants, from the inductive invariant IInv; then, from    *)
(* Own and what is proved with it, the refinement of Lifecycle, the        *)
(* handles of deliveries, the removal of participants and the end of       *)
(* backend processes; and from Accounted, Agrees and Held, which tell what *)
(* the agent of a participant and its reader are doing for it, that turns  *)
(* and pings have their end in sight and that an idle agent is free.       *)
(*                                                                         *)
(* The latter need a condition on the goroutines, which look participants  *)
(* up by alias: StartsAlone, that no start goroutine meets a participant   *)
(* of a later invitation, or NoStragglers, that no goroutine does.  Few    *)
(* invitations of an alias make either true (TwiceSuffices, OnceSuffices). *)
(***************************************************************************)
EXTENDS Session, TLAPS

P == Participants(Inc0, Nat)

\* What makes TypeOK inductive: whoever is about to look a participant up has a
\* name to look it up by, and a reader about to track a stream has its name.
Named ==
    /\ \A i \in Inc : i <= invited => aliasOf[i] \in Alias
    /\ \A i \in Inc : spc[i] # "none" \/ rd[i].pc # "none" => i <= invited
    /\ \A i \in Inc : rd[i].pc \in {"dropCheck", "track"} => rd[i].msg.id \in Streams
    /\ \A k \in kruns : k[1] <= invited
    /\ ex.pc \in {"reserve", "spawn"} => ex.agent \in Inc /\ ex.agent <= invited
    /\ ex.pc \in {"reserve", "spawn", "evict", "acquire", "prepare", "recheck",
                  "send", "begin", "track", "abort"} => ex.alias \in Alias

LEMMA NewTyped == NewStarting \in P
BY SessionAssumption DEF SessionAssumption, NewStarting, P, Participants, Inc0, Status

LEMMA PlainTyped ==
    ASSUME NEW p \in P
    PROVE  /\ CommitIdle(p) \in P
           /\ SessionReady(p) \in P
           /\ PrepareForWork(p) \in P
           /\ BecomeIdle(p) \in P
           /\ AbortWork(p) \in P
           /\ BeginKeepalive(p) \in P
           /\ FinishKeepalive(p) \in P
           /\ Crash(p) \in P
<1>. USE DEF P, Participants
<1>1. /\ CommitIdle(p) \in P /\ SessionReady(p) \in P
      /\ BeginKeepalive(p) \in P /\ FinishKeepalive(p) \in P
  BY DEF CommitIdle, SessionReady, BeginKeepalive, FinishKeepalive, Status
<1>2. /\ PrepareForWork(p) \in P /\ BecomeIdle(p) \in P
      /\ AbortWork(p) \in P /\ Crash(p) \in P
  BY DEF PrepareForWork, BecomeIdle, AbortWork, Crash, ResetTo, Status
<1>. QED  BY <1>1, <1>2

LEMMA AttachTyped ==
    ASSUME NEW p \in P, NEW i \in Inc
    PROVE  AttachAgent(p, i) \in P
<1>1. i \in Inc0
  BY SessionAssumption DEF Inc, Inc0
<1>. QED  BY <1>1 DEF AttachAgent, Status, P, Participants

LEMMA WorkTyped ==
    ASSUME NEW p \in P, NEW anchor \in Streams \cup {NoStream}, NEW n \in Nat
    PROVE  BeginWorking(p, anchor, n) \in P
<1>. USE DEF P, Participants
<1>1. (IF anchor = NoStream THEN p.open ELSE p.open \cup {anchor}) \in SUBSET Streams
  OBVIOUS
<1>. QED  BY <1>1 DEF BeginWorking, Status

LEMMA StreamTyped ==
    ASSUME NEW p \in P, NEW id
    PROVE  CloseStream(p, id) \in P /\ (id \in Streams => TrackStream(p, id) \in P)
BY DEF TrackStream, CloseStream, P, Participants

LEMMA HolderTyped ==
    ASSUME TypeOK, NEW a \in Alias, Registered(a)
    PROVE  registry[a] \in Inc /\ Holder(a) \in P
BY DEF TypeOK, Registered, Holder, Inc, Inc0, P

LEMMA DropTyped ==
    ASSUME TypeOK, NEW a, DropRuntime(a)
    PROVE  runtime' \in [Alias -> Runtimes]
<1>1. NoRuntime \in Runtimes
  BY SessionAssumption DEF NoRuntime, Runtimes, Inc0
<1>. QED  BY <1>1 DEF TypeOK, DropRuntime

LEMMA ForgetTyped ==
    ASSUME TypeOK, NEW a, Forget(a)
    PROVE  registry' \in [Alias -> Inc0] /\ part' \in [Inc -> P]
<1>1. 0 \in Inc0
  BY SessionAssumption DEF Inc0
<1>. QED  BY <1>1, NewTyped DEF TypeOK, Forget, P

LEMMA SetHolderTyped ==
    ASSUME TypeOK, NEW a, NEW p, NEW ok, ok => p \in P, SetHolderIf(ok, a, p)
    PROVE  part' \in [Inc -> P]
BY DEF TypeOK, SetHolderIf, SetHolder, P

LEMMA AgentTypes ==
    ASSUME TypeOK, NEW i \in Inc, AgentStep(i)
    PROVE  TypeOK'
<1>1. CASE AgentOutput(i)
  BY <1>1 DEF TypeOK, AgentOutput, Emit, Messages, tables, flags, ids, keepers, Streams
<1>2. CASE AgentFinish(i)
  BY <1>2 DEF TypeOK, AgentFinish, Emit, Messages, tables, flags, ids, keepers, Streams
<1>3. CASE AgentFailTurn(i)
  BY <1>3 DEF TypeOK, AgentFailTurn, Emit, Messages, tables, flags, ids, keepers, Streams
<1>4. CASE AgentExit(i)
  BY <1>4 DEF TypeOK, AgentExit, tables, flags, ids, keepers
<1>. QED  BY <1>1, <1>2, <1>3, <1>4 DEF AgentStep

LEMMA StartAlias ==
    ASSUME TypeOK, Named, NEW i \in Inc, spc[i] # "none"
    PROVE  aliasOf[i] \in Alias
BY DEF Named

LEMMA StartTypes ==
    ASSUME TypeOK, Named, NEW i \in Inc, StartStep(i)
    PROVE  TypeOK'
<1>. USE DEF StartGo, tables, flags, ids, agents, keepers
<1>1. CASE StartOK(i)
  BY <1>1 DEF TypeOK, StartOK, StartPCs
<1>2. CASE StartFail(i)
  BY <1>2 DEF TypeOK, StartFail, StartPCs
<1>3. CASE StartFailContext(i)
  BY <1>3, DropTyped DEF TypeOK, StartFailContext, StartPCs
<1>. DEFINE a == aliasOf[i]
<1>a. spc[i] # "none" => a \in Alias
  BY StartAlias
<1>4. CASE StartFailCrash(i)
  <2>. DEFINE ok == Registered(a)
  <2>1. a \in Alias
    BY <1>4, <1>a DEF StartFailCrash
  <2>2. ok => Crash(Holder(a)) \in P
    BY <2>1, HolderTyped, PlainTyped
  <2>3. part' \in [Inc -> P]
    BY <1>4, <2>1, <2>2, SetHolderTyped DEF StartFailCrash
  <2>. QED  BY <1>4, <2>3 DEF TypeOK, StartFailCrash, StartPCs, P
<1>5. CASE StartAttach(i)
  <2>. DEFINE ok == Registered(a) /\ CanAttach(Holder(a))
  <2>1. a \in Alias
    BY <1>5, <1>a DEF StartAttach
  <2>2. ok => AttachAgent(Holder(a), i) \in P
    BY <2>1, HolderTyped, AttachTyped
  <2>3. part' \in [Inc -> P]
    BY <1>5, <2>1, <2>2, SetHolderTyped DEF StartAttach
  <2>4. runtime' \in [Alias -> Runtimes]
    <3>1. i \in Inc0
      BY SessionAssumption DEF Inc, Inc0
    <3>2. [runtime[a] EXCEPT !.stop = i] \in Runtimes
      BY <2>1, <3>1 DEF TypeOK, Runtimes
    <3>. QED  BY <1>5, <3>2 DEF TypeOK, StartAttach
  <2>. QED  BY <1>5, <2>3, <2>4 DEF TypeOK, StartAttach, StartPCs, P
<1>6. CASE StartCommit(i)
  <2>. DEFINE ok == Registered(a) /\ CanCommitIdle(Holder(a))
  <2>1. a \in Alias
    BY <1>6, <1>a DEF StartCommit
  <2>2. ok => CommitIdle(Holder(a)) \in P
    BY <2>1, HolderTyped, PlainTyped
  <2>3. part' \in [Inc -> P]
    BY <1>6, <2>1, <2>2, SetHolderTyped DEF StartCommit
  <2>. QED  BY <1>6, <2>3 DEF TypeOK, StartCommit, StartPCs, P
<1>7. CASE StartReady(i)
  <2>. DEFINE ok == Registered(a) /\ CanSessionReady(Holder(a))
  <2>1. a \in Alias
    BY <1>7, <1>a DEF StartReady
  <2>2. ok => SessionReady(Holder(a)) \in P
    BY <2>1, HolderTyped, PlainTyped
  <2>3. part' \in [Inc -> P]
    BY <1>7, <2>1, <2>2, SetHolderTyped DEF StartReady
  <2>4. rd' \in [Inc -> Readers]
    <3>1. [rd[i] EXCEPT !.pc = "read"] \in Readers
      BY DEF TypeOK, Readers, ReaderPCs
    <3>. QED  BY <1>7, <3>1 DEF TypeOK, StartReady
  <2>. QED  BY <1>7, <2>3, <2>4 DEF TypeOK, StartReady, StartPCs, P
<1>8. CASE StartAnnounce(i)
  BY <1>8 DEF TypeOK, StartAnnounce, StartPCs
<1>9. CASE StartCleanup(i)
  <2>1. registry' \in [Alias -> Inc0] /\ part' \in [Inc -> P]
    BY <1>9, ForgetTyped DEF StartCleanup
  <2>2. runtime' \in [Alias -> Runtimes]
    BY <1>9, DropTyped DEF StartCleanup
  <2>. QED  BY <1>9, <2>1, <2>2 DEF TypeOK, StartCleanup, StartPCs, P
<1>10. CASE StartUndo(i)
  BY <1>10, DropTyped DEF TypeOK, StartUndo, StartPCs
<1>11. CASE StartStop(i)
  BY <1>11 DEF TypeOK, StartStop, StartPCs, StopAgent
<1>. QED
  BY <1>1, <1>2, <1>3, <1>4, <1>5, <1>6, <1>7, <1>8, <1>9, <1>10, <1>11 DEF StartStep

LEMMA FinishTyped ==
    ASSUME TypeOK, NEW a \in Alias, FinishHolder(a)
    PROVE  part' \in [Inc -> P]
<1>. DEFINE ok == Registered(a) /\ CanFinishKeepalive(Holder(a))
<1>1. ok => FinishKeepalive(Holder(a)) \in P
  BY HolderTyped, PlainTyped
<1>. QED  BY <1>1, SetHolderTyped DEF FinishHolder

LEMMA ReaderAlias ==
    ASSUME TypeOK, Named, NEW i \in Inc, rd[i].pc # "none"
    PROVE  aliasOf[i] \in Alias
BY DEF Named

LEMMA ReaderTypes ==
    ASSUME TypeOK, Named, NEW i \in Inc, ReaderStep(i)
    PROVE  TypeOK'
<1>. USE DEF tables, flags, ids, agents, keepers
<1>g. ASSUME NEW from, NEW to \in ReaderPCs, ReaderGo(i, from, to)
      PROVE  rd' \in [Inc -> Readers]
  <2>1. (IF to = "track" THEN rd[i].msg ELSE NoMessage) \in Messages
    BY DEF TypeOK, Readers, NoMessage, Messages
  <2>. QED  BY <1>g, <2>1 DEF TypeOK, ReaderGo, Readers
<1>1. CASE ReadMessage(i)
  <2>1. Head(pipe[i]) \in Messages /\ Tail(pipe[i]) \in Seq(Messages)
    BY <1>1 DEF TypeOK, ReadMessage
  <2>2. Dispatch[Head(pipe[i]).mode] \in ReaderPCs
    BY <2>1 DEF Dispatch, ReaderPCs, Messages
  <2>. QED  BY <1>1, <2>1, <2>2 DEF TypeOK, ReadMessage, Readers
<1>2. CASE ReadEnd(i)
  <2>1. rd' \in [Inc -> Readers]
    BY <1>2, <1>g DEF ReadEnd, ReaderPCs
  <2>2. <<>> \in Seq(Messages)
    OBVIOUS
  <2>. QED  BY <1>2, <2>1, <2>2 DEF TypeOK, ReadEnd
<1>3. CASE ReaderDropCheck(i)
  <2>1. rd' \in [Inc -> Readers]
    BY <1>3, <1>g DEF ReaderDropCheck, ReaderPCs
  <2>. QED  BY <1>3, <2>1 DEF TypeOK, ReaderDropCheck
<1>. DEFINE a == aliasOf[i]
            id == rd[i].msg.id
<1>a. rd[i].pc # "none" => a \in Alias
  BY ReaderAlias
<1>4. CASE ReaderTrack(i)
  <2>. DEFINE ok == Registered(a) /\ CanTrack(Holder(a))
  <2>1. a \in Alias /\ id \in Streams
    BY <1>4, <1>a DEF ReaderTrack, ReaderGo, Named
  <2>2. ok => TrackStream(Holder(a), id) \in P
    <3>1. Registered(a) => Holder(a) \in P
      BY <2>1, HolderTyped
    <3>. QED  BY <2>1, <3>1, StreamTyped
  <2>3. part' \in [Inc -> P]
    BY <1>4, <2>1, <2>2, SetHolderTyped DEF ReaderTrack
  <2>4. rd' \in [Inc -> Readers]
    BY <1>4, <1>g DEF ReaderTrack, ReaderPCs
  <2>. QED  BY <1>4, <2>3, <2>4 DEF TypeOK, ReaderTrack, P
<1>5. CASE ReaderClose(i)
  <2>. DEFINE ok == Registered(a) /\ CanClose(Holder(a), id)
  <2>1. a \in Alias
    BY <1>5, <1>a DEF ReaderClose, ReaderGo
  <2>2. ok => CloseStream(Holder(a), id) \in P
    <3>1. Registered(a) => Holder(a) \in P
      BY <2>1, HolderTyped
    <3>. QED  BY <3>1, StreamTyped
  <2>3. part' \in [Inc -> P]
    BY <1>5, <2>1, <2>2, SetHolderTyped DEF ReaderClose
  <2>4. rd' \in [Inc -> Readers]
    BY <1>5, <1>g DEF ReaderClose, ReaderPCs
  <2>5. early' \in [Inc -> BOOLEAN]
    BY <1>5 DEF TypeOK, ReaderClose
  <2>. QED  BY <1>5, <2>3, <2>4, <2>5 DEF TypeOK, ReaderClose, P
<1>6. CASE ReaderMarkIdle(i)
  <2>. DEFINE ok == Registered(a) /\ CanBecomeIdle(Holder(a))
  <2>1. a \in Alias
    BY <1>6, <1>a DEF ReaderMarkIdle, ReaderGo
  <2>2. ok => BecomeIdle(Holder(a)) \in P
    BY <2>1, HolderTyped, PlainTyped
  <2>3. part' \in [Inc -> P]
    BY <1>6, <2>1, <2>2, SetHolderTyped DEF ReaderMarkIdle
  <2>4. rd' \in [Inc -> Readers]
    BY <1>6, <1>g DEF ReaderMarkIdle, ReaderPCs
  <2>. QED  BY <1>6, <2>3, <2>4 DEF TypeOK, ReaderMarkIdle, P
<1>7. CASE ReaderFinish(i)
  <2>1. a \in Alias
    BY <1>7, <1>a DEF ReaderFinish, ReaderGo
  <2>2. part' \in [Inc -> P]
    BY <1>7, <2>1, FinishTyped DEF ReaderFinish
  <2>3. rd' \in [Inc -> Readers]
    BY <1>7, <1>g DEF ReaderFinish, ReaderPCs
  <2>. QED  BY <1>7, <2>2, <2>3 DEF TypeOK, ReaderFinish, P
<1>8. CASE ReaderErrCheck(i)
  <2>1. rd' \in [Inc -> Readers]
    BY <1>8, <1>g DEF ReaderErrCheck, ReaderPCs
  <2>. QED  BY <1>8, <2>1 DEF TypeOK, ReaderErrCheck
<1>9. CASE ReaderCrash(i)
  <2>. DEFINE ok == Registered(a)
  <2>1. a \in Alias
    BY <1>9, <1>a DEF ReaderCrash, ReaderGo
  <2>2. ok => Crash(Holder(a)) \in P
    BY <2>1, HolderTyped, PlainTyped
  <2>3. part' \in [Inc -> P]
    BY <1>9, <2>1, <2>2, SetHolderTyped DEF ReaderCrash
  <2>4. rd' \in [Inc -> Readers]
    BY <1>9, <1>g DEF ReaderCrash, ReaderPCs
  <2>. QED  BY <1>9, <2>3, <2>4 DEF TypeOK, ReaderCrash, P
<1>10. CASE ReaderTerminal(i)
  <2>1. rd' \in [Inc -> Readers]
    BY <1>10, <1>g DEF ReaderTerminal, ReaderPCs
  <2>. QED  BY <1>10, <2>1 DEF TypeOK, ReaderTerminal
<1>. QED
  BY <1>1, <1>2, <1>3, <1>4, <1>5, <1>6, <1>7, <1>8, <1>9, <1>10 DEF ReaderStep

LEMMA KeeperTypes ==
    ASSUME TypeOK, Named, NEW i \in Inc, KeeperStep(i)
    PROVE  TypeOK'
<1>. USE DEF tables, flags, ids, agents, keepers
<1>1. CASE KeepaliveAccepted(i)
  BY <1>1 DEF TypeOK, KeepaliveAccepted, Accept
<1>2. CASE KeepaliveFailed(i)
  BY <1>2 DEF TypeOK, KeepaliveFailed, KeeperRuns
<1>3. CASE KeepaliveRelease(i)
  <2>1. aliasOf[i] \in Alias
    BY <1>3 DEF KeepaliveRelease, Named
  <2>2. part' \in [Inc -> P]
    BY <1>3, <2>1, FinishTyped DEF KeepaliveRelease
  <2>. QED  BY <1>3, <2>2 DEF TypeOK, KeepaliveRelease, P
<1>. QED  BY <1>1, <1>2, <1>3 DEF KeeperStep

LEMMA SweepTypes ==
    ASSUME TypeOK, Sweep
    PROVE  TypeOK'
<1>1. PICK due \in SUBSET KeepaliveEligible :
        LET claimed == {registry[a] : a \in due} IN
        /\ part' = [i \in Inc |-> IF i \in claimed THEN BeginKeepalive(part[i]) ELSE part[i]]
        /\ kruns' = kruns \cup {<<part[i].agent, "call">> : i \in claimed}
  BY DEF Sweep
<1>. DEFINE claimed == {registry[a] : a \in due}
<1>2. part' \in [Inc -> P]
  BY <1>1, PlainTyped DEF TypeOK, P
<1>3. ASSUME NEW i \in claimed
      PROVE  part[i].agent \in Inc
  <2>1. PICK a \in due : i = registry[a]
    OBVIOUS
  <2>2. a \in Alias /\ Registered(a) /\ Holder(a).agent # 0
    BY DEF KeepaliveEligible
  <2>3. Holder(a).agent \in Inc0
    BY <2>2, HolderTyped DEF P, Participants
  <2>. QED  BY <2>1, <2>2, <2>3 DEF Holder, Inc, Inc0
<1>4. kruns' \subseteq KeeperRuns
  BY <1>1, <1>3 DEF TypeOK, KeeperRuns
<1>. QED  BY <1>2, <1>4 DEF TypeOK, Sweep, tables, flags, ids, agents, P

LEMMA ContinueTyped ==
    ASSUME TypeOK
    PROVE  /\ ExecIdle \in Execs
           /\ Skipped \in Execs
           /\ Delivered \in Execs
           /\ \A kind \in {"none", "direct", "broadcast", "notice"} : Continue(kind) \in Execs
<1>1. ex.todo \in SUBSET Alias /\ ex.kind \in {"none", "direct", "broadcast", "notice"}
  BY DEF TypeOK, Execs
<1>2. ExecIdle \in Execs
  BY SessionAssumption DEF ExecIdle, Execs, ExecPCs, Inc0
<1>3. \A kind \in {"none", "direct", "broadcast", "notice"} : Continue(kind) \in Execs
  BY <1>1, <1>2 DEF Continue, Execs, ExecPCs
<1>. QED  BY <1>1, <1>2, <1>3 DEF Skipped, Delivered

LEMMA InviteTypes ==
    ASSUME TypeOK, Named,
           (\E a \in Alias : InviteAdd(a)) \/ InviteReserve \/ InviteSpawn
    PROVE  TypeOK'
<1>. USE DEF tables, flags, ids, agents, keepers
<1>1. ASSUME NEW a \in Alias, InviteAdd(a)
      PROVE  TypeOK'
  <2>1. invited + 1 \in Inc /\ invited + 1 \in Inc0
    <3>1. invited \in Inc0 /\ invited < MaxInvites
      BY <1>1 DEF TypeOK, InviteAdd
    <3>. QED  BY <3>1, SessionAssumption DEF Inc, Inc0
  <2>2. ex' \in Execs
    BY <1>1, <2>1, ContinueTyped DEF InviteAdd, Execs, ExecPCs
  <2>3. part' \in [Inc -> P]
    BY <1>1, NewTyped DEF TypeOK, InviteAdd, P
  <2>. QED  BY <1>1, <2>1, <2>2, <2>3 DEF TypeOK, InviteAdd, P
<1>2. ASSUME NEW a \in Alias
      PROVE  [runtime[a] EXCEPT !.present = TRUE] \in Runtimes
  BY DEF TypeOK, Runtimes
<1>3. CASE InviteReserve
  <2>1. runtime' \in [Alias -> Runtimes]
    BY <1>3, <1>2 DEF TypeOK, InviteReserve, Named
  <2>2. ex' \in Execs
    BY <1>3 DEF TypeOK, InviteReserve, Execs, ExecPCs
  <2>. QED  BY <1>3, <2>1, <2>2 DEF TypeOK, InviteReserve
<1>4. CASE InviteSpawn
  <2>1. runtime' \in [Alias -> Runtimes]
    BY <1>4, <1>2 DEF TypeOK, InviteSpawn, Named
  <2>2. ex' \in Execs
    BY <1>4, ContinueTyped DEF InviteSpawn
  <2>. QED  BY <1>4, <2>1, <2>2 DEF TypeOK, InviteSpawn, StartPCs
<1>. QED  BY <1>1, <1>3, <1>4

LEMMA RemoveTypes ==
    ASSUME TypeOK, Named,
           \/ \E a \in Alias : RemoveDetach(a) \/ RemoveUnattached(a)
           \/ RemoveStop \/ RemoveEvict
    PROVE  TypeOK'
<1>. USE DEF tables, flags, ids, agents, keepers
<1>1. ASSUME NEW a \in Alias, RemoveDetach(a)
      PROVE  TypeOK'
  <2>1. registry' \in [Alias -> Inc0] /\ part' \in [Inc -> P]
    BY <1>1, ForgetTyped DEF RemoveDetach
  <2>2. runtime' \in [Alias -> Runtimes]
    BY <1>1, DropTyped DEF RemoveDetach
  <2>3. runtime[a].stop \in Inc
    <3>1. runtime[a].stop \in Inc0 /\ runtime[a].stop # 0
      BY <1>1 DEF TypeOK, RemoveDetach, CanDetach, Runtimes
    <3>. QED  BY <3>1, SessionAssumption DEF Inc, Inc0
  <2>4. ex' \in Execs
    <3>1. Registered(a) => Holder(a).agent \in Inc0
      BY HolderTyped DEF P, Participants
    <3>. QED  BY <1>1, <3>1, ContinueTyped DEF RemoveDetach, Execs, ExecPCs
  <2>. QED  BY <1>1, <2>1, <2>2, <2>3, <2>4 DEF TypeOK, RemoveDetach, P
<1>2. ASSUME NEW a \in Alias, RemoveUnattached(a)
      PROVE  TypeOK'
  <2>1. ex' \in Execs
    BY <1>2, ContinueTyped DEF RemoveUnattached, Execs, ExecPCs
  <2>. QED  BY <1>2, <2>1 DEF TypeOK, RemoveUnattached
<1>3. CASE RemoveStop
  <2>1. ex' \in Execs
    BY <1>3, ContinueTyped DEF RemoveStop
  <2>. QED  BY <1>3, <2>1 DEF TypeOK, RemoveStop, StopAgent
<1>4. CASE RemoveEvict
  <2>1. ex' \in Execs
    BY <1>4, ContinueTyped DEF RemoveEvict
  <2>2. registry' \in [Alias -> Inc0] /\ part' \in [Inc -> P]
    BY <1>4, ForgetTyped DEF RemoveEvict, TypeOK, P
  <2>3. runtime' \in [Alias -> Runtimes]
    BY <1>4, DropTyped DEF RemoveEvict, TypeOK
  <2>. QED  BY <1>4, <2>1, <2>2, <2>3 DEF TypeOK, RemoveEvict, P
<1>. QED  BY <1>1, <1>2, <1>3, <1>4

LEMMA BeginCommandTypes ==
    ASSUME TypeOK, NEW pc \in ExecPCs, NEW kind \in {"direct", "broadcast", "notice"},
           NEW a \in Alias \cup {NoAlias}, NEW todo \in SUBSET Alias,
           BeginCommand(pc, kind, a, todo)
    PROVE  TypeOK'
<1>1. ex' \in Execs
  BY ContinueTyped DEF BeginCommand, Execs
<1>. QED
  BY <1>1 DEF TypeOK, BeginCommand, tables, flags, ids, agents, keepers

LEMMA UserTypes ==
    ASSUME TypeOK, Named, UserCommand
    PROVE  TypeOK'
<1>1. ASSUME NEW a \in Alias, NEW aliases \in SUBSET (Alias \ {a}), SendCommand(a, aliases)
      PROVE  TypeOK'
  BY <1>1, BeginCommandTypes DEF SendCommand, ExecPCs
<1>2. ASSUME NEW a \in Alias, NEW aliases \in SUBSET Alias, HandoffCommand(a, aliases)
      PROVE  TypeOK'
  BY <1>2, BeginCommandTypes DEF HandoffCommand, ExecPCs
<1>3. ASSUME NEW aliases \in SUBSET Alias,
             BroadcastCommand(aliases) \/ FrozenBroadcast(aliases)
      PROVE  TypeOK'
  BY <1>3, BeginCommandTypes DEF BroadcastCommand, FrozenBroadcast, ExecPCs
<1>4. CASE ShutdownBegin
  <2>1. ex' \in Execs
    BY <1>4, ContinueTyped DEF ShutdownBegin, Execs, ExecPCs
  <2>. QED
    BY <1>4, <2>1 DEF TypeOK, ShutdownBegin, tables, flags, ids, agents, keepers
<1>. QED  BY <1>1, <1>2, <1>3, <1>4, InviteTypes, RemoveTypes DEF UserCommand

LEMMA DeliveryTypes ==
    ASSUME TypeOK, Named,
           \/ \E a \in Alias : NextDelivery(a)
           \/ CommandDone \/ AcquireNotice \/ Prepare \/ Recheck
           \/ SendAccepted \/ SendRefused \/ Begin \/ Track \/ Abort
    PROVE  TypeOK'
<1>. USE DEF tables, flags, ids, agents, keepers
<1>. DEFINE a == ex.alias
            p == Holder(a)
<1>h. a \in Alias /\ Registered(a) => p \in P /\ p.agent \in Inc0
  BY HolderTyped DEF P, Participants
<1>x. ex \in Execs
  BY DEF TypeOK
<1>y. a \in Alias /\ Registered(a) => [ex EXCEPT !.pc = "send", !.agent = p.agent] \in Execs
  BY <1>h, <1>x DEF Execs, ExecPCs
<1>1. ASSUME NEW b \in Alias, NextDelivery(b)
      PROVE  TypeOK'
  <2>. DEFINE rest == [Continue(ex.kind) EXCEPT !.todo = @ \ {b}]
  <2>1. rest \in Execs
    BY <1>x, ContinueTyped DEF Execs
  <2>2. Registered(b) => Holder(b).agent \in Inc0
    BY HolderTyped DEF P, Participants
  <2>3. ex' \in Execs
    <3>. HIDE DEF rest
    <3>1. [rest EXCEPT !.pc = "acquire", !.alias = b] \in Execs
      BY <2>1 DEF Execs, ExecPCs
    <3>2. Registered(b) =>
            [rest EXCEPT !.pc = "prepare", !.alias = b, !.agent = Holder(b).agent] \in Execs
      BY <2>1, <2>2 DEF Execs, ExecPCs
    <3>. QED  BY <1>1, <2>1, <3>1, <3>2 DEF NextDelivery, rest
  <2>. QED  BY <1>1, <2>3 DEF TypeOK, NextDelivery
<1>2. CASE CommandDone
  <2>1. ex' \in Execs
    BY <1>2, ContinueTyped DEF CommandDone
  <2>. QED  BY <1>2, <2>1 DEF TypeOK, CommandDone
<1>3. CASE AcquireNotice
  <2>1. ex' \in Execs
    <3>1. a \in Alias
      BY <1>3 DEF AcquireNotice, Named
    <3>2. [ex EXCEPT !.pc = "prepare"] \in Execs
      BY <1>x DEF Execs, ExecPCs
    <3>. QED  BY <1>3, <1>y, <3>1, <3>2, ContinueTyped DEF AcquireNotice
  <2>. QED  BY <1>3, <2>1 DEF TypeOK, AcquireNotice
<1>4. CASE Prepare
  <2>1. a \in Alias
    BY <1>4 DEF Prepare, Named
  <2>2. part' \in [Inc -> P]
    BY <1>4, <1>h, <2>1, PlainTyped DEF TypeOK, Prepare, SetHolder, P
  <2>3. ex' \in Execs
    <3>1. \A pc \in {"send", "recheck"} : [ex EXCEPT !.pc = pc, !.mine = TRUE] \in Execs
      BY <1>x DEF Execs, ExecPCs
    <3>. QED  BY <1>4, <3>1, ContinueTyped DEF Prepare
  <2>4. early' \in [Inc -> BOOLEAN]
    BY <1>4 DEF TypeOK, Prepare
  <2>. QED  BY <1>4, <2>2, <2>3, <2>4 DEF TypeOK, Prepare, P
<1>5. CASE Recheck
  <2>1. ex' \in Execs
    <3>1. a \in Alias
      BY <1>5 DEF Recheck, Named
    <3>. QED  BY <1>5, <1>y, <3>1, ContinueTyped DEF Recheck
  <2>. QED  BY <1>5, <2>1 DEF TypeOK, Recheck
<1>6. CASE SendAccepted
  <2>1. ex' \in Execs
    BY <1>6, <1>x DEF SendAccepted, Execs, ExecPCs, Streams
  <2>. QED  BY <1>6, <2>1 DEF TypeOK, SendAccepted, Accept
<1>7. CASE SendRefused
  <2>1. ex' \in Execs
    BY <1>7, <1>x DEF SendRefused, Execs, ExecPCs
  <2>. QED  BY <1>7, <2>1 DEF TypeOK, SendRefused
<1>8. CASE Begin
  <2>1. a \in Alias /\ ex.anchor \in Streams \cup {NoStream}
    BY <1>8, <1>x DEF Begin, Named, Execs
  <2>2. lastTurnID + 1 \in Nat
    BY DEF TypeOK
  <2>3. Registered(a) => BeginWorking(p, ex.anchor, lastTurnID + 1) \in P
    BY <1>h, <2>1, <2>2, WorkTyped
  <2>4. part' \in [Inc -> P] /\ lastTurnID' \in Nat
    BY <1>8, <2>2, <2>3 DEF TypeOK, Begin, SetHolder, P
  <2>5. ex' \in Execs
    BY <1>8, ContinueTyped DEF Begin
  <2>. QED  BY <1>8, <2>4, <2>5 DEF TypeOK, Begin, P
<1>9. CASE Track
  <2>. DEFINE ok == Registered(a) /\ CanTrack(p) /\ ex.anchor # NoStream
  <2>1. a \in Alias /\ ex.anchor \in Streams \cup {NoStream}
    BY <1>9, <1>x DEF Track, Named, Execs
  <2>2. ok => TrackStream(p, ex.anchor) \in P
    BY <1>h, <2>1, StreamTyped
  <2>3. part' \in [Inc -> P]
    BY <1>9, <2>1, <2>2, SetHolderTyped DEF Track
  <2>4. ex' \in Execs
    BY <1>9, ContinueTyped DEF Track
  <2>. QED  BY <1>9, <2>3, <2>4 DEF TypeOK, Track, P
<1>10. CASE Abort
  <2>. DEFINE ok == Registered(a) /\ CanAbort(p)
  <2>1. a \in Alias
    BY <1>10 DEF Abort, Named
  <2>2. ok => AbortWork(p) \in P
    BY <1>h, <2>1, PlainTyped
  <2>3. part' \in [Inc -> P]
    BY <1>10, <2>1, <2>2, SetHolderTyped DEF Abort
  <2>4. ex' \in Execs
    BY <1>10, ContinueTyped DEF Abort
  <2>. QED  BY <1>10, <2>3, <2>4 DEF TypeOK, Abort, P
<1>. QED
  BY <1>1, <1>2, <1>3, <1>4, <1>5, <1>6, <1>7, <1>8, <1>9, <1>10

LEMMA ShutdownTypes ==
    ASSUME TypeOK,
           \/ ShutdownAwait \/ ShutdownCancelAll \/ ShutdownSnapshot
           \/ \E i \in Inc : ShutdownStop(i)
           \/ ShutdownDone
    PROVE  TypeOK'
<1>. USE DEF tables, flags, ids, agents, keepers
<1>x. ex \in Execs
  BY DEF TypeOK
<1>1. CASE ShutdownAwait
  <2>1. ex' \in Execs
    BY <1>1, <1>x DEF ShutdownAwait, Execs, ExecPCs
  <2>. QED  BY <1>1, <2>1 DEF TypeOK, ShutdownAwait
<1>2. CASE ShutdownCancelAll
  <2>1. ex' \in Execs
    BY <1>2, <1>x DEF ShutdownCancelAll, Execs, ExecPCs
  <2>2. NoRuntime \in Runtimes
    BY SessionAssumption DEF NoRuntime, Runtimes, Inc0
  <2>. QED  BY <1>2, <2>1, <2>2 DEF TypeOK, ShutdownCancelAll
<1>3. CASE ShutdownSnapshot
  <2>1. ASSUME NEW b \in Alias, Registered(b)
        PROVE  Holder(b).agent \in Inc0
    BY <2>1, HolderTyped DEF P, Participants
  <2>2. {Holder(b).agent : b \in {c \in Alias : Registered(c)}} \ {0} \in SUBSET Inc
    BY <2>1, SessionAssumption DEF Inc, Inc0
  <2>3. ex' \in Execs
    BY <1>3, <1>x, <2>2 DEF ShutdownSnapshot, Execs, ExecPCs
  <2>. QED  BY <1>3, <2>3 DEF TypeOK, ShutdownSnapshot
<1>4. ASSUME NEW i \in Inc, ShutdownStop(i)
      PROVE  TypeOK'
  <2>1. ex' \in Execs
    BY <1>4, <1>x DEF ShutdownStop, Execs
  <2>. QED  BY <1>4, <2>1 DEF TypeOK, ShutdownStop, StopAgent
<1>5. CASE ShutdownDone
  <2>1. ex' \in Execs
    BY <1>5, <1>x DEF ShutdownDone, Execs, ExecPCs
  <2>. QED  BY <1>5, <2>1 DEF TypeOK, ShutdownDone
<1>. QED  BY <1>1, <1>2, <1>3, <1>4, <1>5

LEMMA InitTypes == Init => TypeOK
<1>. SUFFICES ASSUME Init
              PROVE  TypeOK
  OBVIOUS
<1>1. registry \in [Alias -> Inc0] /\ lastTurnID \in Nat /\ invited \in Inc0
  BY SessionAssumption DEF Init, Inc0
<1>2. runtime \in [Alias -> Runtimes]
  BY SessionAssumption DEF Init, NoRuntime, Runtimes, Inc0
<1>3. rd \in [Inc -> Readers]
  BY DEF Init, Readers, ReaderPCs, NoMessage, Messages
<1>4. ex \in Execs
  BY SessionAssumption DEF Init, ExecIdle, Execs, ExecPCs, Inc0
<1>5. pipe \in [Inc -> Seq(Messages)]
  <2>1. <<>> \in Seq(Messages)
    OBVIOUS
  <2>. QED  BY <2>1 DEF Init
<1>6. part \in [Inc -> P]
  BY NewTyped DEF Init
<1>. QED
  BY <1>1, <1>2, <1>3, <1>4, <1>5, <1>6 DEF Init, TypeOK, StartPCs, KeeperRuns, P

LEMMA NextTypes == TypeOK /\ Named /\ [Next]_vars => TypeOK'
<1>. SUFFICES ASSUME TypeOK, Named, [Next]_vars
              PROVE  TypeOK'
  OBVIOUS
<1>1. CASE UserCommand
  BY <1>1, UserTypes
<1>2. CASE ExecStep
  BY <1>2, InviteTypes, RemoveTypes, DeliveryTypes, ShutdownTypes DEF ExecStep
<1>3. ASSUME NEW i \in Inc,
             AgentStep(i) \/ StartStep(i) \/ ReaderStep(i) \/ KeeperStep(i)
      PROVE  TypeOK'
  BY <1>3, AgentTypes, StartTypes, ReaderTypes, KeeperTypes
<1>4. CASE Sweep
  BY <1>4, SweepTypes
<1>5. CASE SweeperExit
  BY <1>5 DEF TypeOK, SweeperExit, tables, flags, ids, agents
<1>6. CASE UNCHANGED vars
  BY <1>6 DEF TypeOK, vars, tables, flags, ids, agents, keepers
<1>. QED  BY <1>1, <1>2, <1>3, <1>4, <1>5, <1>6 DEF Next

-----------------------------------------------------------------------------
(* The inductive invariant: TypeOK and Named for the shapes; RegistryOK, by  *)
(* which two aliases never share a participant; PartsOK, by which a          *)
(* Preparing participant is sendable, so that the second lookup of a direct  *)
(* send cannot give up on it; and PreparingOwned itself.                     *)

RegistryOK ==
    \A a \in Alias :
        /\ registry[a] <= invited
        /\ Registered(a) => aliasOf[registry[a]] = a

PartOK(p) ==
    /\ p.agent <= invited
    /\ p.status \in {"attached", "idle", "keepalive", "preparing", "working"} => p.agent # 0
    /\ p.status \in {"preparing", "working"} => p.ready
    /\ ~ HasActiveTurn(p) => p.open = {} /\ p.anchor = NoStream

PartsOK == \A i \in Inc : PartOK(part[i])

IInv == TypeOK /\ Named /\ RegistryOK /\ PartsOK /\ PreparingOwned

LEMMA MovesOK ==
    ASSUME invited \in Nat, NEW p \in P, PartOK(p)
    PROVE  /\ CanCommitIdle(p) => PartOK(CommitIdle(p))
           /\ CanSessionReady(p) => PartOK(SessionReady(p))
           /\ IsReadyForWork(p) => PartOK(PrepareForWork(p))
           /\ CanBecomeIdle(p) => PartOK(BecomeIdle(p))
           /\ CanAbort(p) => PartOK(AbortWork(p))
           /\ CanBeginKeepalive(p) => PartOK(BeginKeepalive(p))
           /\ CanFinishKeepalive(p) => PartOK(FinishKeepalive(p))
           /\ PartOK(Crash(p))
<1>. USE DEF PartOK, P, Participants, HasActiveTurn
<1>1. /\ CanCommitIdle(p) => PartOK(CommitIdle(p))
      /\ CanSessionReady(p) => PartOK(SessionReady(p))
  BY DEF CanCommitIdle, CommitIdle, CanSessionReady, SessionReady
<1>2. /\ CanBeginKeepalive(p) => PartOK(BeginKeepalive(p))
      /\ CanFinishKeepalive(p) => PartOK(FinishKeepalive(p))
  BY DEF CanBeginKeepalive, BeginKeepalive, CanFinishKeepalive, FinishKeepalive
<1>3. /\ IsReadyForWork(p) => PartOK(PrepareForWork(p))
      /\ CanBecomeIdle(p) => PartOK(BecomeIdle(p))
  BY DEF IsReadyForWork, PrepareForWork, CanBecomeIdle, BecomeIdle, ResetTo
<1>4. /\ CanAbort(p) => PartOK(AbortWork(p))
      /\ PartOK(Crash(p))
  BY DEF CanAbort, AbortWork, Crash, ResetTo
<1>. QED  BY <1>1, <1>2, <1>3, <1>4

LEMMA AttachOK ==
    ASSUME NEW p \in P, PartOK(p), CanAttach(p), NEW i \in Inc, i <= invited
    PROVE  PartOK(AttachAgent(p, i))
BY DEF PartOK, CanAttach, AttachAgent, P, Participants, HasActiveTurn, Inc

LEMMA WorkOK ==
    ASSUME NEW p \in P, PartOK(p), CanBeginWorking(p), NEW anchor, NEW n
    PROVE  PartOK(BeginWorking(p, anchor, n)) /\ BeginWorking(p, anchor, n).status = "working"
BY DEF PartOK, CanBeginWorking, BeginWorking, P, Participants, HasActiveTurn

LEMMA StreamOK ==
    ASSUME NEW p \in P, PartOK(p), HasActiveTurn(p), NEW id
    PROVE  /\ PartOK(TrackStream(p, id)) /\ TrackStream(p, id).status = p.status
           /\ PartOK(CloseStream(p, id)) /\ CloseStream(p, id).status = p.status
BY DEF PartOK, HasActiveTurn, TrackStream, CloseStream, P, Participants

LEMMA MovesStatus ==
    ASSUME NEW p \in P
    PROVE  /\ CommitIdle(p).status = "idle"
           /\ SessionReady(p).status = p.status
           /\ PrepareForWork(p).status = "preparing"
           /\ BecomeIdle(p).status = "idle"
           /\ AbortWork(p).status = "idle"
           /\ BeginKeepalive(p).status = "keepalive"
           /\ FinishKeepalive(p).status = "idle"
           /\ Crash(p).status = "crashed"
           /\ \A i : AttachAgent(p, i).status = "attached"
BY DEF P, Participants, CommitIdle, SessionReady, PrepareForWork, BecomeIdle, AbortWork,
       BeginKeepalive, FinishKeepalive, Crash, AttachAgent, ResetTo

LEMMA HolderStep ==
    ASSUME TypeOK, PartsOK, PreparingOwned, NEW a \in Alias, NEW ok, NEW p,
           ok => /\ Registered(a)
                 /\ PartOK(p)
                 /\ p.status = "preparing" => Holder(a).status = "preparing",
           SetHolderIf(ok, a, p), UNCHANGED <<registry, invited, ex>>
    PROVE  PartsOK' /\ PreparingOwned'
<1>1. ASSUME NEW i \in Inc
      PROVE  part'[i] = part[i] \/ (ok /\ i = registry[a] /\ part'[i] = p)
  BY DEF TypeOK, SetHolderIf, SetHolder
<1>2. PartsOK'
  BY <1>1 DEF PartsOK, PartOK
<1>3. ASSUME NEW b \in Alias, Registered(b)', Holder(b)'.status = "preparing"
      PROVE  Registered(b) /\ Holder(b).status = "preparing"
  <2>1. registry[b] \in Inc
    BY <1>3, HolderTyped DEF Registered
  <2>. QED  BY <1>1, <1>3, <2>1 DEF Holder, Registered
<1>. QED  BY <1>2, <1>3 DEF PreparingOwned

LEMMA FrameStep ==
    ASSUME PartsOK, PreparingOwned, UNCHANGED <<registry, invited, part, ex>>
    PROVE  PartsOK' /\ PreparingOwned'
BY DEF PartsOK, PartOK, PreparingOwned, Registered, Holder

LEMMA ForgetStep ==
    ASSUME TypeOK, RegistryOK, PartsOK, PreparingOwned, NEW a \in Alias, Forget(a),
           invited' = invited, aliasOf' = aliasOf,
           ex' = ex \/ \A b \in Alias : ~ (Registered(b) /\ Holder(b).status = "preparing")
    PROVE  RegistryOK' /\ PartsOK' /\ PreparingOwned'
<1>0. PartOK(NewStarting)'
  BY DEF TypeOK, PartOK, NewStarting, HasActiveTurn, Inc0
<1>1. \A i \in Inc : part'[i] = NewStarting \/ part'[i] = part[i]
  BY DEF Forget
<1>2. PartsOK'
  BY <1>0, <1>1 DEF PartsOK, PartOK
<1>3. \A b \in Alias : registry'[b] = 0 \/ registry'[b] = registry[b]
  BY DEF TypeOK, Forget
<1>4. RegistryOK'
  <2>1. 0 <= invited
    BY DEF TypeOK, Inc0
  <2>. QED  BY <1>3, <2>1 DEF RegistryOK, Registered
<1>5. ASSUME NEW b \in Alias, Registered(b)', Holder(b)'.status = "preparing"
      PROVE  Registered(b) /\ Holder(b).status = "preparing"
  <2>1. registry'[b] = registry[b] /\ Registered(b)
    BY <1>3, <1>5 DEF Registered
  <2>2. registry[b] \in Inc
    BY <2>1, HolderTyped
  <2>3. NewStarting.status # "preparing"
    BY DEF NewStarting
  <2>. QED  BY <1>1, <1>5, <2>1, <2>2, <2>3 DEF Holder
<1>. QED  BY <1>2, <1>4, <1>5 DEF PreparingOwned

LEMMA AgentInv ==
    ASSUME IInv, NEW i \in Inc, AgentStep(i)
    PROVE  IInv'
<1>1. UNCHANGED <<registry, invited, aliasOf, spc, rd, kruns, part, ex>>
  BY DEF AgentStep, AgentOutput, AgentFinish, AgentFailTurn, AgentExit, tables, ids, keepers
<1>2. TypeOK'
  BY AgentTypes DEF IInv
<1>. QED
  BY <1>1, <1>2, FrameStep DEF IInv, Named, RegistryOK, Registered

LEMMA StartInv ==
    ASSUME IInv, NEW i \in Inc, StartStep(i)
    PROVE  IInv'
<1>. USE DEF IInv, tables, flags, ids, agents, keepers
<1>. DEFINE a == aliasOf[i]
<1>1. TypeOK'
  BY StartTypes
<1>2. spc[i] # "none" /\ i <= invited /\ a \in Alias
  BY DEF StartStep, StartOK, StartFail, StartFailContext, StartFailCrash, StartAttach,
         StartCommit, StartReady, StartAnnounce, StartCleanup, StartUndo, StartStop,
         StartGo, Named
<1>3. UNCHANGED <<invited, aliasOf, kruns, ex>>
  BY DEF StartStep, StartOK, StartFail, StartFailContext, StartFailCrash, StartAttach,
         StartCommit, StartReady, StartAnnounce, StartCleanup, StartUndo, StartStop
<1>4. \A j \in Inc : j # i => spc'[j] = spc[j] /\ rd'[j] = rd[j]
  BY DEF StartStep, StartOK, StartFail, StartFailContext, StartFailCrash, StartAttach,
         StartCommit, StartReady, StartAnnounce, StartCleanup, StartUndo, StartStop,
         StartGo, TypeOK
<1>5. rd'[i] = rd[i] \/ rd'[i].pc = "read"
  BY DEF StartStep, StartOK, StartFail, StartFailContext, StartFailCrash, StartAttach,
         StartCommit, StartReady, StartAnnounce, StartCleanup, StartUndo, StartStop,
         TypeOK, Readers
<1>6. Named'
  BY <1>2, <1>3, <1>4, <1>5 DEF Named
<1>h. Registered(a) => Holder(a) \in P /\ PartOK(Holder(a))
  BY <1>2, HolderTyped DEF PartsOK, Holder
<1>n. invited \in Nat
  BY DEF TypeOK, Inc0
<1>7. RegistryOK' /\ PartsOK' /\ PreparingOwned'
  <2>1. CASE StartOK(i) \/ StartFail(i) \/ StartFailContext(i) \/ StartAnnounce(i)
             \/ StartUndo(i) \/ StartStop(i)
    <3>1. UNCHANGED <<registry, invited, aliasOf, part, ex>>
      BY <2>1 DEF StartOK, StartFail, StartFailContext, StartAnnounce, StartUndo, StartStop
    <3>. QED  BY <3>1, FrameStep DEF RegistryOK, Registered
  <2>2. CASE StartFailCrash(i)
    <3>. DEFINE ok == Registered(a)
    <3>1. ok => /\ PartOK(Crash(Holder(a)))
                /\ Crash(Holder(a)).status # "preparing"
      BY <1>h, <1>n, MovesOK, MovesStatus
    <3>. QED
      BY <1>2, <2>2, <3>1, HolderStep DEF StartFailCrash, RegistryOK, Registered
  <2>3. CASE StartAttach(i)
    <3>. DEFINE ok == Registered(a) /\ CanAttach(Holder(a))
    <3>1. ok => /\ PartOK(AttachAgent(Holder(a), i))
                /\ AttachAgent(Holder(a), i).status # "preparing"
      BY <1>2, <1>h, AttachOK, MovesStatus
    <3>. QED
      BY <1>2, <2>3, <3>1, HolderStep DEF StartAttach, RegistryOK, Registered
  <2>4. CASE StartCommit(i)
    <3>. DEFINE ok == Registered(a) /\ CanCommitIdle(Holder(a))
    <3>1. ok => /\ PartOK(CommitIdle(Holder(a)))
                /\ CommitIdle(Holder(a)).status # "preparing"
      BY <1>h, <1>n, MovesOK, MovesStatus
    <3>. QED
      BY <1>2, <2>4, <3>1, HolderStep DEF StartCommit, RegistryOK, Registered
  <2>5. CASE StartReady(i)
    <3>. DEFINE ok == Registered(a) /\ CanSessionReady(Holder(a))
    <3>1. ok => /\ PartOK(SessionReady(Holder(a)))
                /\ SessionReady(Holder(a)).status # "preparing"
      BY <1>h, <1>n, MovesOK, MovesStatus DEF CanSessionReady
    <3>. QED
      BY <1>2, <2>5, <3>1, HolderStep DEF StartReady, RegistryOK, Registered
  <2>6. CASE StartCleanup(i)
    BY <1>2, <2>6, ForgetStep DEF StartCleanup
  <2>. QED
    BY <2>1, <2>2, <2>3, <2>4, <2>5, <2>6 DEF StartStep
<1>. QED  BY <1>1, <1>6, <1>7

LEMMA ReaderInv ==
    ASSUME IInv, NEW i \in Inc, ReaderStep(i)
    PROVE  IInv'
<1>. USE DEF IInv, tables, flags, ids, agents, keepers
<1>. DEFINE a  == aliasOf[i]
            id == rd[i].msg.id
<1>1. TypeOK'
  BY ReaderTypes
<1>2. rd[i].pc # "none" /\ i <= invited /\ a \in Alias
  BY DEF ReaderStep, ReadMessage, ReadEnd, ReaderDropCheck, ReaderTrack, ReaderClose,
         ReaderMarkIdle, ReaderFinish, ReaderErrCheck, ReaderCrash, ReaderTerminal,
         ReaderGo, Named
<1>3. UNCHANGED <<registry, invited, aliasOf, kruns, spc, ex>>
  BY DEF ReaderStep, ReadMessage, ReadEnd, ReaderDropCheck, ReaderTrack, ReaderClose,
         ReaderMarkIdle, ReaderFinish, ReaderErrCheck, ReaderCrash, ReaderTerminal
<1>4. \A j \in Inc : j # i => rd'[j] = rd[j]
  BY DEF ReaderStep, ReadMessage, ReadEnd, ReaderDropCheck, ReaderTrack, ReaderClose,
         ReaderMarkIdle, ReaderFinish, ReaderErrCheck, ReaderCrash, ReaderTerminal,
         ReaderGo, TypeOK
<1>5. rd'[i].pc \in {"dropCheck", "track"} => rd'[i].msg.id \in Streams
  <2>1. CASE ReadMessage(i)
    <3>1. Head(pipe[i]) \in Messages
      BY <2>1 DEF TypeOK, ReadMessage
    <3>2. rd'[i] = [pc |-> Dispatch[Head(pipe[i]).mode], msg |-> Head(pipe[i])]
      BY <2>1 DEF TypeOK, ReadMessage
    <3>. QED  BY <3>1, <3>2 DEF Dispatch, Messages
  <2>2. CASE ReaderDropCheck(i)
    BY <2>2 DEF TypeOK, ReaderDropCheck, ReaderGo, Named
  <2>3. CASE ~ ReadMessage(i) /\ ~ ReaderDropCheck(i)
    BY <2>3 DEF TypeOK, ReaderStep, ReadEnd, ReaderTrack, ReaderClose, ReaderMarkIdle,
         ReaderFinish, ReaderErrCheck, ReaderCrash, ReaderTerminal, ReaderGo
  <2>. QED  BY <2>1, <2>2, <2>3
<1>6. Named' /\ RegistryOK'
  BY <1>2, <1>3, <1>4, <1>5 DEF Named, RegistryOK, Registered
<1>h. Registered(a) => Holder(a) \in P /\ PartOK(Holder(a))
  BY <1>2, HolderTyped DEF PartsOK, Holder
<1>n. invited \in Nat
  BY DEF TypeOK, Inc0
<1>7. PartsOK' /\ PreparingOwned'
  <2>1. CASE ReadMessage(i) \/ ReadEnd(i) \/ ReaderDropCheck(i) \/ ReaderErrCheck(i)
             \/ ReaderTerminal(i)
    <3>1. UNCHANGED part
      BY <2>1 DEF ReadMessage, ReadEnd, ReaderDropCheck, ReaderErrCheck, ReaderTerminal
    <3>. QED  BY <1>3, <3>1, FrameStep
  <2>2. CASE ReaderTrack(i)
    <3>. DEFINE ok == Registered(a) /\ CanTrack(Holder(a))
    <3>1. ok => /\ PartOK(TrackStream(Holder(a), id))
                /\ TrackStream(Holder(a), id).status = Holder(a).status
      BY <1>h, StreamOK DEF CanTrack
    <3>. QED  BY <1>2, <1>3, <2>2, <3>1, HolderStep DEF ReaderTrack
  <2>3. CASE ReaderClose(i)
    <3>. DEFINE ok == Registered(a) /\ CanClose(Holder(a), id)
    <3>1. ok => /\ PartOK(CloseStream(Holder(a), id))
                /\ CloseStream(Holder(a), id).status = Holder(a).status
      BY <1>h, StreamOK DEF CanClose
    <3>. QED  BY <1>2, <1>3, <2>3, <3>1, HolderStep DEF ReaderClose
  <2>4. CASE ReaderMarkIdle(i)
    <3>. DEFINE ok == Registered(a) /\ CanBecomeIdle(Holder(a))
    <3>1. ok => /\ PartOK(BecomeIdle(Holder(a)))
                /\ BecomeIdle(Holder(a)).status # "preparing"
      BY <1>h, <1>n, MovesOK, MovesStatus
    <3>. QED  BY <1>2, <1>3, <2>4, <3>1, HolderStep DEF ReaderMarkIdle
  <2>5. CASE ReaderFinish(i)
    <3>. DEFINE ok == Registered(a) /\ CanFinishKeepalive(Holder(a))
    <3>1. ok => /\ PartOK(FinishKeepalive(Holder(a)))
                /\ FinishKeepalive(Holder(a)).status # "preparing"
      BY <1>h, <1>n, MovesOK, MovesStatus
    <3>. QED  BY <1>2, <1>3, <2>5, <3>1, HolderStep DEF ReaderFinish, FinishHolder
  <2>6. CASE ReaderCrash(i)
    <3>. DEFINE ok == Registered(a)
    <3>1. ok => /\ PartOK(Crash(Holder(a)))
                /\ Crash(Holder(a)).status # "preparing"
      BY <1>h, <1>n, MovesOK, MovesStatus
    <3>. QED  BY <1>2, <1>3, <2>6, <3>1, HolderStep DEF ReaderCrash
  <2>. QED  BY <2>1, <2>2, <2>3, <2>4, <2>5, <2>6 DEF ReaderStep
<1>. QED  BY <1>1, <1>6, <1>7

LEMMA KeeperInv ==
    ASSUME IInv, NEW i \in Inc, KeeperStep(i)
    PROVE  IInv'
<1>. USE DEF IInv, tables, flags, ids, agents, keepers
<1>. DEFINE a == aliasOf[i]
<1>1. TypeOK'
  BY KeeperTypes
<1>2. i <= invited /\ a \in Alias
  BY DEF KeeperStep, KeepaliveAccepted, KeepaliveFailed, KeepaliveRelease, Named
<1>3. UNCHANGED <<registry, invited, aliasOf, spc, rd, ex>>
  BY DEF KeeperStep, KeepaliveAccepted, KeepaliveFailed, KeepaliveRelease
<1>4. kruns' \subseteq kruns \cup {<<i, "failed">>}
  BY DEF KeeperStep, KeepaliveAccepted, KeepaliveFailed, KeepaliveRelease
<1>5. Named' /\ RegistryOK'
  BY <1>2, <1>3, <1>4 DEF Named, RegistryOK, Registered
<1>6. PartsOK' /\ PreparingOwned'
  <2>1. CASE KeepaliveAccepted(i) \/ KeepaliveFailed(i)
    <3>1. UNCHANGED part
      BY <2>1 DEF KeepaliveAccepted, KeepaliveFailed
    <3>. QED  BY <1>3, <3>1, FrameStep
  <2>2. CASE KeepaliveRelease(i)
    <3>. DEFINE ok == Registered(a) /\ CanFinishKeepalive(Holder(a))
    <3>1. ok => /\ PartOK(FinishKeepalive(Holder(a)))
                /\ FinishKeepalive(Holder(a)).status # "preparing"
      BY <1>2, HolderTyped, MovesOK, MovesStatus DEF PartsOK, Holder, TypeOK, Inc0
    <3>. QED  BY <1>2, <1>3, <2>2, <3>1, HolderStep DEF KeepaliveRelease, FinishHolder
  <2>. QED  BY <2>1, <2>2 DEF KeeperStep
<1>. QED  BY <1>1, <1>5, <1>6

LEMMA SweepInv ==
    ASSUME IInv, Sweep
    PROVE  IInv'
<1>. USE DEF IInv
<1>1. TypeOK'
  BY SweepTypes
<1>2. UNCHANGED <<registry, invited, aliasOf, spc, rd, ex>>
  BY DEF Sweep, tables, flags, ids, agents
<1>3. PICK due \in SUBSET KeepaliveEligible :
        LET claimed == {registry[a] : a \in due} IN
        /\ part' = [i \in Inc |-> IF i \in claimed THEN BeginKeepalive(part[i]) ELSE part[i]]
        /\ kruns' = kruns \cup {<<part[i].agent, "call">> : i \in claimed}
  BY DEF Sweep
<1>. DEFINE claimed == {registry[a] : a \in due}
<1>4. ASSUME NEW i \in claimed
      PROVE  i \in Inc /\ CanBeginKeepalive(part[i])
  <2>1. PICK a \in due : i = registry[a]
    OBVIOUS
  <2>. QED  BY <2>1, HolderTyped DEF KeepaliveEligible, Holder
<1>5. Named' /\ RegistryOK'
  <2>1. \A i \in claimed : part[i].agent <= invited
    BY <1>4 DEF PartsOK, PartOK
  <2>. QED  BY <1>2, <1>3, <2>1 DEF Named, RegistryOK, Registered
<1>6. \A i \in Inc :
        part'[i] = part[i] \/ (CanBeginKeepalive(part[i]) /\ part'[i] = BeginKeepalive(part[i]))
  BY <1>3, <1>4
<1>7. PartsOK'
  <2>1. ASSUME NEW i \in Inc
        PROVE  PartOK(part'[i])
    <3>1. part[i] \in P /\ PartOK(part[i]) /\ invited \in Nat
      BY DEF PartsOK, TypeOK, P, Inc0
    <3>. QED  BY <1>6, <3>1, MovesOK
  <2>. QED  BY <1>2, <2>1 DEF PartsOK, PartOK
<1>8. PreparingOwned'
  <2>1. ASSUME NEW b \in Alias, Registered(b)', Holder(b)'.status = "preparing"
        PROVE  Registered(b) /\ Holder(b).status = "preparing"
    <3>1. Registered(b) /\ registry[b] \in Inc
      BY <1>2, <2>1, HolderTyped DEF Registered
    <3>2. Holder(b) \in P
      BY <3>1, HolderTyped
    <3>. QED  BY <1>2, <1>6, <2>1, <3>1, <3>2, MovesStatus DEF Holder
  <2>. QED  BY <1>2, <2>1 DEF PreparingOwned
<1>. QED  BY <1>1, <1>5, <1>7, <1>8

\* Between two commands, and while a command is not in the middle of a delivery
\* it prepared, nobody is Preparing.
NonePreparing == \A b \in Alias : ~ (Registered(b) /\ Holder(b).status = "preparing")

LEMMA OutsideDelivery ==
    ASSUME PreparingOwned, ex.pc \notin {"recheck", "send", "begin", "abort"} \/ ~ ex.mine
    PROVE  NonePreparing
BY DEF PreparingOwned, NonePreparing

LEMMA InviteInv ==
    ASSUME IInv, (\E a \in Alias : InviteAdd(a)) \/ InviteReserve \/ InviteSpawn
    PROVE  IInv'
<1>. USE DEF IInv, tables, flags, ids, agents, keepers
<1>1. TypeOK'
  BY InviteTypes
<1>2. ASSUME NEW a \in Alias, InviteAdd(a)
      PROVE  Named' /\ RegistryOK' /\ PartsOK' /\ PreparingOwned'
  <2>. DEFINE new == invited + 1
  <2>1. invited \in Nat /\ invited < MaxInvites /\ new \in Inc
    <3>1. invited \in Inc0 /\ invited < MaxInvites
      BY <1>2 DEF TypeOK, InviteAdd
    <3>. QED  BY <3>1, SessionAssumption DEF Inc, Inc0
  <2>2. NonePreparing
    BY <1>2, OutsideDelivery DEF InviteAdd
  <2>3. aliasOf'[new] = a /\ \A i \in Inc : i # new => aliasOf'[i] = aliasOf[i]
    BY <1>2, <2>1 DEF TypeOK, InviteAdd
  <2>4. part'[new] = NewStarting /\ \A i \in Inc : i # new => part'[i] = part[i]
    BY <1>2, <2>1 DEF TypeOK, InviteAdd
  <2>5. registry'[a] = new /\ \A b \in Alias : b # a => registry'[b] = registry[b]
    BY <1>2 DEF TypeOK, InviteAdd
  <2>6. Named'
    <3>1. ex'.alias = a /\ ex'.agent = new /\ invited' = new
      BY <1>2 DEF InviteAdd, ExecIdle
    <3>2. UNCHANGED <<spc, rd, kruns>>
      BY <1>2 DEF InviteAdd
    <3>3. \A i \in Inc : i <= new => aliasOf'[i] \in Alias
      BY <2>1, <2>3 DEF Named, Inc
    <3>4. \A k \in kruns : k[1] <= new
      BY <2>1 DEF Named, TypeOK, KeeperRuns, Inc
    <3>5. \A i \in Inc : i <= invited => i <= new
      BY <2>1 DEF Inc
    <3>. QED  BY <2>1, <3>1, <3>2, <3>3, <3>4, <3>5 DEF Named
  <2>7. RegistryOK'
    <3>1. \A b \in Alias : registry[b] \in Nat /\ registry[b] <= invited
      BY DEF TypeOK, RegistryOK, Inc0
    <3>2. \A b \in Alias : registry[b] # new
      BY <2>1, <3>1
    <3>3. \A b \in Alias : registry[b] # 0 => registry[b] \in Inc
      BY <3>1 DEF TypeOK, Inc, Inc0
    <3>4. invited' = new
      BY <1>2 DEF InviteAdd
    <3>. QED
      BY <2>1, <2>3, <2>5, <3>1, <3>2, <3>3, <3>4 DEF RegistryOK, Registered
  <2>8. PartsOK'
    <3>1. invited' = new
      BY <1>2 DEF InviteAdd
    <3>2. \A i \in Inc : part[i].agent \in Nat
      BY DEF TypeOK, Participants, Inc0
    <3>3. ASSUME NEW i \in Inc
          PROVE  PartOK(part[i])'
      <4>1. CASE i = new
        BY <2>1, <2>4, <3>1, <4>1 DEF PartOK, NewStarting, HasActiveTurn
      <4>2. CASE i # new
        BY <2>1, <2>4, <3>1, <3>2, <4>2 DEF PartOK, PartsOK
      <4>. QED  BY <4>1, <4>2
    <3>. QED  BY <3>3 DEF PartsOK
  <2>9. PreparingOwned'
    <3>1. ASSUME NEW b \in Alias, Registered(b)'
          PROVE  Holder(b)'.status # "preparing"
      <4>1. CASE b = a
        BY <2>4, <2>5, <4>1 DEF Holder, NewStarting
      <4>2. CASE b # a
        <5>1. Registered(b) /\ registry[b] \in Inc /\ registry[b] <= invited
          BY <2>5, <3>1, <4>2, HolderTyped DEF Registered, RegistryOK
        <5>2. registry[b] # new
          BY <2>1, <5>1 DEF Inc
        <5>. QED  BY <2>2, <2>4, <2>5, <4>2, <5>1, <5>2 DEF Holder, NonePreparing
      <4>. QED  BY <4>1, <4>2
    <3>. QED  BY <3>1 DEF PreparingOwned
  <2>. QED  BY <2>6, <2>7, <2>8, <2>9
<1>3. CASE InviteReserve \/ InviteSpawn
  <2>1. UNCHANGED <<registry, part, invited, aliasOf, rd, kruns>>
    BY <1>3 DEF InviteReserve, InviteSpawn
  <2>2. NonePreparing
    BY <1>3, OutsideDelivery DEF InviteReserve, InviteSpawn
  <2>3. PreparingOwned'
    BY <2>1, <2>2 DEF PreparingOwned, NonePreparing, Registered, Holder
  <2>4. PartsOK' /\ RegistryOK'
    BY <2>1 DEF PartsOK, PartOK, RegistryOK, Registered
  <2>5. Named'
    <3>1. CASE InviteReserve
      <4>1. spc' = spc /\ ex'.pc = "spawn" /\ ex'.alias = ex.alias /\ ex'.agent = ex.agent
        BY <3>1 DEF InviteReserve, TypeOK, Execs
      <4>. QED  BY <2>1, <3>1, <4>1 DEF Named, InviteReserve
    <3>2. CASE InviteSpawn
      <4>1. ex'.pc = "idle" /\ \A i \in Inc : i # ex.agent => spc'[i] = spc[i]
        BY <3>2 DEF InviteSpawn, TypeOK, ExecIdle
      <4>. QED  BY <2>1, <3>2, <4>1 DEF Named, InviteSpawn
    <3>. QED  BY <1>3, <3>1, <3>2
  <2>. QED  BY <1>1, <2>3, <2>4, <2>5
<1>. QED  BY <1>1, <1>2, <1>3

\* The steps of a command that touch no participant: nobody is Preparing, or
\* the command goes on with the delivery that prepared one.
LEMMA ExecFrame ==
    ASSUME IInv, TypeOK',
           UNCHANGED <<registry, invited, aliasOf, part, spc, rd, kruns>>,
           ex'.pc \notin {"reserve", "spawn"},
           ex'.pc \in {"evict", "acquire", "prepare", "recheck", "send", "begin",
                       "track", "abort"} => ex'.alias \in Alias,
           \/ NonePreparing
           \/ /\ ex'.alias = ex.alias /\ ex'.mine = ex.mine
              /\ ex'.pc \in {"recheck", "send", "begin", "abort"}
    PROVE  IInv'
<1>1. Named' /\ RegistryOK' /\ PartsOK'
  BY DEF IInv, Named, RegistryOK, Registered, PartsOK, PartOK
<1>2. PreparingOwned'
  BY DEF IInv, PreparingOwned, NonePreparing, Registered, Holder
<1>. QED  BY <1>1, <1>2 DEF IInv

LEMMA RemoveInv ==
    ASSUME IInv,
           \/ \E a \in Alias : RemoveDetach(a) \/ RemoveUnattached(a)
           \/ RemoveStop \/ RemoveEvict
    PROVE  IInv'
<1>. USE DEF tables, flags, ids, agents, keepers
<1>1. TypeOK'
  BY RemoveTypes DEF IInv
<1>2. NonePreparing
  BY OutsideDelivery DEF IInv, RemoveDetach, RemoveUnattached, RemoveStop, RemoveEvict
<1>3. ASSUME NEW a \in Alias, Forget(a), invited' = invited, aliasOf' = aliasOf,
             UNCHANGED <<spc, rd, kruns>>, ex'.pc \in {"idle", "stop"}
      PROVE  IInv'
  <2>1. RegistryOK' /\ PartsOK' /\ PreparingOwned'
    BY <1>2, <1>3, ForgetStep DEF IInv, NonePreparing
  <2>2. Named'
    BY <1>3 DEF IInv, Named
  <2>. QED  BY <1>1, <2>1, <2>2 DEF IInv
<1>4. ASSUME NEW a \in Alias, RemoveDetach(a)
      PROVE  IInv'
  BY <1>3, <1>4 DEF RemoveDetach, ExecIdle
<1>5. ASSUME NEW a \in Alias, RemoveUnattached(a)
      PROVE  IInv'
  BY <1>1, <1>2, <1>5, ExecFrame DEF RemoveUnattached, ExecIdle
<1>6. CASE RemoveStop
  BY <1>1, <1>2, <1>6, ExecFrame DEF RemoveStop, ExecIdle
<1>7. CASE RemoveEvict
  <2>1. CASE Registered(ex.alias) /\ Holder(ex.alias).status = "crashed"
    <3>1. ex.alias \in Alias
      BY <1>7 DEF RemoveEvict, IInv, Named
    <3>. QED  BY <1>3, <1>7, <2>1, <3>1 DEF RemoveEvict, ExecIdle
  <2>2. CASE ~ (Registered(ex.alias) /\ Holder(ex.alias).status = "crashed")
    BY <1>1, <1>2, <1>7, <2>2, ExecFrame DEF RemoveEvict, ExecIdle
  <2>. QED  BY <2>1, <2>2
<1>. QED  BY <1>4, <1>5, <1>6, <1>7

LEMMA ShutdownInv ==
    ASSUME IInv,
           \/ ShutdownBegin \/ ShutdownAwait \/ ShutdownCancelAll \/ ShutdownSnapshot
           \/ \E i \in Inc : ShutdownStop(i)
           \/ ShutdownDone,
           TypeOK'
    PROVE  IInv'
<1>. USE DEF tables, flags, ids, agents, keepers, ShutdownBegin, ShutdownAwait,
             ShutdownCancelAll, ShutdownSnapshot, ShutdownStop, ShutdownDone
<1>1. NonePreparing
  BY OutsideDelivery DEF IInv
<1>2. UNCHANGED <<registry, invited, aliasOf, part, spc, rd, kruns>>
  OBVIOUS
<1>3. ex \in Execs
  BY DEF IInv, TypeOK
<1>4. ex'.pc \in {"awaitSweeper", "cancelAll", "snapshot", "stopAll", "down"}
  BY <1>3 DEF ExecIdle, Execs
<1>. QED  BY <1>1, <1>2, <1>4, ExecFrame

\* The steps of a command that change the participant under the alias it holds.
LEMMA ExecHolder ==
    ASSUME IInv, TypeOK', ex.alias \in Alias, NEW ok, NEW p,
           ok => Registered(ex.alias) /\ PartOK(p),
           SetHolderIf(ok, ex.alias, p),
           UNCHANGED <<registry, invited, aliasOf, spc, rd, kruns>>,
           ex'.pc \in {"idle", "next", "recheck", "send"},
           ex'.pc \in {"recheck", "send"} => ex'.alias = ex.alias /\ ex'.mine,
           \/ ok /\ p.status # "preparing"
           \/ NonePreparing /\ (~ ok \/ ex'.pc \in {"recheck", "send"})
    PROVE  IInv'
<1>. DEFINE a == ex.alias
<1>1. ASSUME NEW i \in Inc
      PROVE  part'[i] = part[i] \/ (ok /\ i = registry[a] /\ part'[i] = p)
  BY DEF IInv, TypeOK, SetHolderIf, SetHolder
<1>2. ok => part'[registry[a]] = p
  BY HolderTyped DEF IInv, TypeOK, SetHolderIf, SetHolder
<1>3. Named' /\ RegistryOK'
  BY DEF IInv, Named, RegistryOK, Registered
<1>4. PartsOK'
  BY <1>1 DEF IInv, PartsOK, PartOK
<1>5. ASSUME NEW b \in Alias, Registered(b)', Holder(b)'.status = "preparing"
      PROVE  b = a /\ ex'.pc \in {"recheck", "send"}
  <2>1. Registered(b) /\ registry[b] \in Inc
    BY <1>5, HolderTyped DEF IInv, Registered
  <2>2. CASE Holder(b).status = "preparing"
    <3>1. b = a
      BY <2>1, <2>2 DEF IInv, PreparingOwned
    <3>2. ~ NonePreparing
      BY <2>1, <2>2 DEF NonePreparing
    <3>3. ok /\ p.status # "preparing"
      BY <3>2
    <3>. QED  BY <1>2, <1>5, <3>1, <3>3 DEF Holder
  <2>3. CASE Holder(b).status # "preparing"
    <3>1. ok /\ registry[b] = registry[a] /\ p.status = "preparing"
      BY <1>1, <1>5, <2>1, <2>3 DEF Holder
    <3>2. b = a
      BY <2>1, <3>1 DEF IInv, RegistryOK
    <3>. QED  BY <3>1, <3>2
  <2>. QED  BY <2>2, <2>3
<1>6. PreparingOwned'
  BY <1>5 DEF PreparingOwned
<1>. QED  BY <1>3, <1>4, <1>6 DEF IInv

LEMMA DeliveryInv ==
    ASSUME IInv,
           \/ \E a \in Alias : NextDelivery(a)
           \/ CommandDone \/ AcquireNotice \/ Prepare \/ Recheck
           \/ SendAccepted \/ SendRefused \/ Begin \/ Track \/ Abort
    PROVE  IInv'
<1>. USE DEF tables, flags, ids, agents, keepers
<1>. DEFINE a == ex.alias
            h == Holder(a)
<1>1. TypeOK'
  BY DeliveryTypes DEF IInv
<1>x. ex \in Execs
  BY DEF IInv, TypeOK
<1>p. a \in Alias /\ Registered(a) => h \in P /\ PartOK(h) /\ invited \in Nat
  BY HolderTyped DEF IInv, PartsOK, Holder, TypeOK, Inc0
<1>k. /\ Skipped.pc \in {"idle", "next"} /\ Delivered.pc = "next"
      /\ \A kind : Continue(kind).pc = "next"
  BY DEF Skipped, Delivered, Continue, ExecIdle
<1>2. ASSUME NEW b \in Alias, NextDelivery(b)
      PROVE  IInv'
  <2>1. NonePreparing
    BY <1>2, OutsideDelivery DEF IInv, NextDelivery
  <2>2. /\ ex'.pc \in {"next", "acquire", "prepare"}
        /\ ex'.pc # "next" => ex'.alias = b
    <3>. DEFINE rest == [Continue(ex.kind) EXCEPT !.todo = @ \ {b}]
    <3>1. rest \in Execs /\ rest.pc = "next"
      <4>. DEFINE c == Continue(ex.kind)
      <4>x. ex.kind \in {"none", "direct", "broadcast", "notice"}
        BY <1>x DEF Execs
      <4>1. c \in Execs /\ c.pc = "next"
        BY <1>k, <4>x, ContinueTyped DEF IInv
      <4>. HIDE DEF c
      <4>2. [c EXCEPT !.todo = c.todo \ {b}] \in Execs
            /\ [c EXCEPT !.todo = c.todo \ {b}].pc = "next"
        BY <4>1 DEF Execs
      <4>. QED  BY <4>2 DEF c
    <3>. HIDE DEF rest
    <3>2. /\ [rest EXCEPT !.pc = "acquire", !.alias = b].pc = "acquire"
          /\ [rest EXCEPT !.pc = "acquire", !.alias = b].alias = b
      BY <3>1 DEF Execs
    <3>3. /\ [rest EXCEPT !.pc = "prepare", !.alias = b, !.agent = Holder(b).agent].pc
               = "prepare"
          /\ [rest EXCEPT !.pc = "prepare", !.alias = b, !.agent = Holder(b).agent].alias
               = b
      BY <3>1 DEF Execs
    <3>. QED  BY <1>2, <3>1, <3>2, <3>3 DEF NextDelivery, rest
  <2>. QED  BY <1>1, <1>2, <2>1, <2>2, ExecFrame DEF NextDelivery
<1>3. CASE CommandDone
  <2>1. NonePreparing
    BY <1>3, OutsideDelivery DEF IInv, CommandDone
  <2>. QED  BY <1>1, <1>3, <2>1, ExecFrame DEF CommandDone, ExecIdle
<1>4. CASE AcquireNotice
  <2>1. NonePreparing /\ a \in Alias
    BY <1>4, OutsideDelivery DEF IInv, AcquireNotice, Named
  <2>2. /\ ex'.pc \in {"idle", "next", "send", "prepare"}
        /\ ex'.pc \in {"send", "prepare"} => ex'.alias = a
    BY <1>4, <1>x, <1>k DEF AcquireNotice, Execs
  <2>. QED  BY <1>1, <1>4, <2>1, <2>2, ExecFrame DEF AcquireNotice
<1>5. CASE Prepare
  <2>. DEFINE ok == Registered(a) /\ IsReadyForWork(h)
  <2>1. NonePreparing /\ a \in Alias
    BY <1>5, OutsideDelivery DEF IInv, Prepare, Named
  <2>2. ok => Registered(a) /\ PartOK(PrepareForWork(h))
    BY <1>p, <2>1, MovesOK
  <2>3. IF ok THEN ex'.pc \in {"recheck", "send"} /\ ex'.alias = a /\ ex'.mine
        ELSE ex'.pc \in {"idle", "next"}
    BY <1>5, <1>x, <1>k DEF Prepare, Execs
  <2>4. SetHolderIf(ok, a, PrepareForWork(h))
    BY <1>5 DEF Prepare, SetHolderIf
  <2>5. UNCHANGED <<registry, invited, aliasOf, spc, rd, kruns>>
    BY <1>5 DEF Prepare
  <2>. HIDE DEF ok
  <2>. QED  BY <1>1, <2>1, <2>2, <2>3, <2>4, <2>5, ExecHolder
<1>6. CASE Recheck
  <2>1. a \in Alias
    BY <1>6 DEF Recheck, IInv, Named
  <2>2. CASE Registered(a) /\ IsSendable(h)
    <3>1. ex'.pc = "send" /\ ex'.alias = a /\ ex'.mine = ex.mine
      BY <1>6, <1>x, <2>2 DEF Recheck, Execs
    <3>2. NonePreparing \/ ex.mine
      BY OutsideDelivery DEF IInv
    <3>. QED  BY <1>1, <1>6, <2>1, <3>1, <3>2, ExecFrame DEF Recheck
  <2>3. CASE ~ (Registered(a) /\ IsSendable(h))
    <3>1. Registered(a) => h.status # "preparing"
      BY <1>p, <2>1, <2>3 DEF IsSendable, HasActiveTurn, PartOK
    <3>2. NonePreparing
      BY <3>1 DEF IInv, PreparingOwned, NonePreparing
    <3>3. ex'.pc \in {"idle", "next"}
      BY <1>6, <1>k, <2>3 DEF Recheck
    <3>. QED  BY <1>1, <1>6, <3>2, <3>3, ExecFrame DEF Recheck
  <2>. QED  BY <2>2, <2>3
<1>7. CASE SendAccepted
  <2>1. a \in Alias
    BY <1>7 DEF SendAccepted, IInv, Named
  <2>2. /\ ex'.pc = IF ex.mine THEN "begin" ELSE "track"
        /\ ex'.alias = a /\ ex'.mine = ex.mine
    BY <1>7, <1>x DEF SendAccepted, Execs
  <2>3. NonePreparing \/ ex.mine
    BY OutsideDelivery DEF IInv
  <2>. QED  BY <1>1, <1>7, <2>1, <2>2, <2>3, ExecFrame DEF SendAccepted, Accept
<1>8. CASE SendRefused
  <2>1. a \in Alias
    BY <1>8 DEF SendRefused, IInv, Named
  <2>2. ex'.pc = "abort" /\ ex'.alias = a /\ ex'.mine = ex.mine
    BY <1>8, <1>x DEF SendRefused, Execs
  <2>. QED  BY <1>1, <1>8, <2>1, <2>2, ExecFrame DEF SendRefused
<1>9. CASE Begin
  <2>. DEFINE ok == Registered(a) /\ CanBeginWorking(h)
              w  == BeginWorking(h, ex.anchor, lastTurnID + 1)
  <2>1. a \in Alias
    BY <1>9 DEF Begin, IInv, Named
  <2>2. ok => Registered(a) /\ PartOK(w) /\ w.status # "preparing"
    BY <1>p, <2>1, WorkOK
  <2>3. ~ ok => NonePreparing
    BY DEF CanBeginWorking, IInv, PreparingOwned, NonePreparing
  <2>4. SetHolderIf(ok, a, w) /\ ex'.pc = "next"
    BY <1>9, <1>k DEF Begin, SetHolderIf
  <2>5. UNCHANGED <<registry, invited, aliasOf, spc, rd, kruns>>
    BY <1>9 DEF Begin
  <2>. HIDE DEF ok, w
  <2>. QED  BY <1>1, <2>1, <2>2, <2>3, <2>4, <2>5, ExecHolder
<1>10. CASE Track
  <2>. DEFINE ok == Registered(a) /\ CanTrack(h) /\ ex.anchor # NoStream
              w  == TrackStream(h, ex.anchor)
  <2>1. NonePreparing /\ a \in Alias
    BY <1>10, OutsideDelivery DEF Track, IInv, Named
  <2>2. ok => Registered(a) /\ PartOK(w) /\ w.status # "preparing"
    BY <1>p, <2>1, StreamOK DEF CanTrack, NonePreparing
  <2>3. SetHolderIf(ok, a, w) /\ ex'.pc = "next"
    BY <1>10, <1>k DEF Track
  <2>4. UNCHANGED <<registry, invited, aliasOf, spc, rd, kruns>>
    BY <1>10 DEF Track
  <2>. HIDE DEF ok, w
  <2>. QED  BY <1>1, <2>1, <2>2, <2>3, <2>4, ExecHolder
<1>11. CASE Abort
  <2>. DEFINE ok == Registered(a) /\ CanAbort(h)
              w  == AbortWork(h)
  <2>1. a \in Alias
    BY <1>11 DEF Abort, IInv, Named
  <2>2. ok => Registered(a) /\ PartOK(w) /\ w.status # "preparing"
    BY <1>p, <2>1, MovesOK, MovesStatus
  <2>3. ~ ok => NonePreparing
    BY DEF CanAbort, HasActiveTurn, IInv, PreparingOwned, NonePreparing
  <2>4. SetHolderIf(ok, a, w) /\ ex'.pc \in {"idle", "next"}
    BY <1>11, <1>k DEF Abort
  <2>5. UNCHANGED <<registry, invited, aliasOf, spc, rd, kruns>>
    BY <1>11 DEF Abort
  <2>. HIDE DEF ok, w
  <2>. QED  BY <1>1, <2>1, <2>2, <2>3, <2>4, <2>5, ExecHolder
<1>. QED
  BY <1>2, <1>3, <1>4, <1>5, <1>6, <1>7, <1>8, <1>9, <1>10, <1>11

LEMMA BeginCommandInv ==
    ASSUME IInv, TypeOK', NEW pc \in {"next", "prepare"}, NEW kind, NEW a, NEW todo,
           pc = "prepare" => a \in Alias,
           BeginCommand(pc, kind, a, todo)
    PROVE  IInv'
<1>1. NonePreparing
  BY OutsideDelivery DEF IInv, BeginCommand
<1>. QED
  BY <1>1, ExecFrame DEF BeginCommand, ExecIdle, tables, flags, ids, agents, keepers

LEMMA UserInv ==
    ASSUME IInv, UserCommand
    PROVE  IInv'
<1>1. TypeOK'
  BY UserTypes DEF IInv
<1>2. ASSUME NEW a \in Alias, NEW aliases \in SUBSET (Alias \ {a}), SendCommand(a, aliases)
      PROVE  IInv'
  BY <1>1, <1>2, BeginCommandInv DEF SendCommand
<1>3. ASSUME NEW a \in Alias, NEW aliases \in SUBSET Alias, HandoffCommand(a, aliases)
      PROVE  IInv'
  BY <1>1, <1>3, BeginCommandInv DEF HandoffCommand
<1>4. ASSUME NEW aliases \in SUBSET Alias,
             BroadcastCommand(aliases) \/ FrozenBroadcast(aliases)
      PROVE  IInv'
  BY <1>1, <1>4, BeginCommandInv DEF BroadcastCommand, FrozenBroadcast
<1>. QED
  BY <1>1, <1>2, <1>3, <1>4, InviteInv, RemoveInv, ShutdownInv DEF UserCommand

-----------------------------------------------------------------------------
(* The three facts that make IInv an invariant, and the theorems *)

LEMMA InitInv == Init => IInv
<1>. SUFFICES ASSUME Init
              PROVE  IInv
  OBVIOUS
<1>1. TypeOK
  BY InitTypes
<1>2. Named
  BY SessionAssumption DEF Init, Named, ExecIdle, Inc
<1>3. RegistryOK /\ PreparingOwned
  BY DEF Init, RegistryOK, PreparingOwned, Registered
<1>4. PartsOK
  BY DEF Init, PartsOK, PartOK, NewStarting, HasActiveTurn
<1>. QED  BY <1>1, <1>2, <1>3, <1>4 DEF IInv

LEMMA NextInv == IInv /\ [Next]_vars => IInv'
<1>. SUFFICES ASSUME IInv, [Next]_vars
              PROVE  IInv'
  OBVIOUS
<1>0. TypeOK'
  BY NextTypes DEF IInv
<1>1. CASE UserCommand
  BY <1>1, UserInv
<1>2. CASE ExecStep
  BY <1>0, <1>2, InviteInv, RemoveInv, DeliveryInv, ShutdownInv DEF ExecStep
<1>3. ASSUME NEW i \in Inc,
             AgentStep(i) \/ StartStep(i) \/ ReaderStep(i) \/ KeeperStep(i)
      PROVE  IInv'
  BY <1>3, AgentInv, StartInv, ReaderInv, KeeperInv
<1>4. CASE Sweep
  BY <1>4, SweepInv
<1>5. ASSUME UNCHANGED <<registry, invited, aliasOf, part, spc, rd, kruns, ex>>
      PROVE  IInv'
  <2>1. PartsOK' /\ PreparingOwned'
    BY <1>5, FrameStep DEF IInv
  <2>2. Named' /\ RegistryOK'
    BY <1>5 DEF IInv, Named, RegistryOK, Registered
  <2>. QED  BY <1>0, <2>1, <2>2 DEF IInv
<1>6. CASE SweeperExit \/ UNCHANGED vars
  BY <1>5, <1>6 DEF SweeperExit, vars, tables, flags, ids, agents, keepers
<1>. QED  BY <1>1, <1>2, <1>3, <1>4, <1>6 DEF Next

LEMMA Invariance == Spec => []IInv
BY InitInv, NextInv, PTL DEF Spec

\* Whatever the number of aliases, invitations, turns and messages, every
\* variable keeps its shape: no command, goroutine or agent leads to a
\* participant, runtime entry or pending step that the code has no case for.
THEOREM TypeCorrect == Spec => []TypeOK
<1>1. IInv => TypeOK
  BY DEF IInv
<1>. QED  BY <1>1, Invariance, PTL

\* Preparing is always owned by the delivery that entered it: every path of
\* prepareParticipantForWork's callers, interleaved with every goroutine, ends
\* in beginParticipantWorking or abortWork.
THEOREM PreparingIsOwned == Spec => []PreparingOwned
<1>1. IInv => PreparingOwned
  BY DEF IInv
<1>. QED  BY <1>1, Invariance, PTL

\* Outside a turn a participant has no open stream and no anchor, however late
\* messages of an earlier turn or of an earlier incarnation arrive.
THEOREM InactiveStaysClean == Spec => []InactiveIsClean
<1>1. IInv => InactiveIsClean
  BY DEF IInv, PartsOK, PartOK, InactiveIsClean
<1>. QED  BY <1>1, Invariance, PTL

-----------------------------------------------------------------------------
(* What a step may do to the registry and the participants.                  *)

\* The moves of a registered participant other than those of its startup.
Moves(h, p) ==
    /\ p.agent = h.agent /\ p.ready = h.ready
    /\ \/ /\ lastTurnID' = lastTurnID /\ p.turn = h.turn
          /\ \/ HasActiveTurn(h) /\ p.status \in {h.status, "idle"}
             \/ IsReadyForWork(h) /\ p.status = "preparing"
             \/ h.status = "keepalive" /\ p.status = "idle"
       \/ /\ h.status = "preparing" /\ p.status = "working"
          /\ lastTurnID' = lastTurnID + 1 /\ p.turn = lastTurnID'

\* A reader of the alias crashes the participant.
Fails(a, h, p) ==
    /\ p.agent = h.agent /\ p.ready = h.ready /\ p.turn = h.turn
    /\ p.status = "crashed"
    /\ lastTurnID' = lastTurnID
    /\ \E j \in Inc : rd[j].pc = "crash" /\ aliasOf[j] = a

Still == UNCHANGED <<registry, part, lastTurnID, spc>>

MovesHolder(a, p) ==
    /\ Registered(a)
    /\ UNCHANGED <<registry, spc>>
    /\ part' = [part EXCEPT ![registry[a]] = p]
    /\ Moves(Holder(a), p) \/ Fails(a, Holder(a), p)

Withdraws(a) ==
    /\ ex.pc \in {"idle", "evict"}
    /\ Registered(a) => (Holder(a).ready /\ IsRemovable(Holder(a))) \/ Holder(a).status = "crashed"
    /\ Forget(a)
    /\ UNCHANGED <<spc, lastTurnID>>

StepShape ==
    \/ Still
    \/ \E a \in Alias, p \in P : MovesHolder(a, p)
    \/ \E a \in Alias : Withdraws(a)
    \/ \E a \in Alias : InviteAdd(a)
    \/ InviteSpawn
    \/ \E i \in Inc : StartStep(i)
    \/ Sweep

\* The transitions of Participant are moves.
LEMMA TransitionsMove ==
    ASSUME NEW h \in P, lastTurnID' = lastTurnID
    PROVE  /\ IsReadyForWork(h) => Moves(h, PrepareForWork(h))
           /\ CanBecomeIdle(h) => Moves(h, BecomeIdle(h))
           /\ CanAbort(h) => Moves(h, AbortWork(h))
           /\ CanFinishKeepalive(h) => Moves(h, FinishKeepalive(h))
           /\ \A id : CanTrack(h) => Moves(h, TrackStream(h, id))
           /\ \A id : CanClose(h, id) => Moves(h, CloseStream(h, id))
<1>. USE DEF P, Participants, Moves
<1>1. /\ IsReadyForWork(h) => Moves(h, PrepareForWork(h))
      /\ CanBecomeIdle(h) => Moves(h, BecomeIdle(h))
      /\ CanAbort(h) => Moves(h, AbortWork(h))
  BY DEF PrepareForWork, BecomeIdle, AbortWork, ResetTo, CanBecomeIdle, CanAbort,
         HasActiveTurn
<1>2. CanFinishKeepalive(h) => Moves(h, FinishKeepalive(h))
  BY DEF CanFinishKeepalive, FinishKeepalive
<1>3. \A id : /\ CanTrack(h) => Moves(h, TrackStream(h, id))
              /\ CanClose(h, id) => Moves(h, CloseStream(h, id))
  BY DEF CanTrack, TrackStream, CanClose, CloseStream
<1>. QED  BY <1>1, <1>2, <1>3

LEMMA BeginMoves ==
    ASSUME NEW h \in P, NEW anchor, CanBeginWorking(h), lastTurnID' = lastTurnID + 1
    PROVE  Moves(h, BeginWorking(h, anchor, lastTurnID + 1))
BY DEF P, Participants, Moves, CanBeginWorking, BeginWorking

LEMMA HolderShape ==
    ASSUME TypeOK, NEW a \in Alias, NEW ok, NEW p,
           ok => Registered(a) /\ p \in P,
           ok => Moves(Holder(a), p) \/ Fails(a, Holder(a), p),
           SetHolderIf(ok, a, p), UNCHANGED <<registry, spc>>,
           ~ ok => lastTurnID' = lastTurnID
    PROVE  StepShape
BY DEF StepShape, Still, MovesHolder, SetHolderIf, SetHolder

LEMMA ReaderShape ==
    ASSUME IInv, NEW i \in Inc, ReaderStep(i)
    PROVE  StepShape
<1>. USE DEF tables, flags, ids, agents, keepers
<1>. DEFINE a  == aliasOf[i]
            id == rd[i].msg.id
<1>t. TypeOK
  BY DEF IInv
<1>1. UNCHANGED <<registry, spc, lastTurnID>>
  BY DEF ReaderStep, ReadMessage, ReadEnd, ReaderDropCheck, ReaderTrack, ReaderClose,
         ReaderMarkIdle, ReaderFinish, ReaderErrCheck, ReaderCrash, ReaderTerminal
<1>2. a \in Alias
  BY ReaderAlias DEF ReaderStep, ReadMessage, ReadEnd, ReaderDropCheck, ReaderTrack,
         ReaderClose, ReaderMarkIdle, ReaderFinish, ReaderErrCheck, ReaderCrash,
         ReaderTerminal, ReaderGo, IInv
<1>h. Registered(a) => Holder(a) \in P
  BY <1>t, <1>2, HolderTyped
<1>3. CASE ReadMessage(i) \/ ReadEnd(i) \/ ReaderDropCheck(i) \/ ReaderErrCheck(i)
           \/ ReaderTerminal(i)
  BY <1>1, <1>3 DEF StepShape, Still, ReadMessage, ReadEnd, ReaderDropCheck, ReaderErrCheck,
         ReaderTerminal
<1>4. CASE ReaderTrack(i)
  <2>. DEFINE ok == Registered(a) /\ CanTrack(Holder(a))
              p  == TrackStream(Holder(a), id)
  <2>1. id \in Streams
    BY <1>4 DEF ReaderTrack, ReaderGo, IInv, Named
  <2>2. ok => Registered(a) /\ p \in P /\ Moves(Holder(a), p)
    BY <1>1, <1>h, <2>1, StreamTyped, TransitionsMove
  <2>3. SetHolderIf(ok, a, p)
    BY <1>4 DEF ReaderTrack
  <2>. HIDE DEF ok, p
  <2>. QED  BY <1>t, <1>1, <1>2, <2>2, <2>3, HolderShape
<1>5. CASE ReaderClose(i)
  <2>. DEFINE ok == Registered(a) /\ CanClose(Holder(a), id)
              p  == CloseStream(Holder(a), id)
  <2>1. ok => Registered(a) /\ p \in P /\ Moves(Holder(a), p)
    BY <1>1, <1>h, StreamTyped, TransitionsMove
  <2>2. SetHolderIf(ok, a, p)
    BY <1>5 DEF ReaderClose
  <2>. HIDE DEF ok, p
  <2>. QED  BY <1>t, <1>1, <1>2, <2>1, <2>2, HolderShape
<1>6. CASE ReaderMarkIdle(i)
  <2>. DEFINE ok == Registered(a) /\ CanBecomeIdle(Holder(a))
              p  == BecomeIdle(Holder(a))
  <2>1. ok => Registered(a) /\ p \in P /\ Moves(Holder(a), p)
    BY <1>1, <1>h, PlainTyped, TransitionsMove
  <2>2. SetHolderIf(ok, a, p)
    BY <1>6 DEF ReaderMarkIdle
  <2>. HIDE DEF ok, p
  <2>. QED  BY <1>t, <1>1, <1>2, <2>1, <2>2, HolderShape
<1>7. CASE ReaderFinish(i)
  <2>. DEFINE ok == Registered(a) /\ CanFinishKeepalive(Holder(a))
              p  == FinishKeepalive(Holder(a))
  <2>1. ok => Registered(a) /\ p \in P /\ Moves(Holder(a), p)
    BY <1>1, <1>h, PlainTyped, TransitionsMove
  <2>2. SetHolderIf(ok, a, p)
    BY <1>7 DEF ReaderFinish, FinishHolder
  <2>. HIDE DEF ok, p
  <2>. QED  BY <1>t, <1>1, <1>2, <2>1, <2>2, HolderShape
<1>8. CASE ReaderCrash(i)
  <2>. DEFINE ok == Registered(a)
              p  == Crash(Holder(a))
  <2>1. ok => Registered(a) /\ p \in P /\ Fails(a, Holder(a), p)
    <3>1. rd[i].pc = "crash"
      BY <1>8 DEF ReaderCrash, ReaderGo
    <3>. QED
      BY <1>1, <1>h, <3>1, PlainTyped DEF Fails, Crash, ResetTo, P, Participants
  <2>2. SetHolderIf(ok, a, p)
    BY <1>8 DEF ReaderCrash
  <2>. HIDE DEF ok, p
  <2>. QED  BY <1>t, <1>1, <1>2, <2>1, <2>2, HolderShape
<1>. QED  BY <1>3, <1>4, <1>5, <1>6, <1>7, <1>8 DEF ReaderStep

LEMMA KeeperShape ==
    ASSUME IInv, NEW i \in Inc, KeeperStep(i)
    PROVE  StepShape
<1>. USE DEF tables, flags, ids, agents, keepers
<1>. DEFINE a == aliasOf[i]
<1>1. UNCHANGED <<registry, spc, lastTurnID>>
  BY DEF KeeperStep, KeepaliveAccepted, KeepaliveFailed, KeepaliveRelease
<1>2. CASE KeepaliveAccepted(i) \/ KeepaliveFailed(i)
  BY <1>1, <1>2 DEF StepShape, Still, KeepaliveAccepted, KeepaliveFailed
<1>3. CASE KeepaliveRelease(i)
  <2>. DEFINE ok == Registered(a) /\ CanFinishKeepalive(Holder(a))
              p  == FinishKeepalive(Holder(a))
  <2>t. TypeOK /\ a \in Alias
    BY <1>3 DEF KeepaliveRelease, IInv, Named
  <2>h. Registered(a) => Holder(a) \in P
    BY <2>t, HolderTyped
  <2>1. ok => Registered(a) /\ p \in P /\ Moves(Holder(a), p)
    BY <1>1, <2>h, PlainTyped, TransitionsMove
  <2>2. SetHolderIf(ok, a, p)
    BY <1>3 DEF KeepaliveRelease, FinishHolder
  <2>. HIDE DEF ok, p
  <2>. QED  BY <1>1, <2>t, <2>1, <2>2, HolderShape
<1>. QED  BY <1>2, <1>3 DEF KeeperStep

LEMMA ExecShape ==
    ASSUME IInv, ExecStep
    PROVE  StepShape
<1>. USE DEF tables, flags, ids, agents, keepers
<1>. DEFINE a == ex.alias
            h == Holder(a)
<1>t. TypeOK
  BY DEF IInv
<1>h. a \in Alias /\ Registered(a) => h \in P
  BY <1>t, HolderTyped
<1>x. ex.pc = "begin" \/ ex.pc = "track" \/ ex.pc = "abort" \/ ex.pc = "prepare"
        => a \in Alias
  BY DEF IInv, Named
<1>1. CASE InviteSpawn
  BY <1>1 DEF StepShape
<1>2. CASE RemoveEvict
  <2>1. a \in Alias
    BY <1>2 DEF RemoveEvict, IInv, Named
  <2>2. CASE Registered(a) /\ h.status = "crashed"
    <3>1. Withdraws(a)
      BY <1>2, <2>2 DEF RemoveEvict, Withdraws
    <3>. QED  BY <2>1, <3>1 DEF StepShape
  <2>3. CASE ~ (Registered(a) /\ h.status = "crashed")
    BY <1>2, <2>3 DEF RemoveEvict, StepShape, Still
  <2>. QED  BY <2>2, <2>3
<1>3. CASE Prepare
  <2>. DEFINE ok == Registered(a) /\ IsReadyForWork(h)
              p  == PrepareForWork(h)
  <2>0. UNCHANGED <<registry, spc, lastTurnID>> /\ a \in Alias
    BY <1>3, <1>x DEF Prepare
  <2>1. ok => Registered(a) /\ p \in P /\ Moves(h, p)
    BY <1>h, <2>0, PlainTyped, TransitionsMove
  <2>2. SetHolderIf(ok, a, p)
    BY <1>3 DEF Prepare, SetHolderIf
  <2>. HIDE DEF ok, p
  <2>. QED  BY <1>t, <2>0, <2>1, <2>2, HolderShape
<1>4. CASE Begin
  <2>. DEFINE ok == Registered(a) /\ CanBeginWorking(h)
              p  == BeginWorking(h, ex.anchor, lastTurnID + 1)
  <2>0. UNCHANGED <<registry, spc>> /\ a \in Alias
    BY <1>4, <1>x DEF Begin
  <2>1. ok => Registered(a) /\ p \in P /\ Moves(h, p)
    <3>1. ok => lastTurnID' = lastTurnID + 1 /\ lastTurnID + 1 \in Nat
      BY <1>4, <1>t DEF Begin, TypeOK
    <3>2. ex.anchor \in Streams \cup {NoStream}
      BY <1>t DEF TypeOK, Execs
    <3>. QED  BY <1>h, <2>0, <3>1, <3>2, WorkTyped, BeginMoves
  <2>2. SetHolderIf(ok, a, p) /\ (~ ok => lastTurnID' = lastTurnID)
    BY <1>4 DEF Begin, SetHolderIf
  <2>. HIDE DEF ok, p
  <2>. QED  BY <1>t, <2>0, <2>1, <2>2, HolderShape
<1>5. CASE Track
  <2>. DEFINE ok == Registered(a) /\ CanTrack(h) /\ ex.anchor # NoStream
              p  == TrackStream(h, ex.anchor)
  <2>0. UNCHANGED <<registry, spc, lastTurnID>> /\ a \in Alias
    BY <1>5, <1>x DEF Track
  <2>1. ok => Registered(a) /\ p \in P /\ Moves(h, p)
    <3>1. ex.anchor \in Streams \cup {NoStream}
      BY <1>t DEF TypeOK, Execs
    <3>. QED  BY <1>h, <2>0, <3>1, StreamTyped, TransitionsMove
  <2>2. SetHolderIf(ok, a, p)
    BY <1>5 DEF Track
  <2>. HIDE DEF ok, p
  <2>. QED  BY <1>t, <2>0, <2>1, <2>2, HolderShape
<1>6. CASE Abort
  <2>. DEFINE ok == Registered(a) /\ CanAbort(h)
              p  == AbortWork(h)
  <2>0. UNCHANGED <<registry, spc, lastTurnID>> /\ a \in Alias
    BY <1>6, <1>x DEF Abort
  <2>1. ok => Registered(a) /\ p \in P /\ Moves(h, p)
    BY <1>h, <2>0, PlainTyped, TransitionsMove
  <2>2. SetHolderIf(ok, a, p)
    BY <1>6 DEF Abort
  <2>. HIDE DEF ok, p
  <2>. QED  BY <1>t, <2>0, <2>1, <2>2, HolderShape
<1>7. ASSUME ~ InviteSpawn, ~ RemoveEvict, ~ Prepare, ~ Begin, ~ Track, ~ Abort
      PROVE  StepShape
  BY <1>7 DEF ExecStep, StepShape, Still, InviteReserve, RemoveStop, NextDelivery,
         CommandDone, AcquireNotice, Recheck, SendAccepted, Accept, SendRefused,
         ShutdownAwait, ShutdownCancelAll, ShutdownSnapshot, ShutdownStop, ShutdownDone
<1>. QED  BY <1>1, <1>2, <1>3, <1>4, <1>5, <1>6, <1>7

LEMMA UserShape ==
    ASSUME IInv, UserCommand
    PROVE  StepShape
<1>. USE DEF tables, flags, ids, agents, keepers
<1>1. ASSUME NEW a \in Alias, RemoveDetach(a)
      PROVE  StepShape
  <2>1. Withdraws(a)
    BY <1>1 DEF RemoveDetach, CanDetach, Withdraws
  <2>. QED  BY <2>1 DEF StepShape
<1>2. CASE \E a \in Alias : InviteAdd(a)
  BY <1>2 DEF StepShape
<1>3. ASSUME ~ \E a \in Alias : InviteAdd(a) \/ RemoveDetach(a)
      PROVE  StepShape
  BY <1>3 DEF UserCommand, StepShape, Still, RemoveUnattached, SendCommand, HandoffCommand,
         BroadcastCommand, FrozenBroadcast, BeginCommand, ShutdownBegin
<1>. QED  BY <1>1, <1>2, <1>3

LEMMA NextShape ==
    ASSUME IInv, [Next]_vars
    PROVE  StepShape
<1>1. ASSUME NEW i \in Inc, AgentStep(i)
      PROVE  StepShape
  BY <1>1 DEF AgentStep, AgentOutput, AgentFinish, AgentFailTurn, AgentExit, tables, ids,
         StepShape, Still
<1>2. CASE SweeperExit \/ UNCHANGED vars
  BY <1>2 DEF SweeperExit, vars, tables, ids, StepShape, Still
<1>3. ASSUME NEW i \in Inc, StartStep(i)
      PROVE  StepShape
  BY <1>3 DEF StepShape
<1>4. CASE Sweep
  BY <1>4 DEF StepShape
<1>. QED
  BY <1>1, <1>2, <1>3, <1>4, UserShape, ExecShape, ReaderShape, KeeperShape DEF Next

-----------------------------------------------------------------------------
(* Startup.                                                                  *)

\* No start goroutine acts on a participant of another invitation.
StartsAlone ==
    \A i \in Inc :
        spc[i] \in {"attach", "commit", "ready", "cleanup"} /\ Registered(aliasOf[i])
            => registry[aliasOf[i]] = i

OwnOK(i) ==
    LET p == part[i] IN
    /\ p.agent \in {0, i}
    /\ p.agent # 0 => spc[i] \notin {"none", "start", "failContext", "failCrash", "attach"}
    /\ p.status \in {"starting", "attached"} => ~ p.ready
    /\ spc[i] \in {"commit", "ready"} => p.agent = i
    /\ spc[i] = "commit" => p.status # "starting"
    /\ spc[i] \in {"ready", "cleanup"} => p.status \notin {"starting", "attached"}
    /\ p.ready => spc[i] \in {"started", "done"}

Own == \A a \in Alias : Registered(a) => OwnOK(registry[a])

LEMMA RegistryUnique ==
    ASSUME IInv, NEW a \in Alias, NEW b \in Alias, Registered(a), registry[a] = registry[b]
    PROVE  a = b
BY DEF IInv, RegistryOK, Registered

\* Nothing but the startup of a participant itself disturbs OwnOK.
LEMMA MoveOwn ==
    ASSUME IInv, Own, NEW a \in Alias, NEW p \in P, MovesHolder(a, p)
    PROVE  Own'
<1>1. registry[a] \in Inc /\ Holder(a) \in P
  BY HolderTyped DEF MovesHolder, IInv
<1>2. ASSUME NEW b \in Alias, Registered(b)'
      PROVE  OwnOK(registry[b])'
  <2>1. Registered(b) /\ registry[b] \in Inc /\ registry'[b] = registry[b] /\ OwnOK(registry[b])
    BY <1>2, HolderTyped DEF MovesHolder, Registered, IInv, Own
  <2>2. CASE registry[b] # registry[a]
    BY <1>1, <2>1, <2>2 DEF MovesHolder, OwnOK
  <2>3. CASE registry[b] = registry[a]
    <3>1. part'[registry[b]] = p /\ spc' = spc
      BY <1>1, <2>3 DEF MovesHolder, IInv, TypeOK
    <3>2. OwnOK(registry[a]) /\ (Moves(Holder(a), p) \/ Fails(a, Holder(a), p))
      BY <2>1, <2>3 DEF MovesHolder
    <3>3. /\ p.status \notin {"starting", "attached"}
          /\ p.agent = Holder(a).agent /\ p.ready = Holder(a).ready
      BY <3>2 DEF Moves, Fails, HasActiveTurn
    <3>. QED  BY <2>1, <2>3, <3>1, <3>2, <3>3 DEF OwnOK, Holder
  <2>. QED  BY <2>2, <2>3
<1>. QED  BY <1>2 DEF Own

LEMMA ForgetOwn ==
    ASSUME IInv, Own, NEW a \in Alias, Forget(a), NEW j,
           \A i \in Inc : i # j => spc'[i] = spc[i],
           Registered(a) => j = registry[a],
           ~ Registered(a) => \A b \in Alias : registry[b] = j => spc'[j] = spc[j] \/ ~ Registered(b)
    PROVE  Own'
<1>1. ASSUME NEW b \in Alias, Registered(b)'
      PROVE  OwnOK(registry[b])'
  <2>1. b # a /\ Registered(b) /\ registry'[b] = registry[b] /\ registry[b] \in Inc
    BY <1>1, HolderTyped DEF IInv, TypeOK, Forget, Registered
  <2>2. registry[b] # registry[a]
    BY <2>1, RegistryUnique
  <2>3. part'[registry[b]] = part[registry[b]]
    BY <2>1, <2>2 DEF Forget
  <2>4. spc'[registry[b]] = spc[registry[b]]
    BY <2>1, <2>2
  <2>. QED  BY <2>1, <2>3, <2>4 DEF Own, OwnOK
<1>. QED  BY <1>1 DEF Own

LEMMA StartOwn ==
    ASSUME IInv, Own, StartsAlone, NEW i \in Inc, StartStep(i)
    PROVE  Own'
<1>. USE DEF tables, flags, ids, agents, keepers, StartGo
<1>. DEFINE a == aliasOf[i]
<1>t. TypeOK
  BY DEF IInv
<1>1. a \in Alias
  BY StartAlias DEF StartStep, StartOK, StartFail, StartFailContext, StartFailCrash,
         StartAttach, StartCommit, StartReady, StartAnnounce, StartCleanup, StartUndo,
         StartStop, IInv
<1>h. Registered(a) => registry[a] \in Inc /\ Holder(a) \in P
  BY <1>t, <1>1, HolderTyped
<1>2. ASSUME NEW ok, NEW p,
             SetHolderIf(ok, a, p), ok => Registered(a),
             registry' = registry, \A j \in Inc : j # i => spc'[j] = spc[j],
             ok /\ registry[a] # i =>
                /\ p.agent = Holder(a).agent /\ p.ready = Holder(a).ready
                /\ p.status \notin {"starting", "attached"},
             registry[a] = i => OwnOK(i)'
      PROVE  Own'
  <2>1. ASSUME NEW b \in Alias, Registered(b)'
        PROVE  OwnOK(registry[b])'
    <3>1. Registered(b) /\ registry[b] \in Inc /\ registry'[b] = registry[b] /\ OwnOK(registry[b])
      BY <1>t, <1>2, <2>1, HolderTyped DEF Registered, Own
    <3>2. CASE registry[b] = i
      <4>1. aliasOf[registry[b]] = b
        BY <3>1 DEF IInv, RegistryOK
      <4>. QED  BY <1>2, <3>1, <3>2, <4>1
    <3>3. CASE registry[b] # i
      <4>0. spc'[registry[b]] = spc[registry[b]]
        BY <1>2, <3>1, <3>3
      <4>1. CASE ok /\ registry[b] = registry[a]
        <5>1. part'[registry[b]] = p
          BY <1>t, <1>h, <1>2, <4>1 DEF SetHolderIf, SetHolder, TypeOK
        <5>. QED  BY <1>2, <3>1, <3>3, <4>0, <4>1, <5>1 DEF OwnOK, Holder
      <4>2. CASE ~ ok \/ registry[b] # registry[a]
        <5>1. part'[registry[b]] = part[registry[b]]
          BY <1>t, <1>2, <3>1, <4>2 DEF SetHolderIf, SetHolder, TypeOK
        <5>. QED  BY <3>1, <4>0, <5>1 DEF OwnOK
      <4>. QED  BY <4>1, <4>2
    <3>. QED  BY <3>2, <3>3
  <2>. QED  BY <2>1 DEF Own
\* The steps that leave the participants alone.
<1>3. ASSUME registry' = registry, part' = part,
             NEW to, spc' = [spc EXCEPT ![i] = to], registry[a] = i => OwnOK(i)'
      PROVE  Own'
  <2>. DEFINE p == Crash(Holder(a))
  <2>1. SetHolderIf(FALSE, a, p)
    BY <1>3 DEF SetHolderIf
  <2>2. \A j \in Inc : j # i => spc'[j] = spc[j]
    BY <1>3
  <2>. HIDE DEF p
  <2>. QED  BY <1>3, <1>2, <2>1, <2>2
<1>o. registry[a] = i => OwnOK(i) /\ Registered(a) /\ Holder(a) = part[i] /\ PartOK(part[i])
  BY <1>1, <1>h DEF Own, Registered, Inc, Holder, IInv, PartsOK
<1>s. \A to : spc' = [spc EXCEPT ![i] = to] => spc'[i] = to
  BY <1>t DEF TypeOK
<1>4. CASE StartOK(i)
  BY <1>o, <1>s, <1>3, <1>4 DEF StartOK, OwnOK
<1>5. CASE StartFail(i)
  BY <1>o, <1>s, <1>3, <1>5 DEF StartFail, OwnOK
<1>6. CASE StartFailContext(i)
  BY <1>o, <1>s, <1>3, <1>6 DEF StartFailContext, OwnOK
<1>7. CASE StartAnnounce(i)
  BY <1>o, <1>s, <1>3, <1>7 DEF StartAnnounce, OwnOK
<1>8. CASE StartUndo(i)
  BY <1>o, <1>s, <1>3, <1>8 DEF StartUndo, OwnOK
<1>9. CASE StartStop(i)
  BY <1>o, <1>s, <1>3, <1>9 DEF StartStop, OwnOK
<1>m. Registered(a) => /\ Crash(Holder(a)).agent = Holder(a).agent
                       /\ Crash(Holder(a)).ready = Holder(a).ready
                       /\ Crash(Holder(a)).status = "crashed"
                       /\ CommitIdle(Holder(a)).agent = Holder(a).agent
                       /\ CommitIdle(Holder(a)).ready = Holder(a).ready
                       /\ CommitIdle(Holder(a)).status = "idle"
                       /\ SessionReady(Holder(a)).agent = Holder(a).agent
                       /\ SessionReady(Holder(a)).status = Holder(a).status
                       /\ AttachAgent(Holder(a), i).agent = i
                       /\ AttachAgent(Holder(a), i).status = "attached"
                       /\ AttachAgent(Holder(a), i).ready = Holder(a).ready
  BY <1>h DEF P, Participants, Crash, ResetTo, CommitIdle, SessionReady, AttachAgent
<1>u. spc[i] \in {"attach", "commit", "ready", "cleanup"} /\ Registered(a) => registry[a] = i
  BY DEF StartsAlone
<1>10. CASE StartFailCrash(i)
  <2>. DEFINE ok == Registered(a)
              p  == Crash(Holder(a))
  <2>0. SetHolderIf(ok, a, p) /\ registry' = registry /\ spc' = [spc EXCEPT ![i] = "done"]
    BY <1>10 DEF StartFailCrash
  <2>1. registry[a] = i => OwnOK(i)'
    <3>1. registry[a] = i => part'[i] = p
      BY <1>t, <1>o, <2>0 DEF SetHolderIf, SetHolder, TypeOK
    <3>. QED  BY <1>o, <1>m, <1>s, <1>10, <2>0, <3>1 DEF OwnOK, StartFailCrash
  <2>2. ok => p.agent = Holder(a).agent /\ p.ready = Holder(a).ready /\ p.status = "crashed"
    BY <1>m
  <2>. HIDE DEF ok, p
  <2>3. ok => Registered(a)
    BY DEF ok
  <2>. QED  BY <1>2, <2>0, <2>1, <2>2, <2>3
<1>11. CASE StartAttach(i)
  <2>. DEFINE ok == Registered(a) /\ CanAttach(Holder(a))
              p  == AttachAgent(Holder(a), i)
              to == IF ok /\ runtime[a].present THEN "commit" ELSE "undo"
  <2>0. SetHolderIf(ok, a, p) /\ registry' = registry /\ spc' = [spc EXCEPT ![i] = to]
    BY <1>11 DEF StartAttach
  <2>1. registry[a] = i => OwnOK(i)'
    <3>1. registry[a] = i => part'[i] = IF ok THEN p ELSE part[i]
      BY <1>t, <1>o, <2>0 DEF SetHolderIf, SetHolder, TypeOK
    <3>2. spc'[i] = to
      BY <1>s, <2>0
    <3>3. ok /\ registry[a] = i => OwnOK(i)'
      BY <1>o, <1>m, <1>11, <3>1, <3>2 DEF OwnOK, StartAttach, CanAttach
    <3>4. ~ ok /\ registry[a] = i => OwnOK(i)'
      BY <1>o, <1>11, <3>1, <3>2 DEF OwnOK, StartAttach
    <3>. QED  BY <3>3, <3>4
  <2>2. Registered(a) => registry[a] = i
    BY <1>u, <1>11 DEF StartAttach
  <2>3. ok => Registered(a)
    OBVIOUS
  <2>. HIDE DEF ok, p, to
  <2>. QED  BY <1>2, <2>0, <2>1, <2>2, <2>3
<1>12. CASE StartCommit(i)
  <2>. DEFINE ok == Registered(a) /\ CanCommitIdle(Holder(a))
              p  == CommitIdle(Holder(a))
              to == IF ok THEN "ready" ELSE "cleanup"
  <2>0. SetHolderIf(ok, a, p) /\ registry' = registry /\ spc' = [spc EXCEPT ![i] = to]
    BY <1>12 DEF StartCommit
  <2>1. registry[a] = i => OwnOK(i)'
    <3>1. registry[a] = i => part'[i] = IF ok THEN p ELSE part[i]
      BY <1>t, <1>o, <2>0 DEF SetHolderIf, SetHolder, TypeOK
    <3>2. spc'[i] = to
      BY <1>s, <2>0
    <3>3. ok /\ registry[a] = i => OwnOK(i)'
      BY <1>o, <1>m, <1>12, <3>1, <3>2 DEF OwnOK, StartCommit, CanCommitIdle
    <3>4. ~ ok /\ registry[a] = i => OwnOK(i)'
      BY <1>o, <1>12, <3>1, <3>2 DEF OwnOK, StartCommit, CanCommitIdle
    <3>. QED  BY <3>3, <3>4
  <2>2. Registered(a) => registry[a] = i
    BY <1>u, <1>12 DEF StartCommit
  <2>3. ok => Registered(a)
    OBVIOUS
  <2>. HIDE DEF ok, p, to
  <2>. QED  BY <1>2, <2>0, <2>1, <2>2, <2>3
<1>13. CASE StartReady(i)
  <2>. DEFINE ok == Registered(a) /\ CanSessionReady(Holder(a))
              p  == SessionReady(Holder(a))
              to == IF ok THEN "started" ELSE "cleanup"
  <2>0. SetHolderIf(ok, a, p) /\ registry' = registry /\ spc' = [spc EXCEPT ![i] = to]
    BY <1>13 DEF StartReady
  <2>1. registry[a] = i => OwnOK(i)'
    <3>1. registry[a] = i => part'[i] = IF ok THEN p ELSE part[i]
      BY <1>t, <1>o, <2>0 DEF SetHolderIf, SetHolder, TypeOK
    <3>2. spc'[i] = to
      BY <1>s, <2>0
    <3>3. ok /\ registry[a] = i => OwnOK(i)'
      BY <1>o, <1>m, <1>13, <3>1, <3>2 DEF OwnOK, StartReady, CanSessionReady
    <3>4. ~ ok /\ registry[a] = i => OwnOK(i)'
      BY <1>o, <1>13, <3>1, <3>2 DEF OwnOK, StartReady, CanSessionReady
    <3>. QED  BY <3>3, <3>4
  <2>2. Registered(a) => registry[a] = i
    BY <1>u, <1>13 DEF StartReady
  <2>3. ok => Registered(a)
    OBVIOUS
  <2>. HIDE DEF ok, p, to
  <2>. QED  BY <1>2, <2>0, <2>1, <2>2, <2>3
<1>14. CASE StartCleanup(i)
  <2>1. Forget(a) /\ \A j \in Inc : j # i => spc'[j] = spc[j]
    BY <1>14 DEF StartCleanup
  <2>2. Registered(a) => i = registry[a]
    BY <1>u, <1>14 DEF StartCleanup
  <2>3. ASSUME ~ Registered(a), NEW b \in Alias, registry[b] = i, Registered(b)
        PROVE  FALSE
    BY <1>1, <2>3 DEF IInv, RegistryOK
  <2>. QED  BY <1>1, <2>1, <2>2, <2>3, ForgetOwn
<1>. QED
  BY <1>4, <1>5, <1>6, <1>7, <1>8, <1>9, <1>10, <1>11, <1>12, <1>13, <1>14 DEF StartStep

LEMMA InviteOwn ==
    ASSUME IInv, Own, NEW a \in Alias, InviteAdd(a)
    PROVE  Own'
<1>. DEFINE new == invited + 1
<1>1. invited \in Nat /\ new \in Inc
  <2>1. invited \in Inc0 /\ invited < MaxInvites
    BY DEF IInv, TypeOK, InviteAdd
  <2>. QED  BY <2>1, SessionAssumption DEF Inc, Inc0
<1>2. part'[new] = NewStarting /\ \A i \in Inc : i # new => part'[i] = part[i]
  BY <1>1 DEF IInv, TypeOK, InviteAdd
<1>3. registry'[a] = new /\ \A b \in Alias : b # a => registry'[b] = registry[b]
  BY DEF IInv, TypeOK, InviteAdd
<1>4. spc' = spc /\ spc[new] = "none"
  BY <1>1 DEF IInv, Named, InviteAdd
<1>5. ASSUME NEW b \in Alias, Registered(b)'
      PROVE  OwnOK(registry[b])'
  <2>1. CASE b = a
    BY <1>1, <1>2, <1>3, <1>4, <2>1 DEF OwnOK, NewStarting
  <2>2. CASE b # a
    <3>1. Registered(b) /\ registry[b] \in Inc /\ registry[b] <= invited
      BY <1>3, <1>5, <2>2, HolderTyped DEF Registered, IInv, RegistryOK
    <3>2. registry[b] # new
      BY <1>1, <3>1 DEF Inc
    <3>. QED  BY <1>2, <1>3, <1>4, <2>2, <3>1, <3>2 DEF Own, OwnOK
  <2>. QED  BY <2>1, <2>2
<1>. QED  BY <1>5 DEF Own

LEMMA SweepOwn ==
    ASSUME IInv, Own, Sweep
    PROVE  Own'
<1>1. UNCHANGED <<registry, spc>>
  BY DEF Sweep, tables
<1>2. ASSUME NEW i \in Inc
      PROVE  part'[i] = part[i] \/ part'[i] = BeginKeepalive(part[i])
  BY <1>2 DEF Sweep
<1>3. ASSUME NEW b \in Alias, Registered(b)'
      PROVE  OwnOK(registry[b])'
  <2>1. Registered(b) /\ registry[b] \in Inc /\ registry'[b] = registry[b] /\ OwnOK(registry[b])
    BY <1>1, <1>3, HolderTyped DEF Registered, Own, IInv
  <2>2. part[registry[b]] \in P
    BY <2>1 DEF IInv, TypeOK, P
  <2>3. /\ BeginKeepalive(part[registry[b]]).agent = part[registry[b]].agent
        /\ BeginKeepalive(part[registry[b]]).ready = part[registry[b]].ready
        /\ BeginKeepalive(part[registry[b]]).status = "keepalive"
    BY <2>2 DEF P, Participants, BeginKeepalive
  <2>. QED  BY <1>1, <1>2, <2>1, <2>3 DEF OwnOK
<1>. QED  BY <1>3 DEF Own

\* An invitation has no start goroutine before it is spawned.
Unspawned == ex.pc \in {"reserve", "spawn"} => spc[ex.agent] = "none"

LEMMA UnspawnedInit == Init => Unspawned
BY DEF Init, Unspawned, ExecIdle

\* Only an invitation changes what the invitations are, and only it launches.
Launched == ex'.pc \in {"reserve", "spawn"} =>
                ex.pc \in {"reserve", "spawn"} /\ ex'.agent = ex.agent

LEMMA LaunchStep ==
    ASSUME IInv, [Next]_vars, ~ \E a \in Alias : InviteAdd(a)
    PROVE  Launched /\ UNCHANGED <<invited, aliasOf>>
<1>. USE DEF tables, flags, ids, agents, keepers
<1>t. TypeOK /\ ex \in Execs
  BY DEF IInv, TypeOK
<1>2. CASE InviteReserve
  <2>1. ex'.agent = ex.agent
    BY <1>t, <1>2 DEF InviteReserve, Execs
  <2>. QED  BY <1>2, <2>1 DEF InviteReserve, Launched
<1>3. ASSUME NEW i \in Inc, StartStep(i)
      PROVE  UNCHANGED <<ex, invited, aliasOf>>
  BY <1>3 DEF StartStep, StartOK, StartFail, StartFailContext, StartFailCrash,
         StartAttach, StartCommit, StartReady, StartAnnounce, StartCleanup, StartUndo,
         StartStop
<1>4. ASSUME NEW i \in Inc, AgentStep(i) \/ ReaderStep(i) \/ KeeperStep(i)
      PROVE  UNCHANGED <<ex, invited, aliasOf>>
  BY <1>4 DEF AgentStep, AgentOutput, AgentFinish, AgentFailTurn, AgentExit,
         ReaderStep, ReadMessage, ReadEnd, ReaderDropCheck, ReaderTrack, ReaderClose,
         ReaderMarkIdle, ReaderFinish, ReaderErrCheck, ReaderCrash, ReaderTerminal,
         KeeperStep, KeepaliveAccepted, KeepaliveFailed, KeepaliveRelease
<1>5. CASE Sweep \/ SweeperExit \/ UNCHANGED vars
  BY <1>5 DEF Sweep, SweeperExit, vars, Launched
<1>7. ASSUME ex'.pc \notin {"reserve", "spawn"}, UNCHANGED <<invited, aliasOf>>
      PROVE  Launched /\ UNCHANGED <<invited, aliasOf>>
  BY <1>7 DEF Launched
<1>8. CASE ExecStep
  <2>k. /\ Skipped.pc \in {"idle", "next"} /\ Delivered.pc = "next"
        /\ \A kind : Continue(kind).pc = "next" /\ ExecIdle.pc = "idle"
    BY DEF Skipped, Delivered, Continue, ExecIdle
  <2>1. ASSUME NEW b \in Alias, NextDelivery(b)
        PROVE  ex'.pc \notin {"reserve", "spawn"} /\ UNCHANGED <<invited, aliasOf>>
    <3>. DEFINE rest == [Continue(ex.kind) EXCEPT !.todo = @ \ {b}]
    <3>1. rest \in Execs /\ rest.pc = "next"
      <4>x. ex.kind \in {"none", "direct", "broadcast", "notice"}
        BY <1>t DEF Execs
      <4>. DEFINE c == Continue(ex.kind)
      <4>1. c \in Execs /\ c.pc = "next"
        BY <1>t, <2>k, <4>x, ContinueTyped
      <4>. HIDE DEF c
      <4>2. [c EXCEPT !.todo = c.todo \ {b}] \in Execs
            /\ [c EXCEPT !.todo = c.todo \ {b}].pc = "next"
        BY <4>1 DEF Execs
      <4>. QED  BY <4>2 DEF c
    <3>. HIDE DEF rest
    <3>2. /\ [rest EXCEPT !.pc = "acquire", !.alias = b].pc = "acquire"
          /\ [rest EXCEPT !.pc = "prepare", !.alias = b, !.agent = Holder(b).agent].pc
               = "prepare"
      BY <3>1 DEF Execs
    <3>. QED  BY <2>1, <3>1, <3>2 DEF NextDelivery, rest
  <2>2. CASE CommandDone \/ AcquireNotice \/ Prepare \/ Recheck
    BY <1>7, <1>t, <2>k, <2>2 DEF CommandDone, AcquireNotice, Prepare, Recheck, Execs
  <2>3. CASE SendAccepted \/ SendRefused \/ Begin \/ Track \/ Abort
    BY <1>7, <1>t, <2>k, <2>3 DEF SendAccepted, SendRefused, Begin, Track, Abort, Execs
  <2>4. CASE InviteSpawn \/ RemoveStop \/ RemoveEvict
    BY <1>7, <2>k, <2>4 DEF InviteSpawn, RemoveStop, RemoveEvict
  <2>5. CASE \/ ShutdownAwait \/ ShutdownCancelAll \/ ShutdownSnapshot \/ ShutdownDone
             \/ \E i \in Inc : ShutdownStop(i)
    BY <1>7, <1>t, <2>5 DEF ShutdownAwait, ShutdownCancelAll, ShutdownSnapshot, ShutdownDone,
         ShutdownStop, Execs
  <2>6. InviteReserve => UNCHANGED <<invited, aliasOf>>
    BY DEF InviteReserve
  <2>. QED  BY <1>2, <1>7, <2>1, <2>2, <2>3, <2>4, <2>5, <2>6, <1>8 DEF ExecStep
<1>9. CASE UserCommand
  <2>1. ASSUME NEW a \in Alias, RemoveDetach(a) \/ RemoveUnattached(a)
        PROVE  ex'.pc \notin {"reserve", "spawn"} /\ UNCHANGED <<invited, aliasOf>>
    <3>1. CASE RemoveDetach(a)
      BY <3>1 DEF RemoveDetach, ExecIdle
    <3>2. CASE RemoveUnattached(a)
      BY <3>2 DEF RemoveUnattached, ExecIdle
    <3>. QED  BY <2>1, <3>1, <3>2
  <2>2. ASSUME NEW pc \in {"next", "prepare"}, NEW kind, NEW a, NEW todo,
               BeginCommand(pc, kind, a, todo)
        PROVE  ex'.pc \notin {"reserve", "spawn"} /\ UNCHANGED <<invited, aliasOf>>
    BY <2>2 DEF BeginCommand, ExecIdle
  <2>3. CASE ShutdownBegin
    BY <1>7, <2>3 DEF ShutdownBegin, ExecIdle
  <2>. QED
    BY <1>7, <1>9, <2>1, <2>2, <2>3 DEF UserCommand, SendCommand, HandoffCommand,
       BroadcastCommand, FrozenBroadcast
<1>10. (\E i \in Inc : AgentStep(i) \/ StartStep(i) \/ ReaderStep(i) \/ KeeperStep(i))
          => Launched /\ UNCHANGED <<invited, aliasOf>>
  BY <1>3, <1>4 DEF Launched
<1>. QED  BY <1>5, <1>8, <1>9, <1>10 DEF Next

\* What an invitation changes.
LEMMA InviteChanges ==
    ASSUME IInv, NEW a \in Alias, InviteAdd(a)
    PROVE  LET new == invited + 1 IN
           /\ new \in Inc /\ invited \in Nat /\ invited' = new
           /\ aliasOf'[new] = a /\ \A i \in Inc : i # new => aliasOf'[i] = aliasOf[i]
           /\ registry'[a] = new /\ \A b \in Alias : b # a => registry'[b] = registry[b]
           /\ part'[new] = NewStarting /\ \A i \in Inc : i # new => part'[i] = part[i]
           /\ spc' = spc /\ rd' = rd /\ spc[new] = "none" /\ rd[new].pc = "none"
           /\ ex'.pc = "reserve" /\ ex'.agent = new /\ ~ Registered(a)
<1>. DEFINE new == invited + 1
<1>1. invited \in Nat /\ new \in Inc /\ ~ (new <= invited)
  <2>1. invited \in Inc0 /\ invited < MaxInvites
    BY DEF IInv, TypeOK, InviteAdd
  <2>. QED  BY <2>1, SessionAssumption DEF Inc, Inc0
<1>2. spc[new] = "none" /\ rd[new].pc = "none"
  BY <1>1 DEF IInv, Named
<1>. QED  BY <1>1, <1>2 DEF IInv, TypeOK, InviteAdd, ExecIdle

LEMMA StartChanges ==
    ASSUME IInv, NEW i \in Inc, StartStep(i)
    PROVE  /\ spc[i] # "none" /\ UNCHANGED ex
           /\ \A j \in Inc : j # i => spc'[j] = spc[j] /\ rd'[j] = rd[j]
           /\ rd'[i] # rd[i] => spc'[i] = "started" /\ spc[i] = "ready"
           /\ spc[i] = "started" => spc'[i] = "done"
           /\ spc[i] # "done"
           /\ spc'[i] \in {"failContext", "failCrash", "attach", "commit", "ready", "cleanup"}
                => spc[i] \in {"start", "failContext", "attach", "commit", "ready"}
           /\ spc'[i] \notin {"none", "start"}
<1>t. TypeOK
  BY DEF IInv
<1>. QED
  BY <1>t DEF StartStep, StartOK, StartFail, StartFailContext, StartFailCrash,
         StartAttach, StartCommit, StartReady, StartAnnounce, StartCleanup, StartUndo,
         StartStop, StartGo, tables, flags, ids, agents, keepers, TypeOK

LEMMA UnspawnedStep ==
    ASSUME IInv, Unspawned, [Next]_vars
    PROVE  Unspawned'
<1>1. ASSUME NEW a \in Alias, InviteAdd(a)
      PROVE  Unspawned'
  BY <1>1, InviteChanges DEF Unspawned
<1>2. ASSUME ~ \E a \in Alias : InviteAdd(a)
      PROVE  Unspawned'
  <2>1. Launched
    BY <1>2, LaunchStep
  <2>2. ASSUME ex'.pc \in {"reserve", "spawn"}
        PROVE  spc'[ex'.agent] = "none"
    <3>1. /\ ex.pc \in {"reserve", "spawn"} /\ ex'.agent = ex.agent /\ ex.agent \in Inc
          /\ spc[ex.agent] = "none"
      BY <2>1, <2>2 DEF Launched, IInv, Named, Unspawned
    <3>2. ASSUME NEW i \in Inc, StartStep(i)
          PROVE  spc'[ex.agent] = "none"
      BY <3>1, <3>2, StartChanges
    <3>3. ~ InviteSpawn
      BY <2>2 DEF InviteSpawn, ExecIdle
    <3>4. (\E i \in Inc : StartStep(i)) \/ spc' = spc
      BY <1>2, <3>3, NextShape DEF StepShape, Still, MovesHolder, Withdraws, Sweep
    <3>. QED  BY <3>1, <3>2, <3>4
  <2>. QED  BY <2>2 DEF Unspawned
<1>. QED  BY <1>1, <1>2

LEMMA OwnInit == Init => Own
BY DEF Init, Own, Registered

LEMMA OwnStep ==
    ASSUME IInv, Own, Unspawned, StartsAlone, [Next]_vars
    PROVE  Own'
<1>1. CASE Still
  BY <1>1 DEF Still, Own, OwnOK, Registered
<1>2. ASSUME NEW a \in Alias, Withdraws(a)
      PROVE  Own'
  <2>. DEFINE j == registry[a]
  <2>1. Forget(a) /\ spc' = spc
    BY <1>2 DEF Withdraws
  <2>. HIDE DEF j
  <2>. QED  BY <1>2, <2>1, ForgetOwn DEF j
<1>3. CASE InviteSpawn
  <2>1. UNCHANGED <<registry, part>> /\ spc' = [spc EXCEPT ![ex.agent] = "start"]
    BY <1>3 DEF InviteSpawn
  <2>2. spc[ex.agent] = "none"
    BY <1>3 DEF InviteSpawn, Unspawned
  <2>3. ASSUME NEW b \in Alias, Registered(b)'
        PROVE  OwnOK(registry[b])'
    <3>1. Registered(b) /\ registry[b] \in Inc /\ OwnOK(registry[b])
      BY <2>1, <2>3, HolderTyped DEF Registered, IInv, Own
    <3>2. spc'[registry[b]] = IF registry[b] = ex.agent THEN "start" ELSE spc[registry[b]]
      BY <2>1, <3>1 DEF IInv, TypeOK
    <3>. QED  BY <2>1, <2>2, <3>1, <3>2 DEF OwnOK
  <2>. QED  BY <2>3 DEF Own
<1>. QED
  BY <1>1, <1>2, <1>3, NextShape, MoveOwn, StartOwn, InviteOwn, SweepOwn DEF StepShape

LEMMA OwnAlways == Spec /\ []StartsAlone => [](IInv /\ Own /\ Unspawned)
<1>1. Init => IInv /\ Own /\ Unspawned
  BY InitInv, OwnInit, UnspawnedInit
<1>2. IInv /\ Own /\ Unspawned /\ StartsAlone /\ [Next]_vars => (IInv /\ Own /\ Unspawned)'
  BY NextInv, OwnStep, UnspawnedStep
<1>. QED  BY <1>1, <1>2, PTL DEF Spec

-----------------------------------------------------------------------------
(* The session implements Lifecycle: lives and turns are the state functions *)
(* that Life puts for its variables.                                         *)

lives == [a \in Alias |-> PhaseOf(a)]
turns == [a \in Alias |-> IF Registered(a) THEN Holder(a).turn ELSE 0]

Phase(p) == IF p.status \in {"idle", "keepalive"} /\ ~ p.ready THEN "opening" ELSE p.status

LifeStep == Life!LifeNext \/ UNCHANGED Life!lives

LEMMA StillLife ==
    ASSUME UNCHANGED <<registry, part, lastTurnID>>
    PROVE  LifeStep
<1>1. UNCHANGED <<lives, turns, lastTurnID>>
  BY DEF lives, turns, PhaseOf, Registered, Holder
<1>. QED  BY <1>1 DEF LifeStep, Life!lives, lives, turns

\* A step that changes one participant changes the life of its alias only.
LEMMA HolderLife ==
    ASSUME IInv, NEW a \in Alias, Registered(a), NEW p,
           registry' = registry, part' = [part EXCEPT ![registry[a]] = p]
    PROVE  /\ lives' = [lives EXCEPT ![a] = Phase(p)]
           /\ turns' = [turns EXCEPT ![a] = p.turn]
<1>1. registry[a] \in Inc /\ part'[registry[a]] = p
  BY HolderTyped DEF IInv, TypeOK
<1>2. ASSUME NEW b \in Alias, b # a
      PROVE  PhaseOf(b)' = PhaseOf(b) /\ turns'[b] = turns[b]
  <2>1. CASE Registered(b)
    <3>1. registry[b] \in Inc /\ registry[b] # registry[a]
      BY <1>2, <2>1, HolderTyped, RegistryUnique DEF IInv
    <3>2. part'[registry[b]] = part[registry[b]]
      BY <3>1 DEF IInv, TypeOK
    <3>. QED  BY <2>1, <3>2 DEF PhaseOf, turns, Registered, Holder
  <2>2. CASE ~ Registered(b)
    BY <2>2 DEF PhaseOf, turns, Registered
  <2>. QED  BY <2>1, <2>2
<1>3. PhaseOf(a)' = Phase(p) /\ turns'[a] = p.turn
  BY <1>1 DEF PhaseOf, Phase, turns, Registered, Holder
<1>. QED  BY <1>2, <1>3 DEF lives, turns

LEMMA MoveLife ==
    ASSUME IInv, NEW a \in Alias, NEW p \in P, MovesHolder(a, p)
    PROVE  LifeStep
<1>. DEFINE h == Holder(a)
<1>1. /\ lives' = [lives EXCEPT ![a] = Phase(p)] /\ turns' = [turns EXCEPT ![a] = p.turn]
      /\ Registered(a) /\ (Moves(h, p) \/ Fails(a, h, p))
  BY HolderLife DEF MovesHolder
<1>2. h \in P /\ PartOK(h)
  BY <1>1, HolderTyped DEF IInv, PartsOK, Holder
<1>3. lives[a] = Phase(h) /\ turns[a] = h.turn
  BY <1>1 DEF lives, turns, PhaseOf, Phase
<1>4. p.turn = h.turn => turns' = turns
  BY <1>1, <1>3 DEF turns
<1>. HIDE DEF h
<1>5. CASE p.status = "crashed" /\ lastTurnID' = lastTurnID /\ p.turn = h.turn
  <2>1. Life!Fail(a)
    BY <1>1, <1>2, <1>3, <1>4, <1>5
    DEF Life!Fail, Life!Quietly, Life!Move, Life!Phases, Life!Opening, Life!Serving,
        Life!Active, Phase, P, Participants, Status, lives, turns
  <2>. QED  BY <2>1 DEF LifeStep, Life!LifeNext
<1>6. CASE /\ HasActiveTurn(h) /\ p.status = h.status
           /\ lastTurnID' = lastTurnID /\ p.turn = h.turn
  <2>1. Phase(p) = Phase(h)
    BY <1>6 DEF Phase, HasActiveTurn
  <2>2. lives' = lives
    BY <1>1, <1>3, <2>1 DEF lives
  <2>. QED  BY <1>4, <1>6, <2>2 DEF LifeStep, Life!lives, lives, turns
<1>7. CASE /\ HasActiveTurn(h) /\ p.status = "idle"
           /\ lastTurnID' = lastTurnID /\ p.turn = h.turn
  <2>1. Life!Rest(a)
    BY <1>1, <1>2, <1>3, <1>4, <1>7
    DEF Life!Rest, Life!Quietly, Life!Move, Life!Active, Phase, HasActiveTurn, PartOK,
        Moves, Fails, lives, turns
  <2>. QED  BY <2>1 DEF LifeStep, Life!LifeNext
<1>8. CASE /\ IsReadyForWork(h) /\ p.status = "preparing"
           /\ lastTurnID' = lastTurnID /\ p.turn = h.turn
  <2>1. Life!Reserve(a)
    BY <1>1, <1>3, <1>4, <1>8
    DEF Life!Reserve, Life!Quietly, Life!Move, Phase, IsReadyForWork, lives, turns
  <2>. QED  BY <2>1 DEF LifeStep, Life!LifeNext
<1>9. CASE /\ h.status = "keepalive" /\ p.status = "idle"
           /\ lastTurnID' = lastTurnID /\ p.turn = h.turn
  <2>1. CASE h.ready
    <3>1. Life!Pong(a)
      BY <1>1, <1>3, <1>4, <1>9, <2>1
      DEF Life!Pong, Life!Quietly, Life!Move, Phase, Moves, Fails, lives, turns
    <3>. QED  BY <3>1 DEF LifeStep, Life!LifeNext
  <2>2. CASE ~ h.ready
    <3>1. Phase(p) = Phase(h)
      BY <1>1, <1>9, <2>2 DEF Phase, Moves, Fails
    <3>2. lives' = lives
      BY <1>1, <1>3, <3>1 DEF lives
    <3>. QED  BY <1>4, <1>9, <3>2 DEF LifeStep, Life!lives, lives, turns
  <2>. QED  BY <2>1, <2>2
<1>10. CASE /\ h.status = "preparing" /\ p.status = "working"
            /\ lastTurnID' = lastTurnID + 1 /\ p.turn = lastTurnID'
  <2>1. Life!Work(a)
    BY <1>1, <1>3, <1>10 DEF Life!Work, Life!Move, Phase, lives, turns
  <2>. QED  BY <2>1 DEF LifeStep, Life!LifeNext
<1>. QED
  BY <1>1, <1>5, <1>6, <1>7, <1>8, <1>9, <1>10 DEF Moves, Fails

\* A participant that is forgotten leaves, or there was none.
LEMMA ForgetLife ==
    ASSUME IInv, NEW a \in Alias, Forget(a), lastTurnID' = lastTurnID,
           Registered(a) => Phase(Holder(a)) \notin {"starting", "attached"}
    PROVE  LifeStep
<1>1. ASSUME NEW b \in Alias, b # a
      PROVE  PhaseOf(b)' = PhaseOf(b) /\ turns'[b] = turns[b]
  <2>0. registry'[b] = registry[b]
    BY <1>1 DEF Forget
  <2>1. CASE Registered(b)
    <3>1. registry[b] \in Inc /\ registry[b] # registry[a]
      BY <1>1, <2>1, HolderTyped, RegistryUnique DEF IInv
    <3>2. part'[registry[b]] = part[registry[b]]
      BY <3>1 DEF Forget
    <3>. QED  BY <2>0, <2>1, <3>2 DEF PhaseOf, turns, Registered, Holder
  <2>2. CASE ~ Registered(b)
    BY <2>0, <2>2 DEF PhaseOf, turns, Registered
  <2>. QED  BY <2>1, <2>2
<1>2. PhaseOf(a)' = "absent" /\ turns'[a] = 0
  BY DEF IInv, TypeOK, Forget, PhaseOf, turns, Registered
<1>3. lives' = [lives EXCEPT ![a] = "absent"] /\ turns' = [turns EXCEPT ![a] = 0]
  BY <1>1, <1>2 DEF lives, turns
<1>4. CASE Registered(a)
  <2>1. Holder(a) \in P /\ lives[a] = Phase(Holder(a))
    BY <1>4, HolderTyped DEF IInv, lives, PhaseOf, Phase
  <2>2. Life!Leave(a)
    BY <1>3, <1>4, <2>1
    DEF Life!Leave, Life!Move, Life!Serving, Life!Active, Phase, P, Participants, Status,
        lives, turns
  <2>. QED  BY <2>2 DEF LifeStep, Life!LifeNext
<1>5. CASE ~ Registered(a)
  <2>1. lives[a] = "absent" /\ turns[a] = 0
    BY <1>5 DEF lives, turns, PhaseOf
  <2>2. lives = [b \in Alias |-> lives[b]] /\ turns = [b \in Alias |-> turns[b]]
    BY DEF lives, turns
  <2>3. UNCHANGED <<lives, turns>>
    BY <1>3, <2>1, <2>2
  <2>. QED  BY <2>3 DEF LifeStep, Life!lives, lives, turns
<1>. QED  BY <1>4, <1>5

LEMMA InviteLife ==
    ASSUME IInv, NEW a \in Alias, InviteAdd(a)
    PROVE  LifeStep
<1>. DEFINE new == invited + 1
<1>1. invited \in Nat /\ new \in Inc
  <2>1. invited \in Inc0 /\ invited < MaxInvites
    BY DEF IInv, TypeOK, InviteAdd
  <2>. QED  BY <2>1, SessionAssumption DEF Inc, Inc0
<1>2. part'[new] = NewStarting /\ \A i \in Inc : i # new => part'[i] = part[i]
  BY <1>1 DEF IInv, TypeOK, InviteAdd
<1>3. registry'[a] = new /\ \A b \in Alias : b # a => registry'[b] = registry[b]
  BY DEF IInv, TypeOK, InviteAdd
<1>4. ASSUME NEW b \in Alias, b # a
      PROVE  PhaseOf(b)' = PhaseOf(b) /\ turns'[b] = turns[b]
  <2>1. CASE Registered(b)
    <3>1. registry[b] \in Inc /\ registry[b] <= invited
      BY <2>1, HolderTyped DEF IInv, RegistryOK
    <3>2. registry[b] # new
      BY <1>1, <3>1 DEF Inc
    <3>. QED  BY <1>2, <1>3, <1>4, <2>1, <3>1, <3>2 DEF PhaseOf, turns, Registered, Holder
  <2>2. CASE ~ Registered(b)
    BY <1>3, <1>4, <2>2 DEF PhaseOf, turns, Registered
  <2>. QED  BY <2>1, <2>2
<1>5. PhaseOf(a)' = "starting" /\ turns'[a] = 0
  BY <1>1, <1>2, <1>3 DEF PhaseOf, turns, Registered, Holder, NewStarting, Inc
<1>6. lives[a] = "absent" /\ turns[a] = 0 /\ lastTurnID' = lastTurnID
  BY DEF InviteAdd, lives, turns, PhaseOf
<1>7. lives' = [lives EXCEPT ![a] = "starting"] /\ turns' = turns
  BY <1>4, <1>5, <1>6 DEF lives, turns
<1>8. Life!Invite(a)
  BY <1>6, <1>7 DEF Life!Invite, Life!Quietly, Life!Move, lives, turns
<1>. QED  BY <1>8 DEF LifeStep, Life!LifeNext

LEMMA SweepLife ==
    ASSUME IInv, Sweep
    PROVE  LifeStep
<1>0. UNCHANGED <<registry, lastTurnID>>
  BY DEF Sweep, tables, ids
<1>1. PICK due \in SUBSET KeepaliveEligible :
        LET claimed == {registry[a] : a \in due} IN
        part' = [i \in Inc |-> IF i \in claimed THEN BeginKeepalive(part[i]) ELSE part[i]]
  BY DEF Sweep
<1>. DEFINE claimed == {registry[a] : a \in due}
            S == {a \in due : Holder(a).ready}
<1>2. ASSUME NEW a \in Alias
      PROVE  /\ PhaseOf(a)' = IF a \in S THEN "keepalive" ELSE PhaseOf(a)
             /\ turns'[a] = turns[a]
             /\ a \in S => PhaseOf(a) = "idle"
  <2>1. CASE Registered(a)
    <3>1. registry[a] \in Inc /\ Holder(a) \in P
      BY <2>1, HolderTyped DEF IInv
    <3>2. CASE a \in due
      <4>1. part'[registry[a]] = BeginKeepalive(Holder(a)) /\ Holder(a).status = "idle"
        BY <1>1, <3>1, <3>2 DEF Holder, KeepaliveEligible, CanBeginKeepalive
      <4>2. /\ BeginKeepalive(Holder(a)).status = "keepalive"
            /\ BeginKeepalive(Holder(a)).ready = Holder(a).ready
            /\ BeginKeepalive(Holder(a)).turn = Holder(a).turn
        BY <3>1 DEF BeginKeepalive, P, Participants
      <4>. QED
        BY <1>0, <2>1, <3>2, <4>1, <4>2 DEF PhaseOf, turns, Registered, Holder
    <3>3. CASE a \notin due
      <4>1. registry[a] \notin claimed
        <5>1. ASSUME NEW b \in due, registry[a] = registry[b]
              PROVE  FALSE
          BY <2>1, <3>3, <5>1, RegistryUnique DEF KeepaliveEligible
        <5>. QED  BY <5>1
      <4>2. part'[registry[a]] = part[registry[a]]
        BY <1>1, <3>1, <4>1
      <4>. QED  BY <1>0, <2>1, <3>3, <4>2 DEF PhaseOf, turns, Registered, Holder
    <3>. QED  BY <3>2, <3>3
  <2>2. CASE ~ Registered(a)
    BY <1>0, <2>2 DEF PhaseOf, turns, Registered, KeepaliveEligible
  <2>. QED  BY <2>1, <2>2
<1>3. lives' = [a \in Alias |-> IF a \in S THEN "keepalive" ELSE lives[a]] /\ turns' = turns
  BY <1>2 DEF lives, turns
<1>4. S \in SUBSET Alias /\ \A a \in S : lives[a] = "idle"
  BY <1>2 DEF KeepaliveEligible, lives
<1>. HIDE DEF S
<1>5. Life!Ping(S)
  BY <1>0, <1>3, <1>4 DEF Life!Ping, lives, turns
<1>. QED  BY <1>4, <1>5 DEF LifeStep, Life!LifeNext

LEMMA StartLife ==
    ASSUME IInv, Own, StartsAlone, NEW i \in Inc, StartStep(i)
    PROVE  LifeStep
<1>. USE DEF tables, flags, ids, agents, keepers, StartGo
<1>. DEFINE a == aliasOf[i]
            h == Holder(a)
<1>t. TypeOK /\ lastTurnID' = lastTurnID
  BY DEF IInv, StartStep, StartOK, StartFail, StartFailContext, StartFailCrash,
         StartAttach, StartCommit, StartReady, StartAnnounce, StartCleanup, StartUndo,
         StartStop
<1>1. a \in Alias
  BY StartAlias DEF StartStep, StartOK, StartFail, StartFailContext, StartFailCrash,
         StartAttach, StartCommit, StartReady, StartAnnounce, StartCleanup, StartUndo,
         StartStop, IInv
<1>h. Registered(a) => h \in P /\ OwnOK(registry[a]) /\ h = part[registry[a]]
  BY <1>t, <1>1, HolderTyped DEF Own, Holder
<1>2. CASE StartOK(i) \/ StartFail(i) \/ StartFailContext(i) \/ StartAnnounce(i)
           \/ StartUndo(i) \/ StartStop(i)
  BY <1>2, <1>t, StillLife DEF StartOK, StartFail, StartFailContext, StartAnnounce,
     StartUndo, StartStop
\* A step that sets the participant under the alias, or none.
<1>3. ASSUME NEW ok, NEW p, SetHolderIf(ok, a, p), registry' = registry,
             ok => /\ Registered(a) /\ p.turn = h.turn
                   /\ \/ Phase(p) = "crashed"
                      \/ Phase(p) = Phase(h)
                      \/ Phase(h) = "starting" /\ Phase(p) = "attached"
                      \/ Phase(h) = "attached" /\ Phase(p) = "opening"
                      \/ Phase(h) = "opening" /\ Phase(p) = "idle"
      PROVE  LifeStep
  <2>1. CASE ok
    <3>1. part' = [part EXCEPT ![registry[a]] = p] /\ Registered(a)
      BY <1>3, <2>1 DEF SetHolderIf, SetHolder
    <3>2. lives' = [lives EXCEPT ![a] = Phase(p)] /\ turns' = [turns EXCEPT ![a] = p.turn]
      BY <1>1, <1>3, <3>1, HolderLife
    <3>3. lives[a] = Phase(h) /\ turns[a] = h.turn
      BY <1>1, <3>1 DEF lives, turns, PhaseOf, Phase
    <3>4. turns' = turns
      BY <1>3, <2>1, <3>2, <3>3 DEF turns
    <3>. HIDE DEF h
    <3>5. CASE Phase(p) = "crashed"
      <4>1. Life!Fail(a)
        BY <1>1, <1>t, <1>h, <3>1, <3>2, <3>3, <3>4, <3>5
        DEF Life!Fail, Life!Quietly, Life!Move, Life!Phases, Life!Opening, Life!Serving,
            Life!Active, Phase, P, Participants, Status, lives, turns
      <4>. QED  BY <1>1, <4>1 DEF LifeStep, Life!LifeNext
    <3>6. CASE Phase(p) = Phase(h)
      <4>1. lives' = lives
        BY <3>2, <3>3, <3>6 DEF lives
      <4>. QED  BY <1>t, <3>4, <4>1 DEF LifeStep, Life!lives, lives, turns
    <3>7. CASE \/ Phase(h) = "starting" /\ Phase(p) = "attached"
               \/ Phase(h) = "attached" /\ Phase(p) = "opening"
               \/ Phase(h) = "opening" /\ Phase(p) = "idle"
      <4>1. Life!Start(a)
        BY <1>1, <1>t, <3>2, <3>3, <3>4, <3>7
        DEF Life!Start, Life!Quietly, Life!Move, lives, turns
      <4>. QED  BY <1>1, <4>1 DEF LifeStep, Life!LifeNext
    <3>. QED  BY <1>3, <2>1, <3>5, <3>6, <3>7
  <2>2. CASE ~ ok
    BY <1>3, <1>t, <2>2, StillLife DEF SetHolderIf
  <2>. QED  BY <2>1, <2>2
<1>4. CASE StartFailCrash(i)
  <2>. DEFINE ok == Registered(a)
              p  == Crash(h)
  <2>1. SetHolderIf(ok, a, p) /\ registry' = registry
    BY <1>4 DEF StartFailCrash
  <2>2. ok => Registered(a) /\ p.turn = h.turn /\ Phase(p) = "crashed"
    BY <1>h DEF Crash, ResetTo, Phase, P, Participants
  <2>. HIDE DEF ok, p
  <2>. QED  BY <1>3, <2>1, <2>2
<1>5. CASE StartAttach(i)
  <2>. DEFINE ok == Registered(a) /\ CanAttach(h)
              p  == AttachAgent(h, i)
  <2>1. SetHolderIf(ok, a, p) /\ registry' = registry
    BY <1>5 DEF StartAttach
  <2>2. ok => /\ Registered(a) /\ p.turn = h.turn
              /\ Phase(h) = "starting" /\ Phase(p) = "attached"
    BY <1>h DEF CanAttach, AttachAgent, Phase, P, Participants
  <2>. HIDE DEF ok, p
  <2>. QED  BY <1>3, <2>1, <2>2
<1>6. CASE StartCommit(i)
  <2>. DEFINE ok == Registered(a) /\ CanCommitIdle(h)
              p  == CommitIdle(h)
  <2>1. SetHolderIf(ok, a, p) /\ registry' = registry
    BY <1>6 DEF StartCommit
  <2>2. ok => /\ Registered(a) /\ p.turn = h.turn
              /\ Phase(h) = "attached" /\ Phase(p) = "opening"
    BY <1>h DEF CanCommitIdle, CommitIdle, Phase, P, Participants, OwnOK
  <2>. HIDE DEF ok, p
  <2>. QED  BY <1>3, <2>1, <2>2
<1>7. CASE StartReady(i)
  <2>. DEFINE ok == Registered(a) /\ CanSessionReady(h)
              p  == SessionReady(h)
  <2>1. SetHolderIf(ok, a, p) /\ registry' = registry
    BY <1>7 DEF StartReady
  <2>2. ok => /\ Registered(a) /\ p.turn = h.turn
              /\ Phase(p) = Phase(h) \/ (Phase(h) = "opening" /\ Phase(p) = "idle")
    BY <1>h DEF CanSessionReady, SessionReady, Phase, P, Participants
  <2>. HIDE DEF ok, p
  <2>. QED  BY <1>3, <2>1, <2>2
<1>8. CASE StartCleanup(i)
  <2>1. Registered(a) => registry[a] = i
    BY <1>8 DEF StartCleanup, StartsAlone
  <2>2. Registered(a) => Phase(h) \notin {"starting", "attached"}
    BY <1>8, <1>h, <2>1 DEF StartCleanup, OwnOK, Phase
  <2>. QED  BY <1>1, <1>8, <1>t, <2>2, ForgetLife DEF StartCleanup
<1>. QED  BY <1>2, <1>4, <1>5, <1>6, <1>7, <1>8 DEF StartStep

LEMMA StepLife ==
    ASSUME IInv, Own, StartsAlone, [Next]_vars
    PROVE  [Life!LifeNext]_(Life!lives)
<1>1. Still => LifeStep
  BY StillLife DEF Still
<1>2. ASSUME NEW a \in Alias, Withdraws(a)
      PROVE  LifeStep
  <2>1. Registered(a) => Phase(Holder(a)) \notin {"starting", "attached"}
    BY <1>2 DEF Withdraws, IsRemovable, Phase
  <2>. QED  BY <1>2, <2>1, ForgetLife DEF Withdraws
<1>3. InviteSpawn => LifeStep
  BY StillLife DEF InviteSpawn, ids
<1>4. LifeStep
  BY <1>1, <1>2, <1>3, NextShape, MoveLife, StartLife, InviteLife, SweepLife DEF StepShape
<1>. QED  BY <1>4 DEF LifeStep

LEMMA InitLife == Init => Life!LifeInit
<1>. SUFFICES ASSUME Init PROVE Life!LifeInit
  OBVIOUS
<1>1. \A a \in Alias : ~ Registered(a)
  BY DEF Init, Registered
<1>. QED  BY <1>1 DEF Life!LifeInit, Init, PhaseOf

\* Seen under an alias, the life of a participant is the one Lifecycle describes:
\* the statuses a client observes follow each other as its transitions say, a
\* turn has the number after the last one, whatever commands, start goroutines,
\* readers and keepalives interleave, and however often aliases are invited
\* again, as long as no start goroutine acts on the participant of a later
\* invitation.  (participant.go, session.go; refinement of Lifecycle.)
THEOREM SessionImplementsLifecycle == Spec /\ []StartsAlone => FollowsLifecycle
<1>1. IInv /\ Own /\ StartsAlone /\ [Next]_vars => [Life!LifeNext]_(Life!lives)
  BY StepLife
<1>. QED  BY <1>1, InitLife, OwnAlways, PTL DEF Spec, FollowsLifecycle, Life!LifeSpec

-----------------------------------------------------------------------------
(* Two invitations of an alias are too few for a start goroutine to outlive  *)
(* the registration of its participant: somebody has to crash a participant  *)
(* that is starting, which takes a reader of an earlier invitation, and the  *)
(* alias has to be invited again.                                            *)

InvitedTwice ==
    \A i, j, k \in Inc :
        i < j /\ j < k /\ k <= invited => ~ (aliasOf[i] = aliasOf[k] /\ aliasOf[j] = aliasOf[k])

Launching(i) == ex.pc \in {"reserve", "spawn"} /\ ex.agent = i
Starting(i) ==
    \/ spc[i] \in {"start", "failContext", "failCrash", "attach", "commit", "ready", "cleanup"}
    \/ Launching(i)

Earlier(i) == \E k \in Inc : k < i /\ aliasOf[k] = aliasOf[i]

\* The participant under an alias is the one of its latest invitation.
Latest ==
    \A a \in Alias, j \in Inc :
        Registered(a) /\ j <= invited /\ aliasOf[j] = a => j <= registry[a]

ReadersStarted == \A i \in Inc : rd[i].pc # "none" => spc[i] \in {"started", "done"}

Orphans ==
    \A i \in Inc :
        /\ Starting(i)
        /\ registry[aliasOf[i]] # i \/ part[i].status = "crashed"
        => Earlier(i)

LEMMA LatestStep ==
    ASSUME IInv, Latest, [Next]_vars
    PROVE  Latest'
<1>1. ASSUME NEW a \in Alias, InviteAdd(a)
      PROVE  Latest'
  <2>. DEFINE new == invited + 1
  <2>c. /\ new \in Inc /\ invited \in Nat /\ invited' = new
        /\ aliasOf'[new] = a /\ \A i \in Inc : i # new => aliasOf'[i] = aliasOf[i]
        /\ registry'[a] = new /\ \A b \in Alias : b # a => registry'[b] = registry[b]
    BY <1>1, InviteChanges
  <2>1. ASSUME NEW b \in Alias, NEW j \in Inc, Registered(b)', j <= new, aliasOf'[j] = b
        PROVE  j <= registry'[b]
    <3>1. CASE b = a
      BY <2>1, <2>c, <3>1
    <3>2. CASE b # a
      <4>1. j # new /\ j <= invited
        BY <2>1, <2>c, <3>2 DEF Inc
      <4>. QED  BY <2>1, <2>c, <3>2, <4>1 DEF Latest, Registered
    <3>. QED  BY <3>1, <3>2
  <2>. QED  BY <2>c, <2>1 DEF Latest
<1>2. ASSUME ~ \E a \in Alias : InviteAdd(a)
      PROVE  Latest'
  <2>1. UNCHANGED <<invited, aliasOf>>
    BY <1>2, LaunchStep
  <2>2. \A b \in Alias : registry'[b] \in {0, registry[b]}
    <3>1. ASSUME NEW i \in Inc, StartStep(i)
          PROVE  \A b \in Alias : registry'[b] \in {0, registry[b]}
      BY <3>1 DEF StartStep, StartOK, StartFail, StartFailContext, StartFailCrash,
         StartAttach, StartCommit, StartReady, StartAnnounce, StartCleanup, StartUndo,
         StartStop, Forget, tables, IInv, TypeOK
    <3>. QED
      BY <1>2, <3>1, NextShape
      DEF StepShape, Still, MovesHolder, Withdraws, Forget, InviteSpawn, Sweep, tables,
          IInv, TypeOK
  <2>. QED  BY <2>1, <2>2 DEF Latest, Registered
<1>. QED  BY <1>1, <1>2

LEMMA ReadersStep ==
    ASSUME IInv, Unspawned, ReadersStarted, [Next]_vars
    PROVE  ReadersStarted'
<1>1. ASSUME NEW i \in Inc, StartStep(i)
      PROVE  ReadersStarted'
  BY <1>1, StartChanges DEF ReadersStarted
<1>2. ASSUME NEW i \in Inc, ReaderStep(i)
      PROVE  ReadersStarted'
  <2>1. /\ rd[i].pc # "none" /\ spc' = spc
        /\ \A j \in Inc : j # i => rd'[j] = rd[j]
    BY <1>2 DEF ReaderStep, ReadMessage, ReadEnd, ReaderDropCheck, ReaderTrack, ReaderClose,
         ReaderMarkIdle, ReaderFinish, ReaderErrCheck, ReaderCrash, ReaderTerminal, ReaderGo,
         IInv, TypeOK
  <2>. QED  BY <2>1 DEF ReadersStarted
<1>3. ASSUME NEW a \in Alias, InviteAdd(a)
      PROVE  ReadersStarted'
  BY <1>3 DEF InviteAdd, ReadersStarted
<1>4. CASE ExecStep
  <2>1. rd' = rd /\ \A j \in Inc : spc'[j] = spc[j] \/ (spc[j] = "none")
    BY <1>4 DEF ExecStep, InviteReserve, InviteSpawn, RemoveStop, RemoveEvict, NextDelivery,
         CommandDone, AcquireNotice, Prepare, Recheck, SendAccepted, SendRefused, Begin,
         Track, Abort, ShutdownAwait, ShutdownCancelAll, ShutdownSnapshot, ShutdownStop,
         ShutdownDone, Unspawned, IInv, TypeOK
  <2>. QED  BY <2>1 DEF ReadersStarted
<1>5. CASE UserCommand
  <2>1. UNCHANGED <<rd, spc>>
    BY <1>5 DEF UserCommand, InviteAdd, RemoveDetach, RemoveUnattached, SendCommand,
       HandoffCommand, BroadcastCommand, FrozenBroadcast, BeginCommand, ShutdownBegin
  <2>. QED  BY <2>1 DEF ReadersStarted
<1>6. ASSUME NEW i \in Inc, AgentStep(i) \/ KeeperStep(i)
      PROVE  ReadersStarted'
  BY <1>6 DEF AgentStep, AgentOutput, AgentFinish, AgentFailTurn, AgentExit,
         KeeperStep, KeepaliveAccepted, KeepaliveFailed, KeepaliveRelease, ReadersStarted
<1>7. CASE Sweep \/ SweeperExit \/ UNCHANGED vars
  BY <1>7 DEF Sweep, SweeperExit, vars, ReadersStarted
<1>. QED  BY <1>1, <1>2, <1>4, <1>5, <1>6, <1>7 DEF Next

LEMMA OrphansStep ==
    ASSUME IInv, Own, Unspawned, Latest, ReadersStarted, Orphans, StartsAlone, [Next]_vars
    PROVE  Orphans'
<1>n. \A i \in Inc : Starting(i) => i <= invited /\ aliasOf[i] \in Alias
  BY DEF IInv, Named, Starting, Launching
<1>1. ASSUME NEW a \in Alias, InviteAdd(a)
      PROVE  Orphans'
  <2>. DEFINE new == invited + 1
  <2>c. /\ new \in Inc /\ invited \in Nat /\ invited' = new
        /\ aliasOf'[new] = a /\ \A i \in Inc : i # new => aliasOf'[i] = aliasOf[i]
        /\ registry'[a] = new /\ \A b \in Alias : b # a => registry'[b] = registry[b]
        /\ part'[new] = NewStarting /\ \A i \in Inc : i # new => part'[i] = part[i]
        /\ spc' = spc /\ spc[new] = "none"
        /\ ex'.pc = "reserve" /\ ex'.agent = new /\ ~ Registered(a)
    BY <1>1, InviteChanges
  <2>1. ASSUME NEW i \in Inc, Starting(i)',
               registry'[aliasOf'[i]] # i \/ part'[i].status = "crashed"
        PROVE  Earlier(i)'
    <3>1. i # new
      BY <2>1, <2>c DEF NewStarting
    <3>2. Starting(i)
      BY <2>1, <2>c, <3>1 DEF Starting, Launching
    <3>3. aliasOf[i] \in Alias /\ i <= invited
      BY <1>n, <3>2
    <3>4. registry[aliasOf[i]] # i \/ part[i].status = "crashed"
      <4>1. CASE aliasOf[i] = a
        BY <2>c, <3>3, <4>1 DEF Registered, Inc
      <4>2. CASE aliasOf[i] # a
        BY <2>1, <2>c, <3>1, <3>3, <4>2
      <4>. QED  BY <4>1, <4>2
    <3>5. PICK k \in Inc : k < i /\ aliasOf[k] = aliasOf[i]
      BY <3>2, <3>4 DEF Orphans, Earlier
    <3>6. k # new
      BY <2>c, <3>3, <3>5 DEF Inc
    <3>. QED  BY <2>c, <3>1, <3>5, <3>6 DEF Earlier
  <2>. QED  BY <2>1 DEF Orphans
<1>2. ASSUME ~ \E a \in Alias : InviteAdd(a)
      PROVE  Orphans'
  <2>1. Launched /\ UNCHANGED <<invited, aliasOf>>
    BY <1>2, LaunchStep
  <2>2. ASSUME NEW i \in Inc, Starting(i)',
               registry'[aliasOf[i]] # i \/ part'[i].status = "crashed",
               registry[aliasOf[i]] = i, part[i].status # "crashed", Starting(i)
        PROVE  Earlier(i)
    <3>. DEFINE b == aliasOf[i]
    <3>1. b \in Alias /\ Registered(b) /\ Holder(b) = part[i] /\ OwnOK(i)
      BY <1>n, <2>2 DEF Registered, Inc, Holder, Own
    <3>2. spc[i] \notin {"started", "done"} /\ ~ Holder(b).ready
      BY <2>2, <3>1 DEF Starting, Launching, Unspawned, OwnOK
    <3>3. CASE UNCHANGED <<registry, part>>
      BY <2>2, <3>3
    <3>4. ASSUME NEW a \in Alias, NEW p \in P, MovesHolder(a, p)
          PROVE  Earlier(i)
      <4>1. registry' = registry /\ part'[i].status = "crashed"
        BY <2>2, <3>4 DEF MovesHolder
      <4>2. registry[a] = i /\ part'[i] = p
        BY <2>2, <3>4, <4>1 DEF MovesHolder, IInv, TypeOK
      <4>3. a = b
        BY <2>2, <3>1, <4>2, RegistryUnique
      <4>4. p.status = "crashed" => Fails(a, Holder(a), p)
        <5>1. Moves(Holder(a), p) /\ p.status = "crashed" => Holder(a).status = "crashed"
          BY DEF Moves, HasActiveTurn
        <5>2. Holder(a).status # "crashed"
          BY <2>2, <4>2 DEF Holder
        <5>. QED  BY <3>4, <5>1, <5>2 DEF MovesHolder
      <4>5. PICK j \in Inc : rd[j].pc = "crash" /\ aliasOf[j] = a
        BY <4>1, <4>2, <4>4 DEF Fails
      <4>6. j # i /\ j <= invited
        BY <3>2, <4>5 DEF ReadersStarted, IInv, Named
      <4>7. j <= i
        BY <3>1, <4>2, <4>3, <4>5, <4>6 DEF Latest
      <4>8. j < i
        BY <4>6, <4>7 DEF Inc
      <4>. QED  BY <4>3, <4>5, <4>8 DEF Earlier
    <3>5. ASSUME NEW a \in Alias, Forget(a), Registered(a) => registry[a] # i
          PROVE  FALSE
      <4>1. registry'[b] = registry[b]
        BY <2>2, <3>1, <3>5 DEF Forget, IInv, TypeOK
      <4>2. part'[i] = part[i]
        BY <3>1, <3>5, <2>2 DEF Forget, Registered, Inc
      <4>. QED  BY <2>2, <4>1, <4>2
    <3>6. ASSUME NEW a \in Alias, Withdraws(a)
          PROVE  Earlier(i)
      <4>1. registry[a] = i => a = b
        BY <2>2, <3>1, RegistryUnique
      <4>2. ~ (Registered(a) /\ registry[a] = i)
        BY <2>2, <3>1, <3>2, <3>6, <4>1 DEF Withdraws
      <4>. QED  BY <3>5, <3>6, <4>2 DEF Withdraws
    <3>7. CASE Sweep
      <4>1. registry' = registry /\ part'[i].status = "crashed"
        BY <2>2, <3>7 DEF Sweep, tables
      <4>2. part'[i] = part[i] \/ part'[i] = BeginKeepalive(part[i])
        BY <3>7 DEF Sweep
      <4>3. BeginKeepalive(part[i]).status = "keepalive"
        <5>1. part[i] \in P
          BY DEF IInv, TypeOK, P
        <5>. QED  BY <5>1 DEF BeginKeepalive, P, Participants
      <4>. QED  BY <2>2, <4>1, <4>2, <4>3
    <3>8. ASSUME NEW j \in Inc, StartStep(j)
          PROVE  Earlier(i)
      <4>. USE DEF tables, flags, ids, agents, keepers, StartGo
      <4>a. aliasOf[j] \in Alias /\ j <= invited
        BY <3>8, StartChanges DEF IInv, Named
      <4>1. CASE StartOK(j) \/ StartFail(j) \/ StartFailContext(j) \/ StartAnnounce(j)
                 \/ StartUndo(j) \/ StartStop(j)
        BY <3>3, <4>1 DEF StartOK, StartFail, StartFailContext, StartAnnounce, StartUndo,
           StartStop
      <4>2. CASE StartFailCrash(j)
        <5>1. registry' = registry /\ part'[i].status = "crashed" /\ part' # part
          BY <2>2, <4>2 DEF StartFailCrash
        <5>2. registry[aliasOf[j]] = i
          BY <2>2, <4>2, <5>1 DEF StartFailCrash, SetHolderIf, SetHolder, IInv, TypeOK
        <5>3. aliasOf[j] = b
          BY <2>2, <3>1, <4>a, <5>2, RegistryUnique
        <5>4. j # i
          <6>1. j = i => spc'[i] = "done"
            BY <4>2 DEF StartFailCrash, IInv, TypeOK
          <6>2. j = i => ~ Launching(i)
            BY <4>2 DEF StartFailCrash, Launching, Unspawned
          <6>3. UNCHANGED ex
            BY <4>2 DEF StartFailCrash
          <6>. QED  BY <2>2, <6>1, <6>2, <6>3 DEF Starting, Launching
        <5>5. j <= i
          BY <2>2, <3>1, <4>a, <5>3 DEF Latest
        <5>6. j < i
          BY <5>4, <5>5 DEF Inc
        <5>. QED  BY <5>3, <5>6 DEF Earlier
      <4>3. ASSUME NEW ok, NEW p, SetHolderIf(ok, aliasOf[j], p), registry' = registry,
                   ok => p.status # "crashed"
            PROVE  FALSE
        <5>1. part'[i] = part[i] \/ (ok /\ part'[i] = p)
          BY <4>3 DEF SetHolderIf, SetHolder, IInv, TypeOK
        <5>. QED  BY <2>2, <4>3, <5>1
      <4>h. Registered(aliasOf[j]) => Holder(aliasOf[j]) \in P
        BY <4>a, HolderTyped DEF IInv
      <4>4. CASE StartAttach(j)
        <5>. DEFINE ok == Registered(aliasOf[j]) /\ CanAttach(Holder(aliasOf[j]))
                    p  == AttachAgent(Holder(aliasOf[j]), j)
        <5>1. SetHolderIf(ok, aliasOf[j], p) /\ registry' = registry
          BY <4>4 DEF StartAttach
        <5>2. ok => p.status # "crashed"
          BY <4>h, MovesStatus
        <5>. HIDE DEF ok, p
        <5>. QED  BY <4>3, <5>1, <5>2
      <4>5. CASE StartCommit(j)
        <5>. DEFINE ok == Registered(aliasOf[j]) /\ CanCommitIdle(Holder(aliasOf[j]))
                    p  == CommitIdle(Holder(aliasOf[j]))
        <5>1. SetHolderIf(ok, aliasOf[j], p) /\ registry' = registry
          BY <4>5 DEF StartCommit
        <5>2. ok => p.status # "crashed"
          BY <4>h, MovesStatus
        <5>. HIDE DEF ok, p
        <5>. QED  BY <4>3, <5>1, <5>2
      <4>6. CASE StartReady(j)
        <5>. DEFINE ok == Registered(aliasOf[j]) /\ CanSessionReady(Holder(aliasOf[j]))
                    p  == SessionReady(Holder(aliasOf[j]))
        <5>1. SetHolderIf(ok, aliasOf[j], p) /\ registry' = registry
          BY <4>6 DEF StartReady
        <5>2. ok => p.status # "crashed"
          BY <4>h, MovesStatus DEF CanSessionReady
        <5>. HIDE DEF ok, p
        <5>. QED  BY <4>3, <5>1, <5>2
      <4>7. CASE StartCleanup(j)
        <5>1. Registered(aliasOf[j]) => registry[aliasOf[j]] = j
          BY <4>7 DEF StartCleanup, StartsAlone
        <5>2. CASE j # i
          <6>1. Registered(aliasOf[j]) => registry[aliasOf[j]] # i
            BY <5>1, <5>2
          <6>. QED  BY <3>5, <4>7, <4>a, <6>1 DEF StartCleanup
        <5>3. CASE j = i
          <6>1. spc'[i] = "undo" /\ ~ Launching(i) /\ UNCHANGED ex
            BY <4>7, <5>3 DEF StartCleanup, IInv, TypeOK, Launching, Unspawned
          <6>. QED  BY <2>2, <6>1 DEF Starting, Launching
        <5>. QED  BY <5>2, <5>3
      <4>. QED  BY <3>8, <4>1, <4>2, <4>4, <4>5, <4>6, <4>7 DEF StartStep
    <3>. QED
      BY <1>2, <3>3, <3>4, <3>6, <3>7, <3>8, NextShape
      DEF StepShape, Still, InviteSpawn
  <2>3. ASSUME NEW i \in Inc, Starting(i)'
        PROVE  Starting(i)
    <3>1. Launching(i)' => Launching(i)
      BY <2>1 DEF Launched, Launching
    <3>2. ASSUME NEW j \in Inc, StartStep(j)
          PROVE  Starting(i)
      BY <2>3, <3>1, <3>2, StartChanges DEF Starting
    <3>3. CASE InviteSpawn
      <4>1. spc'[i] = spc[i] \/ ex.agent = i
        BY <3>3 DEF InviteSpawn, IInv, TypeOK
      <4>. QED  BY <2>3, <3>1, <3>3, <4>1 DEF Starting, Launching, InviteSpawn
    <3>4. CASE spc' = spc
      BY <2>3, <3>1, <3>4 DEF Starting
    <3>. QED
      BY <1>2, <3>2, <3>3, <3>4, NextShape
      DEF StepShape, Still, MovesHolder, Withdraws, Sweep
  <2>4. ASSUME NEW i \in Inc, Starting(i)',
               registry'[aliasOf'[i]] # i \/ part'[i].status = "crashed"
        PROVE  Earlier(i)'
    <3>1. Starting(i)
      BY <2>3, <2>4
    <3>2. Earlier(i)
      BY <2>1, <2>2, <2>4, <3>1 DEF Orphans
    <3>. QED  BY <2>1, <3>2 DEF Earlier
  <2>. QED  BY <2>4 DEF Orphans
<1>. QED  BY <1>1, <1>2

LEMMA TwiceAlone ==
    ASSUME IInv, Latest, Orphans, InvitedTwice
    PROVE  StartsAlone
<1>. SUFFICES ASSUME NEW i \in Inc, spc[i] \in {"attach", "commit", "ready", "cleanup"},
                     Registered(aliasOf[i]), registry[aliasOf[i]] # i
              PROVE  FALSE
  BY DEF StartsAlone
<1>. DEFINE a == aliasOf[i]
            r == registry[a]
<1>1. i <= invited /\ a \in Alias
  BY DEF IInv, Named
<1>2. r \in Inc /\ r <= invited /\ aliasOf[r] = a
  BY <1>1, HolderTyped DEF IInv, RegistryOK
<1>3. i < r
  <2>1. i <= r
    BY <1>1 DEF Latest
  <2>. QED  BY <1>2, <2>1 DEF Inc
<1>4. PICK k \in Inc : k < i /\ aliasOf[k] = a
  BY DEF Orphans, Starting, Earlier
<1>. QED  BY <1>2, <1>3, <1>4 DEF InvitedTwice

LEMMA TwiceSuffices == Spec /\ []InvitedTwice => []StartsAlone
<1>. DEFINE J == IInv /\ Own /\ Unspawned /\ Latest /\ ReadersStarted /\ Orphans
<1>1. Init => J
  <2>. SUFFICES ASSUME Init PROVE J
    OBVIOUS
  <2>1. IInv /\ Own /\ Unspawned
    BY InitInv, OwnInit, UnspawnedInit
  <2>2. Latest /\ ReadersStarted /\ Orphans
    BY DEF Init, Latest, ReadersStarted, Orphans, Starting, Launching, ExecIdle, Registered
  <2>. QED  BY <2>1, <2>2
<1>2. J /\ InvitedTwice => StartsAlone
  BY TwiceAlone
<1>3. J /\ InvitedTwice /\ [Next]_vars => J'
  BY <1>2, NextInv, OwnStep, UnspawnedStep, LatestStep, ReadersStep, OrphansStep
<1>. HIDE DEF J
<1>. QED  BY <1>1, <1>2, <1>3, PTL DEF Spec

\* While no alias is invited a third time the session implements Lifecycle,
\* without any condition on the goroutines.
COROLLARY TwiceImplementsLifecycle == Spec /\ []InvitedTwice => FollowsLifecycle
BY TwiceSuffices, SessionImplementsLifecycle, PTL

-----------------------------------------------------------------------------
(* The handle of a delivery.  A participant that is ready, or that has its   *)
(* agent, stays what it is while a delivery is under way.                    *)

\* What a start goroutine does to the registry and the participants.
StartShape(i) ==
    LET a == aliasOf[i]
        h == Holder(a)
    IN
    \/ UNCHANGED <<registry, part>>
    \/ \E p \in P :
         /\ Registered(a)
         /\ registry' = registry
         /\ part' = [part EXCEPT ![registry[a]] = p]
         /\ h.agent # 0 => p.agent = h.agent
         /\ h.ready => p.ready
         /\ p.ready => h.ready \/ spc[registry[a]] = "ready"
         /\ p.status = "crashed" => h.status = "crashed" \/ spc[i] = "failCrash"
    \/ /\ Forget(a)
       /\ Registered(a) => ~ h.ready

LEMMA StartMoves ==
    ASSUME IInv, Own, StartsAlone, NEW i \in Inc, StartStep(i)
    PROVE  StartShape(i) /\ aliasOf[i] \in Alias
<1>. USE DEF tables, flags, ids, agents, keepers, StartGo
<1>. DEFINE a == aliasOf[i]
            h == Holder(a)
<1>a. a \in Alias
  BY StartChanges DEF IInv, Named
<1>. SUFFICES StartShape(i)
  BY <1>a
<1>h. Registered(a) => registry[a] \in Inc /\ h \in P /\ OwnOK(registry[a]) /\ h = part[registry[a]]
  BY <1>a, HolderTyped DEF IInv, Own, Holder
<1>u. spc[i] \in {"attach", "commit", "ready", "cleanup"} /\ Registered(a) => registry[a] = i
  BY DEF StartsAlone
<1>1. CASE StartOK(i) \/ StartFail(i) \/ StartFailContext(i) \/ StartAnnounce(i)
             \/ StartUndo(i) \/ StartStop(i)
  BY <1>1 DEF StartOK, StartFail, StartFailContext, StartAnnounce, StartUndo,
     StartStop, StartShape
<1>2. ASSUME NEW ok, NEW p, ok => Registered(a) /\ p \in P,
             SetHolderIf(ok, a, p), registry' = registry,
             ok /\ h.agent # 0 => p.agent = h.agent,
             ok /\ h.ready => p.ready,
             ok /\ p.ready => h.ready \/ spc[registry[a]] = "ready",
             ok /\ p.status = "crashed" => h.status = "crashed" \/ spc[i] = "failCrash"
      PROVE  StartShape(i)
  BY <1>2 DEF SetHolderIf, SetHolder, StartShape
<1>3. CASE StartFailCrash(i)
  <2>. DEFINE ok == Registered(a)
              p  == Crash(h)
  <2>1. ok => Registered(a) /\ p \in P /\ p.agent = h.agent /\ p.ready = h.ready
    BY <1>h, PlainTyped DEF Crash, ResetTo, P, Participants
  <2>2. SetHolderIf(ok, a, p) /\ registry' = registry /\ spc[i] = "failCrash"
    BY <1>3 DEF StartFailCrash
  <2>. HIDE DEF ok, p
  <2>. QED  BY <1>2, <2>1, <2>2
<1>4. CASE StartAttach(i)
  <2>. DEFINE ok == Registered(a) /\ CanAttach(h)
              p  == AttachAgent(h, i)
  <2>1. ok => /\ Registered(a) /\ p \in P /\ h.agent = 0 /\ p.ready = h.ready
              /\ p.status # "crashed"
    BY <1>h, <1>u, <1>4, AttachTyped DEF StartAttach, OwnOK, AttachAgent, P, Participants
  <2>2. SetHolderIf(ok, a, p) /\ registry' = registry
    BY <1>4 DEF StartAttach
  <2>. HIDE DEF ok, p
  <2>. QED  BY <1>2, <2>1, <2>2
<1>5. CASE StartCommit(i)
  <2>. DEFINE ok == Registered(a) /\ CanCommitIdle(h)
              p  == CommitIdle(h)
  <2>1. ok => /\ Registered(a) /\ p \in P /\ p.agent = h.agent /\ p.ready = h.ready
              /\ p.status # "crashed"
    BY <1>h, PlainTyped DEF CommitIdle, P, Participants
  <2>2. SetHolderIf(ok, a, p) /\ registry' = registry
    BY <1>5 DEF StartCommit
  <2>. HIDE DEF ok, p
  <2>. QED  BY <1>2, <2>1, <2>2
<1>6. CASE StartReady(i)
  <2>. DEFINE ok == Registered(a) /\ CanSessionReady(h)
              p  == SessionReady(h)
  <2>1. ok => /\ Registered(a) /\ p \in P /\ p.agent = h.agent /\ p.ready
              /\ p.status = h.status /\ spc[registry[a]] = "ready"
    BY <1>h, <1>u, <1>6, PlainTyped DEF StartReady, SessionReady, P, Participants
  <2>2. SetHolderIf(ok, a, p) /\ registry' = registry
    BY <1>6 DEF StartReady
  <2>. HIDE DEF ok, p
  <2>. QED  BY <1>2, <2>1, <2>2
<1>7. CASE StartCleanup(i)
  BY <1>h, <1>u, <1>7 DEF StartCleanup, StartShape, OwnOK
<1>. QED  BY <1>1, <1>3, <1>4, <1>5, <1>6, <1>7 DEF StartStep

\* A step that changes one participant, in terms of the aliases.
LEMMA SetKept ==
    ASSUME IInv, NEW a \in Alias, Registered(a), NEW p, registry' = registry,
           part' = [part EXCEPT ![registry[a]] = p], NEW b \in Alias, Registered(b)
    PROVE  Registered(b)' /\ Holder(b)' = IF b = a THEN p ELSE Holder(b)
<1>1. registry[a] \in Inc /\ registry[b] \in Inc
  BY HolderTyped DEF IInv
<1>2. b # a => registry[b] # registry[a]
  BY RegistryUnique
<1>. QED  BY <1>1, <1>2 DEF IInv, TypeOK, Holder, Registered

LEMMA ForgetKept ==
    ASSUME IInv, NEW a \in Alias, Forget(a), NEW b \in Alias
    PROVE  /\ b # a => registry'[b] = registry[b]
           /\ b # a /\ Registered(b) => Registered(b)' /\ Holder(b)' = Holder(b)
           /\ ~ Registered(a)'
<1>1. registry' = [registry EXCEPT ![a] = 0]
  BY DEF Forget
<1>2. (b # a => registry'[b] = registry[b]) /\ ~ Registered(a)'
  BY <1>1 DEF Registered, IInv, TypeOK
<1>3. ASSUME b # a, Registered(b)
      PROVE  Registered(b)' /\ Holder(b)' = Holder(b)
  <2>1. registry[b] \in Inc /\ registry[b] # registry[a]
    BY <1>3, HolderTyped, RegistryUnique DEF IInv
  <2>2. part'[registry[b]] = part[registry[b]]
    BY <2>1 DEF Forget
  <2>. QED  BY <1>2, <1>3, <2>2 DEF Registered, Holder
<1>. QED  BY <1>2, <1>3

\* Unless an alias is invited, whoever is registered was, with its agent and
\* readiness at least.
Keeps(b) ==
    /\ Registered(b)' =>
         /\ Registered(b)
         /\ registry'[b] = registry[b]
         /\ Holder(b).agent # 0 => Holder(b)'.agent = Holder(b).agent
         /\ Holder(b).ready => Holder(b)'.ready
         /\ Holder(b)'.ready => Holder(b).ready \/ spc[registry[b]] = "ready"
         /\ Holder(b)'.status = "crashed" =>
              \/ Holder(b).status = "crashed"
              \/ \E j \in Inc : aliasOf[j] = b /\ (rd[j].pc = "crash" \/ spc[j] = "failCrash")
    /\ Registered(b) /\ Holder(b).ready /\ ex.pc \notin {"idle", "evict"} => Registered(b)'

LEMMA HolderKept ==
    ASSUME IInv, Own, StartsAlone, [Next]_vars, NEW b \in Alias,
           ~ \E a \in Alias : InviteAdd(a)
    PROVE  Keeps(b)
<1>1. ASSUME UNCHANGED <<registry, part>>
      PROVE  Keeps(b)
  BY <1>1 DEF Keeps, Registered, Holder
<1>2. ASSUME NEW a \in Alias, Registered(a), NEW p, registry' = registry,
             part' = [part EXCEPT ![registry[a]] = p],
             Holder(a).agent # 0 => p.agent = Holder(a).agent,
             Holder(a).ready => p.ready,
             p.ready => Holder(a).ready \/ spc[registry[a]] = "ready",
             p.status = "crashed" =>
               \/ Holder(a).status = "crashed"
               \/ \E j \in Inc : aliasOf[j] = a /\ (rd[j].pc = "crash" \/ spc[j] = "failCrash")
      PROVE  Keeps(b)
  <2>1. CASE Registered(b)
    <3>1. Registered(b)' /\ Holder(b)' = IF b = a THEN p ELSE Holder(b)
      BY <1>2, <2>1, SetKept
    <3>. QED  BY <1>2, <2>1, <3>1 DEF Keeps
  <2>2. CASE ~ Registered(b)
    BY <1>2, <2>2 DEF Keeps, Registered
  <2>. QED  BY <2>1, <2>2
<1>3. ASSUME NEW a \in Alias, Forget(a),
             Registered(a) /\ Holder(a).ready => ex.pc \in {"idle", "evict"}
      PROVE  Keeps(b)
  <2>1. Registered(b)' => b # a /\ Registered(b)
    BY <1>3, ForgetKept DEF Registered
  <2>2. b = a => Keeps(b)
    BY <1>3, <2>1 DEF Keeps
  <2>3. b # a => Keeps(b)
    BY <1>3, <2>1, ForgetKept DEF Keeps
  <2>. QED  BY <2>2, <2>3
<1>4. CASE Sweep
  <2>1. registry' = registry /\ \A i \in Inc : part'[i] = part[i] \/ part'[i] = BeginKeepalive(part[i])
    BY <1>4 DEF Sweep, tables
  <2>2. \A i \in Inc : /\ part'[i].agent = part[i].agent /\ part'[i].ready = part[i].ready
                       /\ part'[i].status = "crashed" => part[i].status = "crashed"
    <3>1. ASSUME NEW p \in P
          PROVE  /\ BeginKeepalive(p).agent = p.agent /\ BeginKeepalive(p).ready = p.ready
                 /\ BeginKeepalive(p).status = "keepalive"
      BY DEF BeginKeepalive, P, Participants
    <3>. QED  BY <2>1, <3>1 DEF IInv, TypeOK, P
  <2>3. Registered(b) => registry[b] \in Inc
    BY HolderTyped DEF IInv
  <2>. QED  BY <2>1, <2>2, <2>3 DEF Keeps, Registered, Holder
<1>5. ASSUME NEW i \in Inc, StartStep(i)
      PROVE  Keeps(b)
  <2>1. StartShape(i) /\ aliasOf[i] \in Alias
    BY <1>5, StartMoves
  <2>. QED  BY <1>1, <1>2, <1>3, <2>1 DEF StartShape
<1>6. ASSUME NEW a \in Alias, NEW p \in P, MovesHolder(a, p)
      PROVE  Keeps(b)
  <2>1. /\ p.agent = Holder(a).agent /\ p.ready = Holder(a).ready
        /\ p.status = "crashed" =>
             \/ Holder(a).status = "crashed"
             \/ \E j \in Inc : aliasOf[j] = a /\ rd[j].pc = "crash"
    BY <1>6 DEF MovesHolder, Moves, Fails, HasActiveTurn
  <2>. QED  BY <1>2, <1>6, <2>1 DEF MovesHolder
<1>7. ASSUME NEW a \in Alias, Withdraws(a)
      PROVE  Keeps(b)
  BY <1>3, <1>7 DEF Withdraws
<1>. QED
  BY <1>1, <1>4, <1>5, <1>6, <1>7, NextShape DEF StepShape, Still, InviteSpawn

\* A delivery about to be sent goes to a registered participant that is ready,
\* through its handle if through any.
Sendable == ex.pc = "send" =>
    /\ Registered(ex.alias)
    /\ Holder(ex.alias).ready
    /\ ex.agent \in {0, registry[ex.alias]}

\* A broadcast took the handle before it prepares the participant.
Aimed == ex.kind = "broadcast" =>
    /\ ex.pc # "acquire"
    /\ ex.pc = "prepare" /\ Registered(ex.alias) => ex.agent \in {0, registry[ex.alias]}

Handled == Sendable /\ Aimed

\* Unless its recipients were frozen earlier, it only meets participants that
\* have an agent.
Bound ==
    /\ ex.pc = "send" => ex.agent # 0
    /\ ex.kind = "broadcast" =>
         /\ \A b \in ex.todo : Registered(b) => Holder(b).agent # 0
         /\ ex.pc = "prepare" => ex.agent # 0

LEMMA OwnAgent ==
    ASSUME IInv, Own, NEW b \in Alias, Registered(b)
    PROVE  Holder(b).agent \in {0, registry[b]}
BY DEF Own, OwnOK, Holder

\* Who leaves the executing command alone.
LEMMA OthersFrame ==
    ASSUME \/ \E i \in Inc : AgentStep(i) \/ StartStep(i) \/ ReaderStep(i) \/ KeeperStep(i)
           \/ Sweep \/ SweeperExit \/ UNCHANGED vars
    PROVE  UNCHANGED ex
<1>2. ASSUME NEW i \in Inc, AgentStep(i) \/ StartStep(i) \/ ReaderStep(i) \/ KeeperStep(i)
      PROVE  UNCHANGED ex
  BY <1>2 DEF AgentStep, AgentOutput, AgentFinish, AgentFailTurn, AgentExit,
     StartStep, StartOK, StartFail, StartFailContext, StartFailCrash,
     StartAttach, StartCommit, StartReady, StartAnnounce, StartCleanup, StartUndo, StartStop,
     ReaderStep, ReadMessage, ReadEnd, ReaderDropCheck, ReaderTrack, ReaderClose,
     ReaderMarkIdle, ReaderFinish, ReaderErrCheck, ReaderCrash, ReaderTerminal,
     KeeperStep, KeepaliveAccepted, KeepaliveFailed, KeepaliveRelease
<1>3. Sweep \/ SweeperExit \/ UNCHANGED vars => UNCHANGED ex
  BY DEF Sweep, SweeperExit, vars
<1>. QED  BY <1>2, <1>3

LEMMA HandledFrame ==
    ASSUME IInv, Own, StartsAlone, [Next]_vars, UNCHANGED ex,
           ~ \E a \in Alias : InviteAdd(a)
    PROVE  (Handled => Handled') /\ (Bound => Bound')
<1>1. ex \in Execs /\ (ex.pc \in {"send", "prepare"} => ex.alias \in Alias)
  BY DEF IInv, TypeOK, Named
<1>2. \A b \in Alias : Keeps(b)
  BY HolderKept
<1>3. ex.todo \subseteq Alias
  BY <1>1 DEF Execs
<1>4. Handled => Sendable'
  BY <1>1, <1>2 DEF Handled, Sendable, Keeps, Registered
<1>5. Handled => Aimed'
  BY <1>1, <1>2 DEF Handled, Aimed, Keeps
<1>6. Bound => Bound'
  BY <1>1, <1>2, <1>3 DEF Bound, Keeps
<1>. QED  BY <1>4, <1>5, <1>6 DEF Handled

\* A command goes on to the rest of its deliveries only.
LEMMA GoesOn ==
    ASSUME IInv, ExecStep, ex'.kind = "broadcast"
    PROVE  ex.kind = "broadcast" /\ ex'.todo \subseteq ex.todo
<1>1. ex \in Execs
  BY DEF IInv, TypeOK
<1>2. /\ Skipped.kind = "broadcast" => ex.kind = "broadcast" /\ Skipped.todo = ex.todo
      /\ Delivered.kind = "broadcast" => ex.kind = "broadcast" /\ Delivered.todo = ex.todo
      /\ ExecIdle.kind = "none"
  BY DEF Skipped, Delivered, Continue, ExecIdle
<1>3. CASE InviteReserve \/ InviteSpawn \/ RemoveStop \/ RemoveEvict \/ CommandDone
  BY <1>1, <1>2, <1>3 DEF InviteReserve, InviteSpawn, RemoveStop, RemoveEvict, CommandDone, Execs
<1>4. ASSUME NEW a \in Alias, NextDelivery(a)
      PROVE  ex.kind = "broadcast" /\ ex'.todo \subseteq ex.todo
  BY <1>4 DEF NextDelivery, Continue, ExecIdle
<1>5. CASE AcquireNotice \/ Prepare \/ Recheck
  BY <1>1, <1>2, <1>5 DEF AcquireNotice, Prepare, Recheck, Execs
<1>6. CASE SendAccepted \/ SendRefused \/ Begin \/ Track \/ Abort
  BY <1>1, <1>2, <1>6 DEF SendAccepted, SendRefused, Begin, Track, Abort, Execs
<1>7. CASE ShutdownAwait \/ ShutdownCancelAll \/ ShutdownSnapshot \/ ShutdownDone
             \/ \E i \in Inc : ShutdownStop(i)
  BY <1>1, <1>7 DEF ShutdownAwait, ShutdownCancelAll, ShutdownSnapshot, ShutdownDone,
     ShutdownStop, Execs
<1>. QED  BY <1>3, <1>4, <1>5, <1>6, <1>7 DEF ExecStep

\* Where the executing command can have come from.
LEMMA ComesFrom ==
    ASSUME IInv, ExecStep
    PROVE  /\ ex.pc # "idle"
           /\ ex'.pc = "send" => AcquireNotice \/ Prepare \/ Recheck
           /\ ex'.pc = "prepare" => AcquireNotice \/ \E a \in Alias : NextDelivery(a)
           /\ ex'.pc = "acquire" => \E a \in Alias : NextDelivery(a)
           /\ ex'.pc \notin {"stop", "evict"}
           /\ ex'.pc = "snapshot" => ShutdownCancelAll
           /\ ex'.pc = "stopAll" => ShutdownSnapshot \/ \E i \in Inc : ShutdownStop(i)
           /\ ex'.pc = "down" => ShutdownDone
<1>. DEFINE Goal ==
           /\ ex.pc # "idle"
           /\ ex'.pc = "send" => AcquireNotice \/ Prepare \/ Recheck
           /\ ex'.pc = "prepare" => AcquireNotice \/ \E a \in Alias : NextDelivery(a)
           /\ ex'.pc = "acquire" => \E a \in Alias : NextDelivery(a)
           /\ ex'.pc \notin {"stop", "evict"}
           /\ ex'.pc = "snapshot" => ShutdownCancelAll
           /\ ex'.pc = "stopAll" => ShutdownSnapshot \/ \E i \in Inc : ShutdownStop(i)
           /\ ex'.pc = "down" => ShutdownDone
<1>1. ex \in Execs
  BY DEF IInv, TypeOK
<1>2. {Skipped.pc, Delivered.pc} \subseteq {"next", "idle"} /\ ExecIdle.pc = "idle"
  BY DEF Skipped, Delivered, Continue, ExecIdle
<1>3. CASE InviteReserve \/ InviteSpawn \/ RemoveStop \/ RemoveEvict \/ CommandDone
  <2>1. ex.pc # "idle" /\ ex'.pc \in {"spawn", "idle"}
    BY <1>1, <1>2, <1>3 DEF InviteReserve, InviteSpawn, RemoveStop, RemoveEvict, CommandDone, Execs
  <2>. QED  BY <2>1
<1>4. ASSUME NEW a \in Alias, NextDelivery(a)
      PROVE  Goal
  <2>1. ex.pc # "idle" /\ ex'.pc \in {"next", "acquire", "prepare"}
    BY <1>4 DEF NextDelivery, Continue, ExecIdle
  <2>. QED  BY <1>4, <2>1
<1>5. CASE SendAccepted \/ SendRefused \/ Begin \/ Track \/ Abort
  <2>1. ex.pc # "idle" /\ ex'.pc \in {"next", "idle", "begin", "track", "abort"}
    BY <1>1, <1>2, <1>5 DEF SendAccepted, SendRefused, Begin, Track, Abort, Execs
  <2>. QED  BY <2>1
<1>6. CASE AcquireNotice \/ Prepare \/ Recheck
  <2>1. ex.pc # "idle" /\ ex'.pc \in {"next", "idle", "send", "prepare", "recheck"}
    <3>1. AcquireNotice => ex.pc # "idle" /\ ex'.pc \in {"next", "idle", "send", "prepare"}
      BY <1>1, <1>2 DEF AcquireNotice, Execs
    <3>2. Prepare => ex.pc # "idle" /\ ex'.pc \in {"next", "idle", "send", "recheck"}
      BY <1>1, <1>2 DEF Prepare, Execs
    <3>3. Recheck => ex.pc # "idle" /\ ex'.pc \in {"next", "idle", "send"}
      BY <1>1, <1>2 DEF Recheck, Execs
    <3>. QED  BY <1>6, <3>1, <3>2, <3>3
  <2>2. ex'.pc = "prepare" => AcquireNotice
    BY <1>1, <1>2, <1>6 DEF AcquireNotice, Prepare, Recheck, Execs
  <2>. QED  BY <1>6, <2>1, <2>2
<1>7. CASE ShutdownAwait \/ ShutdownCancelAll \/ ShutdownSnapshot \/ ShutdownDone
             \/ \E i \in Inc : ShutdownStop(i)
  BY <1>1, <1>7 DEF ShutdownAwait, ShutdownCancelAll, ShutdownSnapshot, ShutdownDone,
     ShutdownStop, Execs
<1>. QED  BY <1>3, <1>4, <1>5, <1>6, <1>7 DEF ExecStep

LEMMA NoInvite ==
    ASSUME IInv, ExecStep
    PROVE  [Next]_vars /\ ~ \E b \in Alias : InviteAdd(b)
<1>1. \A b \in Alias : InviteAdd(b) => ex.pc = "idle"
  BY DEF InviteAdd
<1>. QED  BY <1>1, ComesFrom DEF Next

LEMMA ExecHandled ==
    ASSUME IInv, Own, StartsAlone, Handled, ExecStep
    PROVE  Handled' /\ (Bound => Bound')
<1>t. ex \in Execs
  BY DEF IInv, TypeOK
<1>k. \A b \in Alias : Keeps(b)
  BY NoInvite, HolderKept
<1>1. ASSUME ex'.pc = "send"
      PROVE  /\ Registered(ex.alias)' /\ Holder(ex.alias)'.ready
             /\ ex'.agent \in {0, registry'[ex'.alias]}
             /\ Bound => ex'.agent # 0
  <2>1. PICK a \in Alias : a = ex.alias
    BY <1>1, ComesFrom DEF IInv, Named, AcquireNotice, Prepare, Recheck
  <2>2. CASE AcquireNotice \/ Recheck
    <3>1. Skipped.pc # "send"
      BY DEF Skipped, Continue, ExecIdle
    <3>2. /\ Registered(a) /\ IsSendable(Holder(a)) /\ UNCHANGED <<registry, part>>
          /\ ex'.alias = a /\ ex'.agent = Holder(a).agent
      BY <1>t, <1>1, <2>1, <2>2, <3>1 DEF AcquireNotice, Recheck, Execs, tables
    <3>3. Holder(a).agent = registry[a] /\ Holder(a).agent # 0 /\ Holder(a).ready
      BY <2>1, <3>2, OwnAgent DEF IsSendable
    <3>. QED  BY <2>1, <3>2, <3>3 DEF Registered, Holder
  <2>3. CASE Prepare
    <3>1. Skipped.pc # "send"
      BY DEF Skipped, Continue, ExecIdle
    <3>2. /\ Registered(a) /\ IsReadyForWork(Holder(a)) /\ registry' = registry
          /\ ex.kind = "broadcast" /\ ex.pc = "prepare"
          /\ ex'.alias = a /\ ex'.agent = ex.agent
      BY <1>t, <1>1, <2>1, <2>3, <3>1 DEF Prepare, Execs, tables
    <3>3. ex.agent \in {0, registry[a]} /\ Holder(a).ready /\ (Bound => ex.agent # 0)
      BY <2>1, <3>2 DEF Handled, Aimed, Bound, IsReadyForWork
    <3>4. Registered(a)'
      BY <3>2 DEF Registered
    <3>5. Holder(a)'.ready
      BY <1>k, <2>1, <3>3, <3>4 DEF Keeps
    <3>. QED  BY <2>1, <3>2, <3>3, <3>4, <3>5
  <2>. QED  BY <1>1, <2>2, <2>3, ComesFrom
<1>2. ASSUME ex'.kind = "broadcast", ex'.pc \in {"prepare", "acquire"}
      PROVE  /\ ex'.pc # "acquire"
             /\ Registered(ex.alias)' => ex'.agent \in {0, registry'[ex'.alias]}
             /\ Bound => ex'.agent # 0
  <2>1. ex.kind = "broadcast" /\ ex'.todo \subseteq ex.todo /\ ex.todo \subseteq Alias
    BY <1>t, <1>2, GoesOn DEF Execs
  <2>2. ~ AcquireNotice
    BY <2>1 DEF AcquireNotice, Handled, Aimed
  <2>3. PICK b \in Alias : NextDelivery(b)
    BY <1>2, <2>2, ComesFrom
  <2>4. /\ b \in ex.todo /\ Registered(b) /\ ex'.pc = "prepare"
        /\ ex'.alias = b /\ ex'.agent = Holder(b).agent
        /\ UNCHANGED <<registry, part>>
    BY <1>2, <2>1, <2>3 DEF NextDelivery, Continue, ExecIdle, tables
  <2>5. Bound => Holder(b).agent # 0
    BY <2>1, <2>4 DEF Bound
  <2>6. Holder(b).agent \in {0, registry[b]}
    BY <2>4, OwnAgent
  <2>. QED  BY <2>4, <2>5, <2>6
<1>3. ASSUME ex'.kind = "broadcast", Bound
      PROVE  \A b \in ex'.todo : Registered(b)' => Holder(b)'.agent # 0
  <2>1. ex.kind = "broadcast" /\ ex'.todo \subseteq ex.todo /\ ex.todo \subseteq Alias
    BY <1>t, <1>3, GoesOn DEF Execs
  <2>. QED  BY <1>k, <1>3, <2>1 DEF Keeps, Bound
<1>4. Handled'
  BY <1>1, <1>2 DEF Handled, Sendable, Aimed, Registered, Holder
<1>5. Bound => Bound'
  BY <1>1, <1>2, <1>3 DEF Bound
<1>. QED  BY <1>4, <1>5

\* A command that begins.
LEMMA UserBegins ==
    ASSUME UserCommand
    PROVE  /\ ex.pc = "idle"
           /\ ex'.pc \in {"reserve", "stop", "idle", "evict", "next", "prepare", "awaitSweeper"}
           /\ ex'.pc = "stop" => \E a \in Alias : RemoveDetach(a)
           /\ ex'.pc = "evict" => \E a \in Alias : RemoveUnattached(a)
           /\ ex'.kind = "broadcast" =>
                /\ ex'.pc = "next"
                /\ \E aliases \in SUBSET Alias :
                     BroadcastCommand(aliases)
                       \/ ("frozenBroadcast" \in Commands /\ FrozenBroadcast(aliases))
<1>1. ASSUME NEW a \in Alias, InviteAdd(a) \/ RemoveDetach(a) \/ RemoveUnattached(a)
      PROVE  /\ ex.pc = "idle" /\ ex'.pc \in {"reserve", "stop", "idle", "evict"}
             /\ ex'.pc = "stop" => RemoveDetach(a)
             /\ ex'.pc = "evict" => RemoveUnattached(a)
             /\ ex'.kind = "none"
  <2>1. InviteAdd(a) => ex.pc = "idle" /\ ex'.pc = "reserve" /\ ex'.kind = "none"
    BY DEF InviteAdd, ExecIdle
  <2>2. RemoveDetach(a) => ex.pc = "idle" /\ ex'.pc \in {"stop", "idle"} /\ ex'.kind = "none"
    BY DEF RemoveDetach, ExecIdle
  <2>3. RemoveUnattached(a) => ex.pc = "idle" /\ ex'.pc = "evict" /\ ex'.kind = "none"
    BY DEF RemoveUnattached, ExecIdle
  <2>. QED  BY <1>1, <2>1, <2>2, <2>3
<1>2. ASSUME NEW a \in Alias, NEW aliases,
             SendCommand(a, aliases) \/ HandoffCommand(a, aliases)
      PROVE  ex.pc = "idle" /\ ex'.pc \in {"next", "prepare"} /\ ex'.kind # "broadcast"
  BY <1>2 DEF SendCommand, HandoffCommand, BeginCommand, ExecIdle
<1>3. ASSUME NEW aliases, BroadcastCommand(aliases) \/ FrozenBroadcast(aliases)
      PROVE  ex.pc = "idle" /\ ex'.pc = "next"
  BY <1>3 DEF BroadcastCommand, FrozenBroadcast, BeginCommand, ExecIdle
<1>4. ShutdownBegin => ex.pc = "idle" /\ ex'.pc = "awaitSweeper" /\ ex'.kind = "none"
  BY DEF ShutdownBegin, ExecIdle
<1>5. CASE \E a \in Alias : InviteAdd(a)
  BY <1>1, <1>5
<1>6. CASE \E a \in Alias : RemoveDetach(a) \/ RemoveUnattached(a)
  BY <1>1, <1>6
<1>7. CASE \E a \in Alias : \E aliases \in SUBSET (Alias \ {a}) : SendCommand(a, aliases)
  BY <1>2, <1>7
<1>8. CASE \E a \in Alias, aliases \in SUBSET Alias : HandoffCommand(a, aliases)
  BY <1>2, <1>8
<1>9. CASE \E aliases \in SUBSET Alias : BroadcastCommand(aliases)
  <2>1. ex.pc = "idle" /\ ex'.pc = "next"
    BY <1>3, <1>9
  <2>2. \E aliases \in SUBSET Alias :
           BroadcastCommand(aliases)
             \/ ("frozenBroadcast" \in Commands /\ FrozenBroadcast(aliases))
    BY <1>9
  <2>. QED  BY <2>1, <2>2
<1>10. CASE "frozenBroadcast" \in Commands /\ \E aliases \in SUBSET Alias : FrozenBroadcast(aliases)
  <2>1. ex.pc = "idle" /\ ex'.pc = "next"
    BY <1>3, <1>10
  <2>. QED  BY <1>10, <2>1
<1>11. CASE ShutdownBegin
  BY <1>4, <1>11
<1>. QED  BY <1>5, <1>6, <1>7, <1>8, <1>9, <1>10, <1>11, Zenon DEF UserCommand

LEMMA UserHandled ==
    ASSUME IInv, Own, StartsAlone, UserCommand
    PROVE  Handled' /\ ("frozenBroadcast" \notin Commands => Bound')
<1>1. Handled'
  BY UserBegins DEF Handled, Sendable, Aimed
<1>2. ASSUME NEW aliases \in SUBSET Alias, BroadcastCommand(aliases)
      PROVE  Bound'
  <2>1. /\ ex'.pc = "next" /\ ex'.todo = aliases /\ UNCHANGED <<registry, part>>
    BY <1>2 DEF BroadcastCommand, BeginCommand, ExecIdle, tables
  <2>2. ASSUME NEW b \in aliases
        PROVE  Registered(b) /\ Holder(b).agent # 0
    <3>1. Registered(b) /\ Holder(b).status \in {"idle", "working"}
      BY <1>2 DEF BroadcastCommand, IsRoutable
    <3>2. PartOK(Holder(b))
      BY <3>1, HolderTyped DEF IInv, PartsOK, Holder
    <3>. QED  BY <3>1, <3>2 DEF PartOK
  <2>. QED  BY <2>1, <2>2 DEF Bound, Registered, Holder
<1>3. ex'.kind # "broadcast" => Bound'
  BY UserBegins DEF Bound
<1>. QED  BY <1>1, <1>2, <1>3, UserBegins

LEMMA HandledStep ==
    ASSUME IInv, Own, StartsAlone, Handled, [Next]_vars
    PROVE  Handled' /\ ("frozenBroadcast" \notin Commands /\ Bound => Bound')
<1>1. ASSUME UNCHANGED ex
      PROVE  Handled' /\ (Bound => Bound')
  <2>1. \A a \in Alias : ~ InviteAdd(a)
    BY <1>1, InviteChanges DEF InviteAdd
  <2>. QED  BY <1>1, <2>1, HandledFrame
<1>. QED  BY <1>1, OthersFrame, UserHandled, ExecHandled DEF Next

\* A delivery goes through the handle of the participant that is registered
\* when it is sent, never through nil or the handle of an earlier participant,
\* unless the recipients of a broadcast were frozen before the command runs.
\* (command_send.go, command_broadcast.go, command_handoff.go: the handle is
\* taken in one critical section and used after it.)
THEOREM HandlesMatch ==
    ASSUME "frozenBroadcast" \notin Commands
    PROVE  Spec /\ []StartsAlone => []HandleMatches
<1>1. Init => Handled /\ Bound
  BY DEF Init, Handled, Sendable, Aimed, Bound, ExecIdle
<1>2. IInv /\ Own /\ StartsAlone /\ Handled /\ Bound /\ [Next]_vars => Handled' /\ Bound'
  BY HandledStep
<1>3. Handled /\ Bound => HandleMatches
  BY DEF Handled, Sendable, Bound, HandleMatches
<1>. QED  BY <1>1, <1>2, <1>3, OwnAlways, PTL DEF Spec

\* While no alias is invited a third time, no condition on the goroutines either.
COROLLARY TwiceHandlesMatch ==
    ASSUME "frozenBroadcast" \notin Commands
    PROVE  Spec /\ []InvitedTwice => []HandleMatches
BY TwiceSuffices, HandlesMatch, PTL

-----------------------------------------------------------------------------
(* What the goroutines of an earlier invitation can still do under an alias  *)
(* that is taken again.  Where that is nothing, the runtime of a participant *)
(* is its own, and nobody but its own reader crashes it.                     *)

Straggles(i) ==
    \/ spc[i] \notin {"none", "started", "stop", "done"}
    \/ rd[i].pc \notin {"none", "terminal", "done"}
    \/ <<i, "call">> \in kruns
    \/ <<i, "failed">> \in kruns

NoStragglers ==
    \A i \in Inc :
        i <= invited /\ Registered(aliasOf[i]) /\ registry[aliasOf[i]] # i => ~ Straggles(i)

\* Invited once each, the aliases leave nobody behind to straggle.
InvitedOnce ==
    \A i, j \in Inc : i < j /\ j <= invited => aliasOf[i] # aliasOf[j]

LEMMA OnceSuffices ==
    ASSUME IInv, InvitedOnce
    PROVE  NoStragglers
<1>. SUFFICES ASSUME NEW i \in Inc, i <= invited, Registered(aliasOf[i]), registry[aliasOf[i]] # i
              PROVE  FALSE
  BY DEF NoStragglers
<1>1. aliasOf[i] \in Alias
  BY DEF IInv, Named
<1>2. PICK j \in Inc : j = registry[aliasOf[i]] /\ j <= invited /\ aliasOf[j] = aliasOf[i]
  BY <1>1, HolderTyped DEF IInv, RegistryOK
<1>3. i < j \/ j < i
  BY <1>2 DEF Inc
<1>. QED  BY <1>2, <1>3 DEF InvitedOnce

LEMMA StragglersAlone ==
    ASSUME IInv, NoStragglers
    PROVE  StartsAlone
BY DEF NoStragglers, StartsAlone, Straggles, IInv, Named

LEMMA NoStraggler ==
    ASSUME IInv, NoStragglers, NEW i \in Inc, Straggles(i),
           Registered(aliasOf[i])
    PROVE  registry[aliasOf[i]] = i /\ aliasOf[i] \in Alias
<1>1. i <= invited
  BY DEF Straggles, IInv, Named
<1>. QED  BY <1>1 DEF NoStragglers, IInv, Named

\* An agent that was not started does nothing, one that is gone runs no turn.
Unborn == {"none", "start", "failContext", "failCrash"}
Fresh(i) ==
    /\ proc[i] # "running"
    /\ pipe[i] = <<>>
    /\ rd[i].pc = "none"
    /\ \A step \in {"call", "failed"} : <<i, step>> \notin kruns
FreshOK ==
    /\ \A i \in Inc : spc[i] \in Unborn => Fresh(i)
    /\ \A i \in Inc : proc[i] # "running" => task[i] = "none"

LEMMA StopFrame ==
    ASSUME IInv, NEW i, StopAgent(i)
    PROVE  \A j \in Inc : \/ proc'[j] = proc[j] /\ task'[j] = task[j]
                          \/ j = i /\ proc'[j] \in {"exited", "stopped"} /\ task'[j] = "none"
BY DEF StopAgent, IInv, TypeOK

LEMMA FreshStart ==
    ASSUME IInv, FreshOK, NEW i \in Inc, StartStep(i)
    PROVE  FreshOK'
<1>1. \A j \in Inc : j # i => spc'[j] = spc[j] /\ rd'[j] = rd[j]
  BY StartChanges
<1>2. UNCHANGED <<pipe, kruns>>
  BY DEF StartStep, StartOK, StartFail, StartFailContext, StartFailCrash, StartAttach,
     StartCommit, StartReady, StartAnnounce, StartCleanup, StartUndo, StartStop, agents, keepers
<1>3. spc'[i] \in Unborn => spc[i] \in Unborn /\ rd'[i] = rd[i]
  <2>1. \A from, to : StartGo(i, from, to) => spc[i] = from /\ spc'[i] = to
    BY DEF StartGo, IInv, TypeOK
  <2>2. spc'[i] \in Unborn => StartFail(i) \/ StartFailContext(i)
    BY <2>1 DEF Unborn, StartStep, StartOK, StartFailCrash, StartAttach, StartCommit,
       StartReady, StartAnnounce, StartCleanup, StartUndo, StartStop
  <2>. QED  BY <2>1, <2>2 DEF Unborn, StartFail, StartFailContext
<1>4. \A j \in Inc : proc'[j] # "running" => task'[j] = "none"
  <2>1. CASE StartOK(i)
    BY <2>1 DEF StartOK, FreshOK, IInv, TypeOK
  <2>2. CASE StartStop(i)
    BY <2>2, StopFrame DEF StartStop, FreshOK
  <2>3. CASE ~ StartOK(i) /\ ~ StartStop(i)
    BY <2>3 DEF FreshOK, StartStep, StartFail, StartFailContext,
       StartFailCrash, StartAttach, StartCommit, StartReady, StartAnnounce, StartCleanup,
       StartUndo, agents
  <2>. QED  BY <2>1, <2>2, <2>3
<1>5. \A j \in Inc : proc'[j] = "running" => proc[j] = "running" \/ (j = i /\ spc'[i] = "attach")
  BY StopFrame DEF IInv, TypeOK, StartStep, StartOK, StartFail, StartFailContext,
     StartFailCrash, StartAttach, StartCommit, StartReady, StartAnnounce, StartCleanup,
     StartUndo, StartStop, agents, StartGo
<1>6. ASSUME NEW j \in Inc, spc'[j] \in Unborn
      PROVE  Fresh(j)'
  <2>1. spc[j] \in Unborn /\ rd'[j] = rd[j] /\ spc'[j] # "attach"
    BY <1>1, <1>3, <1>6 DEF Unborn
  <2>. QED  BY <1>2, <1>5, <1>6, <2>1 DEF FreshOK, Fresh
<1>. QED  BY <1>4, <1>6 DEF FreshOK

LEMMA FreshAgent ==
    ASSUME IInv, FreshOK, NEW i \in Inc, AgentStep(i)
    PROVE  FreshOK'
<1>1. /\ proc[i] = "running" /\ UNCHANGED <<spc, rd, kruns>>
      /\ \A j \in Inc : j # i => proc'[j] = proc[j] /\ task'[j] = task[j] /\ pipe'[j] = pipe[j]
      /\ proc'[i] = "running" \/ task'[i] = "none"
  BY DEF AgentStep, AgentOutput, AgentFinish, AgentFailTurn, AgentExit, Emit, keepers,
     IInv, TypeOK
<1>2. spc[i] \notin Unborn
  BY <1>1 DEF FreshOK, Fresh
<1>. QED  BY <1>1, <1>2 DEF FreshOK, Fresh

LEMMA FreshReader ==
    ASSUME IInv, FreshOK, NEW i \in Inc, ReaderStep(i)
    PROVE  FreshOK'
<1>1. /\ rd[i].pc # "none" /\ UNCHANGED <<spc, kruns, proc, task>>
      /\ \A j \in Inc : j # i => rd'[j] = rd[j] /\ pipe'[j] = pipe[j]
  BY DEF ReaderStep, ReadMessage, ReadEnd, ReaderDropCheck, ReaderTrack, ReaderClose,
     ReaderMarkIdle, ReaderFinish, ReaderErrCheck, ReaderCrash, ReaderTerminal, ReaderGo,
     keepers, agents, IInv, TypeOK
<1>2. spc[i] \notin Unborn
  BY <1>1 DEF FreshOK, Fresh
<1>. QED  BY <1>1, <1>2 DEF FreshOK, Fresh

LEMMA FreshKeeper ==
    ASSUME IInv, FreshOK, NEW i \in Inc, KeeperStep(i)
    PROVE  FreshOK'
<1>1. /\ \E step \in {"call", "failed"} : <<i, step>> \in kruns
      /\ UNCHANGED <<spc, rd, proc, pipe>>
      /\ \A j \in Inc : task'[j] = task[j] \/ proc[j] = "running"
      /\ \A j \in Inc, step \in {"call", "failed"} :
            <<j, step>> \in kruns' => <<j, step>> \in kruns \/ j = i
  BY DEF KeeperStep, KeepaliveAccepted, KeepaliveFailed, KeepaliveRelease, Accept, agents,
     IInv, TypeOK
<1>2. spc[i] \notin Unborn
  BY <1>1 DEF FreshOK, Fresh
<1>. QED  BY <1>1, <1>2 DEF FreshOK, Fresh

LEMMA SweepPings ==
    ASSUME IInv, Own, Sweep
    PROVE  \A j \in Inc, step \in {"call", "failed"} :
              <<j, step>> \in kruns' =>
                \/ <<j, step>> \in kruns
                \/ step = "call" /\ \E a \in Alias : Registered(a) /\ registry[a] = j
                        /\ part[j].agent = j /\ part[j].status = "idle"
                        /\ part'[j] = BeginKeepalive(part[j])
<1>1. PICK due \in SUBSET KeepaliveEligible :
        LET claimed == {registry[a] : a \in due} IN
        /\ part' = [i \in Inc |-> IF i \in claimed THEN BeginKeepalive(part[i]) ELSE part[i]]
        /\ kruns' = kruns \cup {<<part[i].agent, "call">> : i \in claimed}
  BY DEF Sweep
<1>2. ASSUME NEW j \in Inc, NEW step \in {"call", "failed"}, <<j, step>> \in kruns',
             <<j, step>> \notin kruns
      PROVE  step = "call" /\ \E a \in Alias : Registered(a) /\ registry[a] = j
                 /\ part[j].agent = j /\ part[j].status = "idle"
                 /\ part'[j] = BeginKeepalive(part[j])
  <2>1. PICK a \in due : <<j, step>> = <<part[registry[a]].agent, "call">>
    BY <1>1, <1>2
  <2>2. a \in Alias /\ Registered(a) /\ Holder(a).agent # 0 /\ Holder(a).status = "idle"
    BY <2>1 DEF KeepaliveEligible, CanBeginKeepalive
  <2>3. registry[a] \in Inc /\ Holder(a).agent = registry[a]
    BY <2>2, HolderTyped, OwnAgent DEF IInv
  <2>. QED  BY <1>1, <2>1, <2>2, <2>3 DEF Holder
<1>. QED  BY <1>2

LEMMA FreshStep ==
    ASSUME IInv, Own, Unspawned, FreshOK, [Next]_vars
    PROVE  FreshOK'
<1>. USE DEF tables, flags, ids, agents, keepers
<1>1. CASE Sweep
  <2>1. UNCHANGED <<proc, task, pipe, rd, spc>>
    BY <1>1 DEF Sweep
  <2>2. \A a \in Alias : Registered(a) /\ part[registry[a]].agent # 0 => spc[registry[a]] \notin Unborn
    BY DEF Own, OwnOK, Unborn
  <2>3. ASSUME NEW j \in Inc, spc[j] \in Unborn, NEW step \in {"call", "failed"},
               <<j, step>> \in kruns'
        PROVE  FALSE
    <3>1. <<j, step>> \notin kruns
      BY <2>3 DEF FreshOK, Fresh
    <3>2. PICK a \in Alias : Registered(a) /\ registry[a] = j /\ part[j].agent = j
      BY <1>1, <2>3, <3>1, SweepPings
    <3>. QED  BY <2>2, <2>3, <3>2 DEF Inc
  <2>. QED  BY <2>1, <2>3 DEF FreshOK, Fresh
<1>2. CASE InviteSpawn
  <2>1. UNCHANGED <<proc, task, pipe, rd, kruns>> /\ \A j \in Inc : spc'[j] = spc[j] \/ spc[j] = "none"
    BY <1>2 DEF InviteSpawn, Unspawned, IInv, TypeOK
  <2>. QED  BY <2>1 DEF FreshOK, Fresh, Unborn
<1>3. ASSUME UNCHANGED <<pipe, rd, spc, kruns>>,
             \A j \in Inc : \/ proc'[j] = proc[j] /\ task'[j] = task[j]
                            \/ proc'[j] # "running" /\ task'[j] = "none"
                            \/ proc'[j] = "running" /\ proc[j] = "running"
      PROVE  FreshOK'
  BY <1>3 DEF FreshOK, Fresh
<1>4. CASE UserCommand
  <2>1. UNCHANGED <<pipe, rd, spc, kruns, proc, task>>
    BY <1>4 DEF UserCommand, InviteAdd, RemoveDetach, RemoveUnattached, SendCommand,
       HandoffCommand, BroadcastCommand, FrozenBroadcast, BeginCommand, ShutdownBegin
  <2>. QED  BY <1>3, <2>1
<1>5. CASE RemoveStop \/ \E i \in Inc : ShutdownStop(i)
  <2>1. UNCHANGED <<pipe, rd, spc, kruns>> /\ \E i : StopAgent(i)
    BY <1>5 DEF RemoveStop, ShutdownStop
  <2>. QED  BY <1>3, <2>1, StopFrame
<1>6. CASE SendAccepted
  BY <1>3, <1>6 DEF SendAccepted, Accept, IInv, TypeOK
<1>7. CASE ExecStep /\ ~ InviteSpawn /\ ~ RemoveStop /\ ~ SendAccepted
             /\ ~ \E i \in Inc : ShutdownStop(i)
  <2>1. UNCHANGED <<pipe, rd, spc, kruns, proc, task>>
    BY <1>7 DEF ExecStep, InviteReserve, RemoveEvict, NextDelivery, CommandDone,
       AcquireNotice, Prepare, Recheck, SendRefused, Begin, Track, Abort, ShutdownAwait,
       ShutdownCancelAll, ShutdownSnapshot, ShutdownDone
  <2>. QED  BY <1>3, <2>1
<1>8. CASE SweeperExit \/ UNCHANGED vars
  BY <1>3, <1>8 DEF SweeperExit, vars
<1>. QED
  BY <1>1, <1>2, <1>4, <1>5, <1>6, <1>7, <1>8, FreshStart, FreshAgent, FreshReader, FreshKeeper
  DEF Next

LEMMA FreshInit == Init => FreshOK
BY DEF Init, FreshOK, Fresh, Unborn

-----------------------------------------------------------------------------
(* The runtime of a participant whose agent was attached is its own, until   *)
(* shutdown takes all of them.                                               *)

Closing == {"snapshot", "stopAll", "down"}
Entered(a) == Holder(a).ready \/ spc[registry[a]] \in {"commit", "ready"}

RuntimeOK ==
    /\ ex.pc \notin Closing =>
         \A a \in Alias : Registered(a) /\ Entered(a) => runtime[a].stop = registry[a]
    /\ ex.pc \in Closing => \A a \in Alias : ~ runtime[a].present

LEMMA ClosingStays ==
    ASSUME IInv, [Next]_vars, ex.pc \in Closing
    PROVE  ex'.pc \in Closing /\ ~ UserCommand
<1>1. ~ UserCommand
  BY UserBegins DEF Closing
<1>2. CASE ExecStep
  <2>1. ex \in Execs
    BY DEF IInv, TypeOK
  <2>2. ShutdownSnapshot \/ ShutdownDone \/ \E i \in Inc : ShutdownStop(i)
    BY <1>2 DEF Closing, ExecStep, InviteReserve, InviteSpawn, RemoveStop, RemoveEvict,
       NextDelivery, CommandDone, AcquireNotice, Prepare, Recheck, SendAccepted, SendRefused,
       Begin, Track, Abort, ShutdownAwait, ShutdownCancelAll
  <2>. QED
    BY <1>1, <2>1, <2>2 DEF Closing, ShutdownSnapshot, ShutdownDone, ShutdownStop, Execs
<1>3. UNCHANGED ex => ex'.pc \in Closing
  OBVIOUS
<1>. QED  BY <1>1, <1>2, <1>3, OthersFrame DEF Next

\* Who enters, enters in StartAttach.
LEMMA EnteredStep ==
    ASSUME IInv, Own, StartsAlone, [Next]_vars, NEW b \in Alias,
           Registered(b)', Entered(b)', ~ StartAttach(registry'[b])
    PROVE  Registered(b) /\ registry'[b] = registry[b] /\ Entered(b)
<1>1. ASSUME NEW a \in Alias, InviteAdd(a)
      PROVE  Registered(b) /\ registry'[b] = registry[b] /\ Entered(b)
  <2>. DEFINE new == invited + 1
  <2>c. /\ new \in Inc
        /\ registry'[a] = new /\ \A c \in Alias : c # a => registry'[c] = registry[c]
        /\ part'[new] = NewStarting /\ \A i \in Inc : i # new => part'[i] = part[i]
        /\ spc' = spc /\ spc[new] = "none" /\ invited \in Nat
    BY <1>1, InviteChanges
  <2>1. b # a
    BY <2>c DEF Entered, Holder, NewStarting
  <2>2. registry'[b] = registry[b] /\ Registered(b)
    BY <2>1, <2>c DEF Registered
  <2>3. registry[b] \in Inc /\ registry[b] <= invited
    BY <2>2, HolderTyped DEF IInv, RegistryOK
  <2>4. registry[b] # new
    BY <2>3, <2>c DEF Inc
  <2>. QED  BY <2>2, <2>3, <2>4, <2>c DEF Entered, Holder
<1>2. ASSUME ~ \E a \in Alias : InviteAdd(a)
      PROVE  Registered(b) /\ registry'[b] = registry[b] /\ Entered(b)
  <2>1. Keeps(b)
    BY <1>2, HolderKept
  <2>2. Registered(b) /\ registry'[b] = registry[b] /\ registry[b] \in Inc
    BY <2>1, HolderTyped DEF Keeps, IInv
  <2>. DEFINE i == registry[b]
  <2>3. spc'[i] \in {"commit", "ready"} => spc[i] \in {"commit", "ready"}
    <3>1. ASSUME NEW j \in Inc, StartStep(j)
          PROVE  spc'[i] \in {"commit", "ready"} => spc[i] \in {"commit", "ready"}
      <4>1. j # i => spc'[i] = spc[i]
        BY <2>2, <3>1, StartChanges
      <4>2. \A from, to : StartGo(j, from, to) => spc[j] = from /\ spc'[j] = to
        BY DEF StartGo, IInv, TypeOK
      <4>3. spc'[j] \in {"commit", "ready"} => StartAttach(j) \/ StartCommit(j)
        BY <3>1, <4>2 DEF StartStep, StartOK, StartFail, StartFailContext, StartFailCrash,
           StartReady, StartAnnounce, StartCleanup, StartUndo, StartStop
      <4>4. StartCommit(j) => spc[j] = "commit"
        BY DEF StartCommit, StartGo
      <4>. QED  BY <2>2, <4>1, <4>3, <4>4
    <3>2. InviteSpawn => spc'[i] = spc[i] \/ spc'[i] = "start"
      BY <2>2 DEF InviteSpawn, IInv, TypeOK
    <3>3. (\E j \in Inc : StartStep(j)) \/ InviteSpawn \/ spc' = spc
      BY <1>2, NextShape DEF StepShape, Still, MovesHolder, Withdraws, Sweep
    <3>. QED  BY <3>1, <3>2, <3>3
  <2>. QED  BY <2>1, <2>2, <2>3 DEF Keeps, Entered, Registered
<1>. QED  BY <1>1, <1>2

\* Where the runtime of another alias, or none, is touched.
LEMMA RuntimeKept ==
    ASSUME IInv, Own, NoStragglers, [Next]_vars, NEW b \in Alias,
           Registered(b), Registered(b)', Entered(b), ex'.pc \notin Closing
    PROVE  runtime'[b].stop = runtime[b].stop
<1>. USE DEF tables, flags, ids, agents, keepers
<1>t. runtime \in [Alias -> Runtimes]
  BY DEF IInv, TypeOK
<1>o. OwnOK(registry[b]) /\ registry[b] \in Inc
  BY HolderTyped DEF Own, IInv
<1>1. ASSUME NEW i \in Inc, StartStep(i)
      PROVE  runtime'[b].stop = runtime[b].stop
  <2>a. aliasOf[i] \in Alias
    BY <1>1, StartChanges DEF IInv, Named
  <2>1. UNCHANGED runtime \/ DropRuntime(aliasOf[i]) \/ StartAttach(i)
    BY <1>1 DEF StartStep, StartOK, StartFail, StartFailContext, StartFailCrash,
       StartCommit, StartReady, StartAnnounce, StartCleanup, StartUndo, StartStop
  <2>2. aliasOf[i] # b => runtime'[b] = runtime[b]
    BY <1>t, <2>1 DEF DropRuntime, StartAttach
  <2>3. ASSUME aliasOf[i] = b, ~ UNCHANGED runtime
        PROVE  FALSE
    <3>1. spc[i] \in {"failContext", "attach", "cleanup", "undo"}
      BY <1>1, <2>3 DEF StartStep, StartOK, StartFail, StartFailContext, StartFailCrash,
         StartAttach, StartCommit, StartReady, StartAnnounce, StartCleanup, StartUndo,
         StartStop, StartGo
    <3>2. registry[b] = i
      BY <2>3, <3>1, NoStraggler DEF Straggles
    <3>. QED  BY <1>o, <3>1, <3>2 DEF Entered, OwnOK, Holder
  <2>. QED  BY <2>2, <2>3
<1>2. CASE InviteReserve \/ InviteSpawn
  <2>1. ex.alias \in Alias
    BY <1>2 DEF InviteReserve, InviteSpawn, IInv, Named
  <2>2. runtime' = [runtime EXCEPT ![ex.alias] = [@ EXCEPT !.present = TRUE]]
    BY <1>2 DEF InviteReserve, InviteSpawn
  <2>3. [runtime[ex.alias] EXCEPT !.present = TRUE].stop = runtime[ex.alias].stop
    BY <1>t, <2>1 DEF Runtimes
  <2>4. runtime'[b] = IF b = ex.alias THEN [runtime[ex.alias] EXCEPT !.present = TRUE]
                      ELSE runtime[b]
    BY <1>t, <2>1, <2>2
  <2>. QED  BY <2>3, <2>4
<1>3. ASSUME NEW a \in Alias, RemoveDetach(a)
      PROVE  runtime'[b].stop = runtime[b].stop
  <2>1. b # a
    BY <1>3, ForgetKept DEF RemoveDetach
  <2>. QED  BY <1>t, <1>3, <2>1 DEF RemoveDetach, DropRuntime
<1>4. CASE RemoveEvict
  <2>1. PICK a \in Alias : a = ex.alias
    BY <1>4 DEF RemoveEvict, IInv, Named
  <2>2. CASE Registered(a) /\ Holder(a).status = "crashed"
    <3>1. DropRuntime(a) /\ Forget(a)
      BY <1>4, <2>1, <2>2 DEF RemoveEvict
    <3>2. b # a
      BY <3>1, ForgetKept
    <3>. QED  BY <1>t, <3>1, <3>2 DEF DropRuntime
  <2>3. CASE ~ (Registered(a) /\ Holder(a).status = "crashed")
    BY <1>4, <2>1, <2>3 DEF RemoveEvict
  <2>. QED  BY <2>2, <2>3
<1>5. CASE ShutdownCancelAll
  <2>1. ex'.pc = "snapshot"
    BY <1>5 DEF ShutdownCancelAll, IInv, TypeOK, Execs
  <2>. QED  BY <2>1 DEF Closing
<1>6. CASE UserCommand /\ ~ \E a \in Alias : RemoveDetach(a)
  BY <1>6 DEF UserCommand, InviteAdd, RemoveUnattached, SendCommand,
     HandoffCommand, BroadcastCommand, FrozenBroadcast, BeginCommand, ShutdownBegin
<1>7. CASE ExecStep /\ ~ (InviteReserve \/ InviteSpawn \/ RemoveEvict \/ ShutdownCancelAll)
  BY <1>7 DEF ExecStep, RemoveStop, NextDelivery, CommandDone, AcquireNotice, Prepare,
     Recheck, SendAccepted, SendRefused, Begin, Track, Abort, ShutdownAwait,
     ShutdownSnapshot, ShutdownStop, ShutdownDone
<1>8. ASSUME NEW i \in Inc, AgentStep(i) \/ ReaderStep(i) \/ KeeperStep(i)
      PROVE  UNCHANGED runtime
  BY <1>8 DEF AgentStep, AgentOutput, AgentFinish, AgentFailTurn, AgentExit,
     ReaderStep, ReadMessage, ReadEnd, ReaderDropCheck, ReaderTrack, ReaderClose,
     ReaderMarkIdle, ReaderFinish, ReaderErrCheck, ReaderCrash, ReaderTerminal,
     KeeperStep, KeepaliveAccepted, KeepaliveFailed, KeepaliveRelease
<1>9. Sweep \/ SweeperExit \/ UNCHANGED vars => UNCHANGED runtime
  BY DEF Sweep, SweeperExit, vars
<1>. QED  BY <1>1, <1>2, <1>3, <1>4, <1>5, <1>6, <1>7, <1>8, <1>9 DEF Next

LEMMA AttachRuntime ==
    ASSUME IInv, StartsAlone, NEW b \in Alias, Registered(b)', registry'[b] \in Inc,
           StartAttach(registry'[b]), Entered(b)', ~ Entered(b)
    PROVE  runtime'[b].stop = registry'[b]
<1>. DEFINE a == aliasOf[registry'[b]]
<1>1. registry' = registry
  BY DEF StartAttach
<1>. DEFINE i == registry[b]
<1>2. aliasOf[i] = b /\ i \in Inc /\ Registered(b)
  BY <1>1 DEF IInv, RegistryOK, Registered
<1>3. StartAttach(i)
  BY <1>1
<1>4. ~ (Registered(b) /\ CanAttach(Holder(b)) /\ runtime[b].present) => UNCHANGED <<runtime>> /\ spc'[i] = "undo"
  BY <1>2, <1>3 DEF StartAttach, StartGo, IInv, TypeOK
<1>5. Holder(b)'.ready = Holder(b).ready
  <2>1. Holder(b) \in P
    BY <1>2, HolderTyped DEF IInv
  <2>2. AttachAgent(Holder(b), i).ready = Holder(b).ready
    BY <2>1 DEF AttachAgent, P, Participants
  <2>3. part'[i] = part[i] \/ part'[i] = AttachAgent(Holder(b), i)
    BY <1>2, <1>3 DEF StartAttach, SetHolderIf, SetHolder, IInv, TypeOK
  <2>. QED  BY <1>1, <2>2, <2>3 DEF Holder
<1>6. runtime[b].present /\ Registered(b) /\ CanAttach(Holder(b))
  BY <1>1, <1>4, <1>5 DEF Entered
<1>7. runtime' = [runtime EXCEPT ![b].stop = i]
  BY <1>2, <1>3, <1>6 DEF StartAttach
<1>8. [runtime[b] EXCEPT !.stop = i].stop = i
  BY DEF IInv, TypeOK, Runtimes
<1>. QED  BY <1>1, <1>7, <1>8 DEF IInv, TypeOK

LEMMA RuntimeStep ==
    ASSUME IInv, Own, NoStragglers, RuntimeOK, [Next]_vars
    PROVE  RuntimeOK'
<1>. USE DEF tables, flags, ids, agents, keepers
<1>s. StartsAlone /\ IInv'
  BY StragglersAlone, NextInv
<1>1. ASSUME ex'.pc \notin Closing, NEW b \in Alias, Registered(b)', Entered(b)'
      PROVE  runtime'[b].stop = registry'[b]
  <2>0. ex.pc \notin Closing
    BY <1>1, ClosingStays
  <2>1. CASE ~ StartAttach(registry'[b])
    <3>1. Registered(b) /\ registry'[b] = registry[b] /\ Entered(b)
      BY <1>1, <1>s, <2>1, EnteredStep
    <3>2. runtime'[b].stop = runtime[b].stop
      BY <1>1, <3>1, RuntimeKept
    <3>. QED  BY <2>0, <3>1, <3>2 DEF RuntimeOK
  <2>2. CASE StartAttach(registry'[b])
    <3>1. registry' = registry /\ registry'[b] \in Inc /\ Registered(b)
      BY <1>1, <2>2, HolderTyped DEF StartAttach, Registered, IInv
    <3>2. ~ Entered(b)
      <4>1. spc[registry[b]] = "attach" /\ OwnOK(registry[b])
        BY <2>2, <3>1 DEF StartAttach, StartGo, Own
      <4>. QED  BY <4>1 DEF Entered, OwnOK, Holder
    <3>. QED  BY <1>1, <1>s, <2>2, <3>1, <3>2, AttachRuntime
  <2>. QED  BY <2>1, <2>2
<1>2. ASSUME ex'.pc \in Closing, NEW b \in Alias
      PROVE  ~ runtime'[b].present
  <2>t. runtime \in [Alias -> Runtimes] /\ ~ NoRuntime.present
    BY DEF IInv, TypeOK, NoRuntime
  <2>1. CASE ex.pc \notin Closing
    <3>1. ~ UserCommand
      BY <1>2, UserBegins DEF Closing
    <3>2. ~ UNCHANGED ex
      BY <1>2, <2>1
    <3>3. ExecStep
      BY <3>1, <3>2, OthersFrame DEF Next
    <3>4. ShutdownCancelAll
      <4>1. ShutdownSnapshot \/ ShutdownDone \/ (\E i \in Inc : ShutdownStop(i)) => ex.pc \in Closing
        BY DEF ShutdownSnapshot, ShutdownDone, ShutdownStop, Closing
      <4>. QED  BY <1>2, <2>1, <3>3, <4>1, ComesFrom DEF Closing
    <3>. QED  BY <3>4, <2>t DEF ShutdownCancelAll
  <2>2. CASE ex.pc \in Closing
    <3>0. ~ runtime[b].present /\ ~ UserCommand
      BY <2>2, ClosingStays DEF RuntimeOK
    <3>1. ASSUME NEW i \in Inc, StartStep(i)
          PROVE  ~ runtime'[b].present
      <4>1. CASE StartAttach(i)
        <5>1. aliasOf[i] \in Alias
          BY <3>1, StartChanges DEF IInv, Named
        <5>2. ~ runtime[aliasOf[i]].present
          BY <2>2, <5>1 DEF RuntimeOK
        <5>. QED  BY <3>0, <4>1, <5>2 DEF StartAttach
      <4>2. CASE ~ StartAttach(i)
        <5>1. UNCHANGED runtime \/ DropRuntime(aliasOf[i])
          BY <3>1, <4>2 DEF StartStep, StartOK, StartFail, StartFailContext, StartFailCrash,
             StartCommit, StartReady, StartAnnounce, StartCleanup, StartUndo, StartStop
        <5>. QED  BY <2>t, <3>0, <5>1 DEF DropRuntime
      <4>. QED  BY <4>1, <4>2
    <3>2. CASE ExecStep
      BY <2>2, <3>0, <3>2 DEF Closing, ExecStep, InviteReserve, InviteSpawn, RemoveStop, RemoveEvict,
         NextDelivery, CommandDone, AcquireNotice, Prepare, Recheck, SendAccepted, SendRefused,
         Begin, Track, Abort, ShutdownAwait, ShutdownCancelAll, ShutdownSnapshot, ShutdownStop,
         ShutdownDone
    <3>3. ASSUME NEW i \in Inc, AgentStep(i) \/ ReaderStep(i) \/ KeeperStep(i)
          PROVE  UNCHANGED runtime
      BY <3>3 DEF AgentStep, AgentOutput, AgentFinish, AgentFailTurn, AgentExit,
         ReaderStep, ReadMessage, ReadEnd, ReaderDropCheck, ReaderTrack, ReaderClose,
         ReaderMarkIdle, ReaderFinish, ReaderErrCheck, ReaderCrash, ReaderTerminal,
         KeeperStep, KeepaliveAccepted, KeepaliveFailed, KeepaliveRelease
    <3>4. Sweep \/ SweeperExit \/ UNCHANGED vars => UNCHANGED runtime
      BY DEF Sweep, SweeperExit, vars
    <3>. QED  BY <3>0, <3>1, <3>2, <3>3, <3>4 DEF Next
  <2>. QED  BY <2>1, <2>2
<1>. QED  BY <1>1, <1>2 DEF RuntimeOK

LEMMA RuntimeInit == Init => RuntimeOK
BY DEF Init, RuntimeOK, Registered, Closing, ExecIdle

\* A participant whose startup was published can be removed until shutdown takes
\* the runtimes, provided that nobody of an earlier invitation of its alias still
\* works under that alias.  (attachParticipant, detachParticipant.)
THEOREM ReadyIsAlwaysRemovable == Spec /\ []NoStragglers => []ReadyIsRemovable
<1>1. IInv /\ NoStragglers => StartsAlone
  BY StragglersAlone
<1>2. IInv /\ Own /\ NoStragglers /\ RuntimeOK /\ [Next]_vars => RuntimeOK'
  BY RuntimeStep
<1>3. RuntimeOK => ReadyIsRemovable
  BY DEF RuntimeOK, ReadyIsRemovable, Entered, Closing
<1>. QED  BY <1>1, <1>2, <1>3, RuntimeInit, Invariance, OwnAlways, PTL DEF Spec

-----------------------------------------------------------------------------
(* Who will stop a running process.                                          *)

Live == {"attach", "commit", "ready", "cleanup", "undo", "stop"}

\* No turn runs that could fail, and none has.
Clean(i) ==
    /\ task[i] # "turn"
    /\ \A k \in DOMAIN pipe[i] : pipe[i][k].mode # "fail"

\* Before startup is published nobody reads or gives work, and the start
\* goroutine is there.
UnreadyOK ==
    \A a \in Alias :
        LET i == registry[a] IN
        Registered(a) /\ ~ Holder(a).ready =>
            /\ rd[i].pc = "none"
            /\ Clean(i)
            /\ proc[i] = "running" => spc[i] \in Live

\* Who attached its agent did so in time for the snapshot.
StopsOK ==
    \A a \in Alias :
        LET i == registry[a] IN
        Registered(a) /\ spc[i] \in {"commit", "ready"} /\ proc[i] = "running" =>
            /\ ex.pc = "stopAll" => i \in ex.stops
            /\ ex.pc # "down"

\* What a removal without a stop channel finds crashed was crashed then.
Failing == {"errCheck", "crash", "terminal", "done"}
EvictOK ==
    LET i == registry[ex.alias] IN
    ex.pc = "evict" /\ Registered(ex.alias) /\ proc[i] = "running" =>
        /\ Holder(ex.alias).status = "crashed" => spc[i] \in Live
        /\ Clean(i)
        /\ rd[i].pc \notin Failing

LeakOK == UnreadyOK /\ StopsOK /\ EvictOK /\ NoProcessLeak

\* Who is registered after a step was before, or is new.
LEMMA RegisteredStep ==
    ASSUME IInv, Own, StartsAlone, [Next]_vars, NEW b \in Alias, Registered(b)',
           ~ InviteAdd(b)
    PROVE  /\ Registered(b) /\ registry'[b] = registry[b] /\ registry[b] \in Inc
           /\ Holder(b).agent # 0 => Holder(b)'.agent = Holder(b).agent
           /\ Holder(b).ready => Holder(b)'.ready
           /\ Holder(b)'.status = "crashed" =>
                \/ Holder(b).status = "crashed"
                \/ \E j \in Inc : aliasOf[j] = b /\ (rd[j].pc = "crash" \/ spc[j] = "failCrash")
<1>1. ASSUME NEW a \in Alias, InviteAdd(a)
      PROVE  /\ Registered(b) /\ registry'[b] = registry[b] /\ registry[b] \in Inc
             /\ Holder(b)' = Holder(b)
  <2>. DEFINE new == invited + 1
  <2>c. /\ new \in Inc /\ \A c \in Alias : c # a => registry'[c] = registry[c]
        /\ \A i \in Inc : i # new => part'[i] = part[i]
        /\ invited \in Nat
    BY <1>1, InviteChanges
  <2>1. b # a
    BY <1>1
  <2>2. registry'[b] = registry[b] /\ Registered(b)
    BY <2>1, <2>c DEF Registered
  <2>3. registry[b] \in Inc /\ registry[b] <= invited
    BY <2>2, HolderTyped DEF IInv, RegistryOK
  <2>4. registry[b] # new
    BY <2>3, <2>c DEF Inc
  <2>. QED  BY <2>2, <2>3, <2>4, <2>c DEF Holder
<1>2. CASE ~ \E a \in Alias : InviteAdd(a)
  BY <1>2, HolderKept, HolderTyped DEF Keeps, IInv
<1>. QED  BY <1>1, <1>2

LEMMA NewIsFresh ==
    ASSUME IInv, FreshOK, NEW b \in Alias, InviteAdd(b), NEW i, registry'[b] = i
    PROVE  /\ i \in Inc /\ spc'[i] = "none" /\ proc'[i] # "running" /\ rd'[i].pc = "none"
           /\ Clean(i)'
<1>1. i \in Inc /\ spc' = spc /\ spc[i] = "none"
  BY InviteChanges
<1>2. UNCHANGED <<proc, task, pipe, rd>>
  BY DEF InviteAdd, agents
<1>3. Fresh(i) /\ task[i] = "none"
  BY <1>1 DEF FreshOK, Fresh, Unborn
<1>4. \A k \in DOMAIN <<>> : FALSE
  OBVIOUS
<1>5. Clean(i)'
  BY <1>2, <1>3, <1>4 DEF Fresh, Clean
<1>. QED  BY <1>1, <1>2, <1>3, <1>5 DEF Fresh

\* What can start, dirty and fail a process, and end its start goroutine.
LEMMA StopKinds ==
    ASSUME IInv, NEW i \in Inc, NEW j, StopAgent(j)
    PROVE  /\ proc'[i] = "running" => proc[i] = "running" /\ i # j
           /\ Clean(i) /\ UNCHANGED pipe => Clean(i)'
BY DEF StopAgent, Clean, IInv, TypeOK

LEMMA AppendClean ==
    ASSUME NEW s \in Seq(Messages), NEW m, m.mode # "fail",
           \A k \in DOMAIN s : s[k].mode # "fail"
    PROVE  \A k \in DOMAIN Append(s, m) : Append(s, m)[k].mode # "fail"
OBVIOUS

LEMMA TailClean ==
    ASSUME NEW s \in Seq(Messages), s # <<>>,
           \A k \in DOMAIN s : s[k].mode # "fail"
    PROVE  Head(s).mode # "fail" /\ \A k \in DOMAIN Tail(s) : Tail(s)[k].mode # "fail"
<1>1. 1 \in DOMAIN s /\ Head(s) = s[1]
  OBVIOUS
<1>2. \A k \in DOMAIN Tail(s) : k + 1 \in DOMAIN s /\ Tail(s)[k] = s[k + 1]
  OBVIOUS
<1>. QED  BY <1>1, <1>2

LEMMA AgentClean ==
    ASSUME IInv, NEW i \in Inc, AgentStep(i), Clean(i)
    PROVE  Clean(i)'
<1>1. CASE AgentExit(i)
  BY <1>1 DEF AgentExit, Clean, IInv, TypeOK
<1>2. CASE AgentFinish(i)
  <2>. DEFINE m == IF task[i] = "keepalive" THEN [mode |-> "keepalive", id |-> NoStream]
                   ELSE [mode |-> "flush", id |-> task[i]]
  <2>1. m.mode # "fail"
    OBVIOUS
  <2>2. pipe' = [pipe EXCEPT ![i] = Append(pipe[i], m)] /\ task' = [task EXCEPT ![i] = "none"]
    BY <1>2 DEF AgentFinish, Emit
  <2>. HIDE DEF m
  <2>3. pipe[i] \in Seq(Messages) /\ pipe'[i] = Append(pipe[i], m) /\ task'[i] = "none"
    BY <2>2 DEF IInv, TypeOK
  <2>. QED  BY <2>1, <2>3, AppendClean DEF Clean
<1>. QED  BY <1>1, <1>2 DEF AgentStep, AgentOutput, AgentFailTurn, Clean

LEMMA ReaderClean ==
    ASSUME IInv, NEW i \in Inc, ReaderStep(i), Clean(i)
    PROVE  /\ Clean(i)'
           /\ proc[i] = "running" /\ rd'[i].pc \in Failing => rd[i].pc \in Failing
<1>1. CASE ReadMessage(i)
  <2>1. pipe[i] \in Seq(Messages) /\ pipe[i] # <<>> /\ Head(pipe[i]) \in Messages
    BY <1>1 DEF ReadMessage, IInv, TypeOK
  <2>2. /\ pipe'[i] = Tail(pipe[i]) /\ task' = task
        /\ rd'[i] = [pc |-> Dispatch[Head(pipe[i]).mode], msg |-> Head(pipe[i])]
    BY <1>1 DEF ReadMessage, IInv, TypeOK
  <2>3. Head(pipe[i]).mode # "fail" /\ Clean(i)'
    BY <2>1, <2>2, TailClean DEF Clean
  <2>4. rd'[i].pc = Dispatch[Head(pipe[i]).mode]
    BY <2>2
  <2>5. Head(pipe[i]).mode \in {"stream", "flush", "keepalive", "fail"}
    BY <2>1 DEF Messages
  <2>6. rd'[i].pc \notin Failing
    BY <2>3, <2>4, <2>5 DEF Dispatch, Failing
  <2>. QED  BY <2>3, <2>6
<1>2. CASE ReadEnd(i)
  <2>1. pipe'[i] = <<>> /\ task' = task /\ proc[i] # "running"
    BY <1>2 DEF ReadEnd, IInv, TypeOK
  <2>2. \A k \in DOMAIN <<>> : FALSE
    OBVIOUS
  <2>. QED  BY <2>1, <2>2 DEF Clean
<1>3. ASSUME NEW from, NEW to, ReaderGo(i, from, to)
      PROVE  rd[i].pc = from /\ rd'[i].pc = to
  BY <1>3 DEF ReaderGo, IInv, TypeOK
<1>4. CASE ~ ReadMessage(i) /\ ~ ReadEnd(i)
  <2>1. pipe' = pipe /\ task' = task
    BY <1>4 DEF ReaderStep, ReaderDropCheck, ReaderTrack, ReaderClose, ReaderMarkIdle,
       ReaderFinish, ReaderErrCheck, ReaderCrash, ReaderTerminal, agents
  <2>2. CASE ReaderErrCheck(i) \/ ReaderCrash(i) \/ ReaderTerminal(i)
    BY <2>1, <2>2, <1>3 DEF ReaderErrCheck, ReaderCrash, ReaderTerminal, Failing, Clean
  <2>3. CASE ReaderDropCheck(i) \/ ReaderTrack(i) \/ ReaderClose(i) \/ ReaderMarkIdle(i)
             \/ ReaderFinish(i)
    <3>1. rd'[i].pc \in {"read", "track", "markIdle"}
      BY <1>3, <2>3 DEF ReaderDropCheck, ReaderTrack, ReaderClose, ReaderMarkIdle, ReaderFinish
    <3>. QED  BY <2>1, <3>1 DEF Failing, Clean
  <2>. QED  BY <1>4, <2>2, <2>3 DEF ReaderStep
<1>. QED  BY <1>1, <1>2, <1>4

LEMMA ProcessStep ==
    ASSUME IInv, [Next]_vars, NEW i \in Inc
    PROVE  /\ proc'[i] = "running" => proc[i] = "running" \/ StartOK(i)
           /\ Clean(i) => Clean(i)' \/ (SendAccepted /\ ex.agent = i)
           /\ rd[i].pc = "none" => rd'[i].pc = "none" \/ (StartReady(i) /\ rd'[i] # rd[i])
           /\ rd'[i].pc \in Failing /\ proc[i] = "running" /\ Clean(i) => rd[i].pc \in Failing
<1>. USE DEF tables, flags, ids, agents, keepers
<1>. DEFINE Goal ==
           /\ proc'[i] = "running" => proc[i] = "running" \/ StartOK(i)
           /\ Clean(i) => Clean(i)' \/ (SendAccepted /\ ex.agent = i)
           /\ rd[i].pc = "none" => rd'[i].pc = "none" \/ (StartReady(i) /\ rd'[i] # rd[i])
           /\ rd'[i].pc \in Failing /\ proc[i] = "running" /\ Clean(i) => rd[i].pc \in Failing
<1>f. ASSUME UNCHANGED <<proc, task, pipe, rd>>
      PROVE  Goal
  BY <1>f DEF Clean
<1>1. ASSUME NEW j \in Inc, StartStep(j)
      PROVE  Goal
  <2>1. CASE StartOK(j)
    BY <2>1 DEF StartOK, Clean, IInv, TypeOK
  <2>2. CASE StartStop(j)
    BY <2>2, StopKinds DEF StartStop
  <2>3. CASE StartReady(j)
    <3>1. proc' = proc /\ task' = task /\ pipe' = pipe
      BY <2>3 DEF StartReady
    <3>2. rd'[i] # rd[i] => i = j /\ rd'[i].pc = "read"
      BY <2>3 DEF StartReady, IInv, TypeOK, Readers
    <3>. QED  BY <2>3, <3>1, <3>2 DEF Clean, Failing
  <2>. QED
    BY <1>1, <2>1, <2>2, <2>3, <1>f DEF StartStep, StartFail, StartFailContext, StartFailCrash,
       StartAttach, StartCommit, StartAnnounce, StartCleanup, StartUndo
<1>2. ASSUME NEW j \in Inc, AgentStep(j)
      PROVE  Goal
  <2>1. rd' = rd /\ (proc'[i] = "running" => proc[i] = "running")
    BY <1>2 DEF AgentStep, AgentOutput, AgentFinish, AgentFailTurn, AgentExit, IInv, TypeOK
  <2>2. i # j => task'[i] = task[i] /\ pipe'[i] = pipe[i]
    BY <1>2 DEF AgentStep, AgentOutput, AgentFinish, AgentFailTurn, AgentExit, Emit, IInv, TypeOK
  <2>3. Clean(i) => Clean(i)'
    BY <1>2, <2>2, AgentClean DEF Clean
  <2>. QED  BY <2>1, <2>3
<1>3. ASSUME NEW j \in Inc, ReaderStep(j)
      PROVE  Goal
  <2>1. proc' = proc /\ (i # j => pipe'[i] = pipe[i] /\ rd'[i] = rd[i]) /\ task' = task
        /\ rd[j].pc # "none"
    BY <1>3 DEF ReaderStep, ReadMessage, ReadEnd, ReaderDropCheck, ReaderTrack, ReaderClose,
       ReaderMarkIdle, ReaderFinish, ReaderErrCheck, ReaderCrash, ReaderTerminal, ReaderGo,
       IInv, TypeOK
  <2>2. CASE i # j
    BY <2>1, <2>2 DEF Clean
  <2>3. CASE i = j
    BY <1>3, <2>1, <2>3, ReaderClean
  <2>. QED  BY <2>2, <2>3
<1>4. ASSUME NEW j \in Inc, KeeperStep(j)
      PROVE  Goal
  BY <1>4, <1>f DEF KeeperStep, KeepaliveAccepted, KeepaliveFailed, KeepaliveRelease, Accept,
     Clean, IInv, TypeOK
<1>5. CASE Sweep \/ SweeperExit \/ UNCHANGED vars
  BY <1>5, <1>f DEF Sweep, SweeperExit, vars
<1>6. CASE UserCommand
  BY <1>6, <1>f DEF UserCommand, InviteAdd, RemoveDetach, RemoveUnattached, SendCommand,
     HandoffCommand, BroadcastCommand, FrozenBroadcast, BeginCommand, ShutdownBegin
<1>7. CASE RemoveStop \/ \E j \in Inc : ShutdownStop(j)
  <2>1. UNCHANGED <<pipe, rd>> /\ \E j : StopAgent(j)
    BY <1>7 DEF RemoveStop, ShutdownStop
  <2>. QED  BY <2>1, StopKinds
<1>8. CASE SendAccepted
  BY <1>8 DEF SendAccepted, Accept, Clean, IInv, TypeOK
<1>9. CASE ExecStep /\ ~ RemoveStop /\ ~ SendAccepted /\ ~ \E j \in Inc : ShutdownStop(j)
  <2>1. UNCHANGED <<proc, task, pipe, rd>>
    BY <1>9 DEF ExecStep, InviteReserve, InviteSpawn, RemoveEvict, NextDelivery, CommandDone,
       AcquireNotice, Prepare, Recheck, SendRefused, Begin, Track, Abort, ShutdownAwait,
       ShutdownCancelAll, ShutdownSnapshot, ShutdownDone
  <2>. QED  BY <1>f, <2>1
<1>. QED
  BY <1>1, <1>2, <1>3, <1>4, <1>5, <1>6, <1>7, <1>8, <1>9 DEF Next

\* How a start goroutine ends.
LEMMA LiveStep ==
    ASSUME IInv, Unspawned, [Next]_vars, NEW i \in Inc
    PROVE  spc[i] \in Live => \/ spc'[i] \in Live
                              \/ StartReady(i) /\ spc'[i] = "started"
                              \/ proc'[i] # "running"
<1>t. TypeOK
  BY DEF IInv
<1>g. \A from, to : StartGo(i, from, to) => spc[i] = from /\ spc'[i] = to
  BY <1>t DEF StartGo, TypeOK
<1>1. SUFFICES ASSUME spc[i] \in Live, spc'[i] \notin Live, proc'[i] = "running"
               PROVE  StartReady(i) /\ spc'[i] = "started"
  OBVIOUS
<1>2. InviteSpawn => spc'[i] = spc[i]
  BY <1>t, <1>1 DEF InviteSpawn, TypeOK, Unspawned, Live
<1>3. StartStep(i)
  <2>1. ASSUME NEW j \in Inc, StartStep(j), j # i
        PROVE  FALSE
    BY <1>1, <2>1, StartChanges
  <2>2. \A a \in Alias : InviteAdd(a) => spc' = spc
    BY DEF InviteAdd
  <2>3. (\E j \in Inc : StartStep(j)) \/ InviteSpawn \/ spc' = spc
    BY <2>2, NextShape DEF StepShape, Still, MovesHolder, Withdraws, Sweep
  <2>. QED  BY <1>1, <1>2, <2>1, <2>3
<1>4. ~ StartStop(i)
  <2>1. StartStop(i) => StopAgent(i)
    BY DEF StartStop
  <2>. QED  BY <1>1, <2>1, StopKinds
<1>. QED
  BY <1>1, <1>3, <1>4, <1>g DEF Live, StartStep, StartOK, StartFail, StartFailContext,
     StartFailCrash, StartAttach, StartCommit, StartReady, StartAnnounce, StartCleanup,
     StartUndo

\* Where startup is published, the participant is there and ready.
LEMMA PublishStep ==
    ASSUME IInv, StartsAlone, NEW i \in Inc, StartReady(i),
           rd'[i] # rd[i] \/ spc'[i] = "started"
    PROVE  /\ spc[i] = "ready" /\ spc'[i] = "started" /\ ex' = ex /\ proc' = proc
           /\ aliasOf' = aliasOf
           /\ aliasOf[i] \in Alias /\ registry[aliasOf[i]] = i /\ registry' = registry
           /\ part[i].status = "idle" /\ part'[i].status = "idle"
           /\ part'[i].ready /\ part'[i].agent = part[i].agent
<1>. DEFINE a == aliasOf[i]
<1>1. spc[i] = "ready" /\ (rd'[i] # rd[i] \/ spc'[i] # "cleanup")
  BY DEF StartReady, StartGo
<1>2. a \in Alias
  BY <1>1 DEF IInv, Named
<1>3. Registered(a) /\ CanSessionReady(Holder(a))
  BY <1>1 DEF StartReady, StartGo, IInv, TypeOK
<1>4. registry[a] = i
  BY <1>1, <1>3 DEF StartsAlone
<1>5. Holder(a) = part[i] /\ part[i] \in P
  BY <1>2, <1>3, <1>4, HolderTyped DEF Holder, IInv
<1>6. part' = [part EXCEPT ![i] = SessionReady(part[i])]
  BY <1>3, <1>4, <1>5 DEF StartReady, SetHolderIf, SetHolder
<1>7. part'[i] = SessionReady(part[i])
  BY <1>6 DEF IInv, TypeOK
<1>8. /\ SessionReady(part[i]).ready /\ SessionReady(part[i]).status = part[i].status
      /\ SessionReady(part[i]).agent = part[i].agent
  BY <1>5 DEF SessionReady, P, Participants
<1>. QED
  BY <1>1, <1>2, <1>3, <1>4, <1>5, <1>7, <1>8
  DEF StartReady, StartGo, CanSessionReady, IInv, TypeOK, tables, agents, ids

LEMMA UnreadyStep ==
    ASSUME IInv, Own, Unspawned, StartsAlone, Handled, FreshOK, UnreadyOK, [Next]_vars
    PROVE  UnreadyOK'
<1>1. SUFFICES ASSUME NEW b \in Alias, Registered(b)', ~ Holder(b)'.ready,
                      NEW i, i = registry'[b]
               PROVE  /\ rd'[i].pc = "none"
                      /\ Clean(i)'
                      /\ proc'[i] = "running" => spc'[i] \in Live
  BY DEF UnreadyOK
<1>2. CASE InviteAdd(b)
  BY <1>1, <1>2, NewIsFresh
<1>3. CASE ~ InviteAdd(b)
  <2>1. Registered(b) /\ registry[b] = i /\ i \in Inc /\ ~ Holder(b).ready
    BY <1>1, <1>3, RegisteredStep
  <2>2. rd[i].pc = "none" /\ Clean(i) /\ (proc[i] = "running" => spc[i] \in Live)
    BY <2>1 DEF UnreadyOK
  <2>3. ~ (StartReady(i) /\ (rd'[i] # rd[i] \/ spc'[i] = "started"))
    BY <1>1, <2>1, PublishStep DEF Holder
  <2>4. ~ (SendAccepted /\ ex.agent = i)
    <3>1. ASSUME SendAccepted, ex.agent = i
          PROVE  FALSE
      <4>1. /\ ex.alias \in Alias /\ Registered(ex.alias) /\ Holder(ex.alias).ready
            /\ registry[ex.alias] = i
        BY <2>1, <3>1 DEF SendAccepted, Handled, Sendable, IInv, Named, Inc
      <4>. QED  BY <2>1, <4>1 DEF Holder
    <3>. QED  BY <3>1
  <2>5. rd'[i].pc = "none" /\ Clean(i)'
    BY <2>1, <2>2, <2>3, <2>4, ProcessStep
  <2>6. proc'[i] = "running" => spc'[i] \in Live
    <3>1. StartOK(i) => spc'[i] = "attach"
      BY <2>1 DEF StartOK, StartGo, IInv, TypeOK
    <3>. QED  BY <2>1, <2>2, <2>3, <3>1, ProcessStep, LiveStep DEF Live
  <2>. QED  BY <2>5, <2>6
<1>. QED  BY <1>2, <1>3

LEMMA CommitStep ==
    ASSUME IInv, [Next]_vars, NEW i \in Inc, spc'[i] \in {"commit", "ready"}
    PROVE  \/ spc[i] \in {"commit", "ready"}
           \/ StartAttach(i) /\ runtime[aliasOf[i]].present
<1>g. \A from, to : StartGo(i, from, to) => spc[i] = from /\ spc'[i] = to
  BY DEF StartGo, IInv, TypeOK
<1>1. CASE StartStep(i)
  <2>1. StartAttach(i) \/ StartCommit(i)
    BY <1>1, <1>g DEF StartStep, StartOK, StartFail, StartFailContext, StartFailCrash,
       StartReady, StartAnnounce, StartCleanup, StartUndo, StartStop
  <2>. QED  BY <1>g, <2>1 DEF StartAttach, StartCommit
<1>2. CASE ~ StartStep(i)
  <2>1. InviteSpawn => spc'[i] = spc[i] \/ spc'[i] = "start"
    BY DEF InviteSpawn, IInv, TypeOK
  <2>2. \A a \in Alias : InviteAdd(a) => spc' = spc
    BY DEF InviteAdd
  <2>3. (\E j \in Inc : StartStep(j)) \/ InviteSpawn \/ spc' = spc
    BY <2>2, NextShape DEF StepShape, Still, MovesHolder, Withdraws, Sweep
  <2>. QED  BY <1>2, <2>1, <2>3, StartChanges
<1>. QED  BY <1>1, <1>2

\* The snapshot of shutdown holds the bound agents, and each is stopped before
\* shutdown is over.
LEMMA SnapshotStep ==
    ASSUME IInv, [Next]_vars, NEW a \in Alias, NEW i \in Inc, Registered(a),
           Holder(a).agent = i, proc[i] = "running", proc'[i] = "running",
           ex.pc = "stopAll" => i \in ex.stops, ex.pc # "down"
    PROVE  (ex'.pc = "stopAll" => i \in ex'.stops) /\ ex'.pc # "down"
<1>t. ex \in Execs
  BY DEF IInv, TypeOK
<1>1. CASE ExecStep
  <2>1. ShutdownSnapshot => i \in ex'.stops /\ ex'.pc # "down"
    BY <1>t DEF ShutdownSnapshot, Execs, Inc
  <2>2. ASSUME NEW j \in Inc, ShutdownStop(j)
        PROVE  i \in ex'.stops /\ ex'.pc # "down"
    <3>1. i # j
      BY <2>2, StopKinds DEF ShutdownStop
    <3>. QED  BY <1>t, <2>2, <3>1 DEF ShutdownStop, Execs
  <2>3. ~ ShutdownDone
    BY DEF ShutdownDone
  <2>. QED  BY <1>1, <2>1, <2>2, <2>3, ComesFrom
<1>2. CASE UserCommand
  BY <1>2, UserBegins
<1>. QED  BY <1>1, <1>2, OthersFrame DEF Next

LEMMA StopsStep ==
    ASSUME IInv, Own, StartsAlone, RuntimeOK, StopsOK, [Next]_vars
    PROVE  StopsOK'
<1>1. SUFFICES ASSUME NEW b \in Alias, Registered(b)', NEW i, i = registry'[b],
                      spc'[i] \in {"commit", "ready"}, proc'[i] = "running",
                      ex'.pc \in {"stopAll", "down"}
               PROVE  (ex'.pc = "stopAll" => i \in ex'.stops) /\ ex'.pc # "down"
  BY DEF StopsOK
<1>2. ~ InviteAdd(b)
  BY <1>1, InviteChanges
<1>3. Registered(b) /\ registry[b] = i /\ i \in Inc
  BY <1>1, <1>2, RegisteredStep
<1>4. aliasOf[i] = b
  BY <1>3 DEF IInv, RegistryOK
<1>5. ex.pc \in Closing
  BY <1>1, ComesFrom, UserBegins, OthersFrame DEF Next, Closing, ShutdownSnapshot, ShutdownStop,
     ShutdownDone
<1>6. spc[i] \in {"commit", "ready"}
  BY <1>1, <1>3, <1>4, <1>5, CommitStep DEF RuntimeOK
<1>7. proc[i] = "running"
  <2>1. StartOK(i) => spc'[i] = "attach"
    BY <1>3 DEF StartOK, StartGo, IInv, TypeOK
  <2>. QED  BY <1>1, <1>3, <2>1, ProcessStep
<1>8. Holder(b).agent = i
  BY <1>3, <1>6 DEF Own, OwnOK, Holder
<1>. QED  BY <1>1, <1>3, <1>6, <1>7, <1>8, SnapshotStep DEF StopsOK

LEMMA EvictStep ==
    ASSUME IInv, Own, Unspawned, NoStragglers, FreshOK, RuntimeOK, UnreadyOK, EvictOK,
           [Next]_vars
    PROVE  EvictOK'
<1>s. StartsAlone
  BY StragglersAlone
<1>1. SUFFICES ASSUME NEW a, a = ex'.alias, NEW i, i = registry'[a], ex'.pc = "evict",
                      Registered(a)', proc'[i] = "running"
               PROVE  /\ Holder(a)'.status = "crashed" => spc'[i] \in Live
                      /\ Clean(i)'
                      /\ rd'[i].pc \notin Failing
  BY DEF EvictOK, Registered, Holder
<1>2. CASE UserCommand
  <2>1. PICK b \in Alias : RemoveUnattached(b)
    BY <1>1, <1>2, UserBegins
  <2>2. a = b /\ UNCHANGED <<registry, part, proc, task, pipe, rd, spc>>
    BY <1>1, <2>1 DEF RemoveUnattached, ExecIdle, tables, agents
  <2>3. Registered(a) /\ registry[a] # 0 /\ registry[a] = i /\ runtime[a].stop = 0 /\ ex.pc = "idle"
    BY <1>1, <2>1, <2>2 DEF RemoveUnattached, Registered
  <2>4. ~ Entered(a)
    BY <2>2, <2>3 DEF RuntimeOK, Closing
  <2>5. rd[i].pc = "none" /\ Clean(i) /\ (proc[i] = "running" => spc[i] \in Live)
    BY <2>2, <2>3, <2>4 DEF UnreadyOK, Entered
  <2>. QED  BY <1>1, <2>2, <2>5 DEF Clean, Failing
<1>3. CASE ~ UserCommand
  <2>1. ex' = ex /\ ~ SendAccepted
    <3>1. ~ ExecStep
      BY <1>1, ComesFrom
    <3>. QED  BY <1>3, <3>1, OthersFrame DEF Next, ExecStep
  <2>2. a \in Alias /\ ~ InviteAdd(a)
    BY <1>1, <2>1, InviteChanges DEF IInv, Named
  <2>3. /\ Registered(a) /\ registry[a] = i /\ i \in Inc
        /\ Holder(a)'.status = "crashed" =>
             \/ Holder(a).status = "crashed"
             \/ \E j \in Inc : aliasOf[j] = a /\ (rd[j].pc = "crash" \/ spc[j] = "failCrash")
    BY <1>1, <1>s, <2>2, RegisteredStep
  <2>4. CASE StartOK(i)
    <3>1. spc[i] = "start" /\ spc'[i] = "attach" /\ UNCHANGED <<rd, pipe, task>>
      BY <2>3, <2>4 DEF StartOK, StartGo, IInv, TypeOK
    <3>2. rd[i].pc = "none" /\ pipe[i] = <<>> /\ task[i] = "none"
      BY <2>3, <3>1 DEF FreshOK, Fresh, Unborn
    <3>3. \A k \in DOMAIN <<>> : FALSE
      OBVIOUS
    <3>. QED  BY <3>1, <3>2, <3>3 DEF Clean, Failing, Live
  <2>5. CASE ~ StartOK(i)
    <3>1. proc[i] = "running"
      BY <1>1, <2>3, <2>5, ProcessStep
    <3>2. /\ Holder(a).status = "crashed" => spc[i] \in Live
          /\ Clean(i) /\ rd[i].pc \notin Failing
      BY <1>1, <2>1, <2>3, <3>1 DEF EvictOK
    <3>3. Clean(i)' /\ rd'[i].pc \notin Failing
      BY <2>1, <2>3, <3>1, <3>2, ProcessStep
    <3>4. ASSUME Holder(a)'.status = "crashed"
          PROVE  spc'[i] \in Live
      <4>1. ASSUME NEW j \in Inc, aliasOf[j] = a, rd[j].pc = "crash" \/ spc[j] = "failCrash"
            PROVE  FALSE
        <5>1. j = i
          BY <2>3, <4>1, NoStraggler DEF Straggles
        <5>2. spc[i] # "failCrash"
          BY <2>3, <3>1 DEF FreshOK, Fresh, Unborn
        <5>. QED  BY <3>2, <4>1, <5>1, <5>2 DEF Failing
      <4>2. spc[i] \in Live
        BY <2>3, <3>2, <3>4, <4>1
      <4>3. ~ (StartReady(i) /\ spc'[i] = "started")
        BY <1>1, <1>s, <2>3, <3>4, PublishStep DEF Holder
      <4>. QED  BY <1>1, <2>3, <4>2, <4>3, LiveStep
    <3>. QED  BY <3>3, <3>4
  <2>. QED  BY <2>4, <2>5
<1>. QED  BY <1>2, <1>3

\* Who withdraws a participant.
LEMMA GoneStep ==
    ASSUME IInv, [Next]_vars, NEW a \in Alias, Registered(a), ~ Registered(a)'
    PROVE  \/ RemoveDetach(a)
           \/ RemoveEvict /\ ex.alias = a /\ Holder(a).status = "crashed"
           \/ \E j \in Inc : StartCleanup(j) /\ aliasOf[j] = a
<1>. USE DEF tables, flags, ids, agents, keepers
<1>k. registry' # registry
  BY DEF Registered
<1>f. ASSUME NEW b \in Alias, Forget(b)
      PROVE  a = b
  BY <1>f, ForgetKept
<1>1. ASSUME NEW j \in Inc, StartStep(j)
      PROVE  StartCleanup(j) /\ aliasOf[j] = a
  <2>1. StartCleanup(j)
    BY <1>1, <1>k DEF StartStep, StartOK, StartFail, StartFailContext, StartFailCrash,
       StartAttach, StartCommit, StartReady, StartAnnounce, StartUndo, StartStop
  <2>2. aliasOf[j] \in Alias
    BY <1>1, StartChanges DEF IInv, Named
  <2>. QED  BY <1>f, <2>1, <2>2 DEF StartCleanup
<1>2. CASE UserCommand
  <2>1. ASSUME NEW b \in Alias, InviteAdd(b)
        PROVE  FALSE
    <3>1. registry'[b] \in Inc /\ \A c \in Alias : c # b => registry'[c] = registry[c]
      BY <2>1, InviteChanges
    <3>. QED  BY <3>1 DEF Registered, Inc
  <2>2. PICK b \in Alias : RemoveDetach(b)
    BY <1>2, <1>k, <2>1 DEF UserCommand, RemoveUnattached, SendCommand,
       HandoffCommand, BroadcastCommand, FrozenBroadcast, BeginCommand, ShutdownBegin
  <2>. QED  BY <1>f, <2>2 DEF RemoveDetach
<1>3. CASE ExecStep
  <2>1. RemoveEvict
    BY <1>3, <1>k DEF ExecStep, InviteReserve, InviteSpawn, RemoveStop, NextDelivery, CommandDone,
       AcquireNotice, Prepare, Recheck, SendAccepted, SendRefused, Begin, Track, Abort,
       ShutdownAwait, ShutdownCancelAll, ShutdownSnapshot, ShutdownStop, ShutdownDone
  <2>2. ex.alias \in Alias
    BY <2>1 DEF RemoveEvict, IInv, Named
  <2>. QED  BY <1>f, <1>k, <2>1, <2>2 DEF RemoveEvict
<1>4. ASSUME NEW i \in Inc, AgentStep(i) \/ ReaderStep(i) \/ KeeperStep(i)
      PROVE  FALSE
  BY <1>k, <1>4 DEF AgentStep, AgentOutput, AgentFinish, AgentFailTurn, AgentExit,
     ReaderStep, ReadMessage, ReadEnd, ReaderDropCheck, ReaderTrack, ReaderClose,
     ReaderMarkIdle, ReaderFinish, ReaderErrCheck, ReaderCrash, ReaderTerminal,
     KeeperStep, KeepaliveAccepted, KeepaliveFailed, KeepaliveRelease
<1>5. Sweep \/ SweeperExit \/ UNCHANGED vars => FALSE
  BY <1>k DEF Sweep, SweeperExit, vars
<1>. QED  BY <1>1, <1>2, <1>3, <1>4, <1>5 DEF Next

LEMMA LeakStep ==
    ASSUME IInv, Own, Unspawned, StartsAlone, FreshOK, LeakOK, [Next]_vars
    PROVE  NoProcessLeak'
<1>. DEFINE Watched(i) ==
            \/ spc[i] \in Live
            \/ /\ registry[aliasOf[i]] = i
               /\ part[i].agent = i
               /\ ex.pc = "stopAll" => i \in ex.stops
               /\ ex.pc # "down"
            \/ ex.pc = "stop" /\ ex.agent = i
<1>1. SUFFICES ASSUME NEW i \in Inc, proc'[i] = "running"
               PROVE  Watched(i)'
  BY DEF NoProcessLeak, Live
<1>2. CASE StartOK(i)
  <2>1. spc'[i] = "attach"
    BY <1>2 DEF StartOK, StartGo, IInv, TypeOK
  <2>. QED  BY <2>1 DEF Live
<1>3. CASE ~ StartOK(i)
  <2>1. proc[i] = "running" /\ Watched(i)
    <3>1. proc[i] = "running"
      BY <1>1, <1>3, ProcessStep
    <3>. QED  BY <3>1 DEF LeakOK, NoProcessLeak, Live
  <2>2. spc[i] # "none" /\ aliasOf[i] \in Alias
    BY <2>1 DEF FreshOK, Fresh, Unborn, IInv, Named
  <2>3. aliasOf'[i] = aliasOf[i]
    <3>1. ASSUME NEW b \in Alias, InviteAdd(b)
          PROVE  aliasOf'[i] = aliasOf[i]
      BY <2>2, <3>1, InviteChanges
    <3>. QED  BY <3>1, LaunchStep
  <2>4. CASE spc[i] \in Live
    <3>1. CASE StartReady(i) /\ spc'[i] = "started"
      <4>1. /\ spc[i] = "ready" /\ ex' = ex /\ registry[aliasOf[i]] = i /\ registry' = registry
            /\ part'[i].agent = part[i].agent
        BY <3>1, PublishStep
      <4>2. Registered(aliasOf[i])
        BY <4>1 DEF Registered, Inc
      <4>3. part[i].agent = i
        BY <2>2, <4>1, <4>2 DEF Own, OwnOK
      <4>4. (ex.pc = "stopAll" => i \in ex.stops) /\ ex.pc # "down"
        BY <2>1, <2>2, <4>1, <4>2 DEF LeakOK, StopsOK
      <4>. QED  BY <2>3, <4>1, <4>3, <4>4
    <3>2. CASE ~ (StartReady(i) /\ spc'[i] = "started")
      BY <1>1, <2>4, <3>2, LiveStep
    <3>. QED  BY <3>1, <3>2
  <2>5. CASE spc[i] \notin Live /\ ~ (ex.pc = "stop" /\ ex.agent = i)
    <3>. DEFINE a == aliasOf[i]
    <3>1. /\ registry[a] = i /\ part[i].agent = i /\ a \in Alias /\ Registered(a)
          /\ Holder(a) = part[i]
          /\ ex.pc = "stopAll" => i \in ex.stops
          /\ ex.pc # "down"
      BY <2>1, <2>2, <2>5 DEF Registered, Holder, Inc
    <3>2. PICK b \in Alias : b = a
      BY <3>1
    <3>3. CASE Registered(b)'
      <4>1. ~ InviteAdd(b)
        BY <3>1, <3>2, InviteChanges
      <4>2. registry'[b] = i /\ part'[i].agent = i
        <5>1. registry'[b] = registry[b] /\ (Holder(b).agent # 0 => Holder(b)'.agent = Holder(b).agent)
          BY <3>3, <4>1, RegisteredStep
        <5>. QED  BY <3>1, <3>2, <5>1 DEF Holder, Inc
      <4>3. (ex'.pc = "stopAll" => i \in ex'.stops) /\ ex'.pc # "down"
        BY <1>1, <2>1, <3>1, SnapshotStep
      <4>. QED  BY <2>3, <3>2, <4>2, <4>3
    <3>4. CASE ~ Registered(b)'
      <4>1. CASE RemoveDetach(b)
        BY <3>1, <3>2, <4>1 DEF RemoveDetach, ExecIdle
      <4>2. CASE RemoveEvict /\ ex.alias = b /\ Holder(b).status = "crashed"
        BY <2>1, <2>5, <3>1, <3>2, <4>2 DEF RemoveEvict, LeakOK, EvictOK
      <4>3. ASSUME NEW j \in Inc, StartCleanup(j), aliasOf[j] = b
            PROVE  FALSE
        <5>1. spc[j] = "cleanup"
          BY <4>3 DEF StartCleanup, StartGo
        <5>2. j = i
          BY <3>1, <3>2, <4>3, <5>1 DEF StartsAlone
        <5>. QED  BY <2>5, <5>1, <5>2 DEF Live
      <4>. QED  BY <3>1, <3>2, <3>4, <4>1, <4>2, <4>3, GoneStep
    <3>. QED  BY <3>3, <3>4
  <2>6. CASE ex.pc = "stop" /\ ex.agent = i
    <3>1. ~ UserCommand
      BY <2>6, UserBegins
    <3>2. ~ ExecStep
      <4>1. ASSUME ExecStep
            PROVE  RemoveStop
        BY <2>6, <4>1 DEF ExecStep, InviteReserve, InviteSpawn, RemoveEvict, NextDelivery,
           CommandDone, AcquireNotice, Prepare, Recheck, SendAccepted, SendRefused, Begin, Track,
           Abort, ShutdownAwait, ShutdownCancelAll, ShutdownSnapshot, ShutdownStop, ShutdownDone
      <4>2. ~ StopAgent(i)
        BY <1>1, StopKinds
      <4>. QED  BY <2>6, <4>1, <4>2 DEF RemoveStop
    <3>. QED  BY <2>6, <3>1, <3>2, OthersFrame DEF Next
  <2>. QED  BY <2>4, <2>5, <2>6
<1>. QED  BY <1>2, <1>3

LEMMA LeakInit == Init => LeakOK
BY DEF Init, LeakOK, UnreadyOK, StopsOK, EvictOK, NoProcessLeak, Registered, ExecIdle

\* The inductive invariant, under NoStragglers.
Watch == Handled /\ FreshOK /\ RuntimeOK /\ LeakOK

LEMMA WatchStep ==
    ASSUME IInv, Own, Unspawned, NoStragglers, Watch, [Next]_vars
    PROVE  Watch'
<1>1. StartsAlone
  BY StragglersAlone
<1>. QED
  BY <1>1, HandledStep, FreshStep, RuntimeStep, UnreadyStep, StopsStep, EvictStep, LeakStep
  DEF Watch, LeakOK

LEMMA WatchAlways == Spec /\ []NoStragglers => [](IInv /\ Own /\ Unspawned /\ Watch)
<1>1. IInv /\ NoStragglers => StartsAlone
  BY StragglersAlone
<1>2. Init => Watch
  <2>1. Init => Handled
    BY DEF Init, Handled, Sendable, Aimed, ExecIdle
  <2>. QED  BY <2>1, FreshInit, RuntimeInit, LeakInit DEF Watch
<1>3. (IInv /\ Own /\ Unspawned) /\ NoStragglers /\ Watch /\ [Next]_vars => Watch'
  BY WatchStep
<1>4. Spec /\ []NoStragglers => [](IInv /\ Own /\ Unspawned)
  BY <1>1, OwnAlways, Invariance, PTL
<1>. QED  BY <1>2, <1>3, <1>4, PTL DEF Spec

\* No backend process is left running with nobody to stop it: not by a startup
\* that fails at any point or races removal, eviction or shutdown, nor by
\* shutdown's snapshot, provided that nobody of an earlier invitation of its alias
\* still works under that alias.  (startInvitedAgent, RemoveCommand,
\* evictCrashedBeforeStart, ShutdownCommand.)
THEOREM NoProcessIsLeaked == Spec /\ []NoStragglers => []NoProcessLeak
<1>1. IInv /\ Own /\ Unspawned /\ Watch => NoProcessLeak
  BY DEF Watch, LeakOK
<1>. QED  BY <1>1, WatchAlways, PTL

\* An alias that is invited once needs no condition on the goroutines.
COROLLARY OnceIsSafe ==
    Spec /\ []InvitedOnce => [](ReadyIsRemovable /\ NoProcessLeak)
<1>1. IInv /\ InvitedOnce => NoStragglers
  BY OnceSuffices
<1>. QED  BY <1>1, Invariance, ReadyIsAlwaysRemovable, NoProcessIsLeaked, PTL

-----------------------------------------------------------------------------
(* The messages on their way.                                                *)

\* A message that ends what the agent was doing.
Ender(m) == m.mode \in {"keepalive", "fail"} \/ (m.mode = "flush" /\ m.id # "item")
Closes(m, s) == m.mode = "flush" /\ m.id = s

NoEnd(q)  == \A k \in DOMAIN q : ~ Ender(q[k])
\* The only ender is the answer to a ping, or is not.
OneEnd(q, ping) ==
    \E k \in DOMAIN q : /\ Ender(q[k])
                        /\ ping <=> q[k].mode = "keepalive"
                        /\ \A l \in DOMAIN q : Ender(q[l]) => l = k

Failed(q)   == \E k \in DOMAIN q : q[k].mode = "fail"
Flushed(q, s) == \E k \in DOMAIN q : Closes(q[k], s)
Twice(q, s) == \E k, l \in DOMAIN q : k # l /\ Closes(q[k], s) /\ Closes(q[l], s)

\* What is under way for participant i: the task of the agent, the ender in the
\* pipe, the ender the reader has in hand, or a step of a keepalive goroutine.
InHand(r) == \/ r.pc \in {"finish", "markIdle", "errCheck", "crash"}
             \/ r.pc = "close" /\ r.msg.id # "item"
Steps(i) == {step \in {"call", "failed"} : <<i, step>> \in kruns}

Rest(i) == task[i] = "none" /\ NoEnd(pipe[i]) /\ ~ InHand(rd[i]) /\ Steps(i) = {}
Turn(i) ==
    /\ Steps(i) = {}
    /\ \/ task[i] \in {"turn", "notice"} /\ NoEnd(pipe[i]) /\ ~ InHand(rd[i])
       \/ task[i] = "none" /\ OneEnd(pipe[i], FALSE) /\ ~ InHand(rd[i])
       \/ task[i] = "none" /\ NoEnd(pipe[i]) /\ InHand(rd[i]) /\ rd[i].pc # "finish"
Pinged(i) ==
    \/ /\ Steps(i) \in {{"call"}, {"failed"}}
       /\ task[i] = "none" /\ NoEnd(pipe[i]) /\ ~ InHand(rd[i])
    \/ /\ Steps(i) = {}
       /\ \/ task[i] = "keepalive" /\ NoEnd(pipe[i]) /\ ~ InHand(rd[i])
          \/ task[i] = "none" /\ OneEnd(pipe[i], TRUE) /\ ~ InHand(rd[i])
          \/ task[i] = "none" /\ NoEnd(pipe[i]) /\ rd[i].pc = "finish"

\* The status of a participant accounts for what its agent is doing.
Agrees(i) ==
    LET s == part[i].status IN
    /\ s \in {"starting", "attached", "idle"} => Rest(i)
    /\ s = "keepalive" => Pinged(i)
    /\ s = "preparing" => IF ex.pc = "begin" THEN Rest(i) \/ Turn(i) ELSE Rest(i)
    /\ s = "working" => Rest(i) \/ Turn(i)
AgreeOK == \A a \in Alias :
    Registered(a) /\ proc[registry[a]] = "running" => Agrees(registry[a])

\* Turns are anchored, and deliveries one at a time.
Anchors == {"turn", "notice"}
AnchorOK ==
    /\ \A a \in Alias : Registered(a) /\ Holder(a).status = "working" => Holder(a).anchor \in Anchors
    /\ ex.pc \in {"begin", "track"} => ex.anchor \in Anchors

Inactive(b) == Registered(b) => ~ HasActiveTurn(Holder(b))
QuietOK ==
    /\ ex.kind = "direct" => ex.todo = {}
    /\ ex.kind = "notice" => \/ ex.todo = {}
                             \/ ex.pc = "next" /\ \E b \in Alias : ex.todo = {b} /\ Inactive(b)
    /\ ex.pc = "acquire" => Inactive(ex.alias) /\ ex.kind = "notice"
    /\ ex.pc \in {"recheck", "send", "begin", "track", "abort"} /\ Registered(ex.alias) =>
          Holder(ex.alias).status \in {"preparing", "crashed"}

\* The end of a turn anchored at s: produced or on its way ...
Sent(i, s) ==
    \/ proc[i] # "running"
    \/ task[i] = s
    \/ Failed(pipe[i]) \/ Flushed(pipe[i], s)
    \/ rd[i].pc \in {"errCheck", "crash"}
\* ... being handled by the reader ...
Reading(i, s) ==
    \/ rd[i].pc = "close" /\ rd[i].msg.id = s
    \/ rd[i].pc = "markIdle" /\ s \notin part[i].open
\* ... or certain, also after one such message is wasted.
Sure(i, s) ==
    \/ proc[i] # "running"
    \/ rd[i].pc \in {"errCheck", "crash"}
    \/ Failed(pipe[i])
    \/ task[i] = s /\ Flushed(pipe[i], s)
    \/ Twice(pipe[i], s)
    \/ Reading(i, s) /\ Sent(i, s)

Accounted(a, i) ==
    LET p == part[i]
        s == p.anchor
    IN
    /\ p.status = "working" =>
         /\ s \notin p.open => rd[i].pc = "markIdle"
         /\ Reading(i, s) \/ Sent(i, s)
         /\ ex.pc = "track" /\ ex.alias = a /\ ex.anchor = s => Sure(i, s)
    /\ p.status = "preparing" /\ ex.pc = "begin" =>
         (rd[i].pc = "close" /\ rd[i].msg.id = ex.anchor) \/ Sent(i, ex.anchor)
AccountOK ==
    \A a \in Alias : Registered(a) /\ ~ early[registry[a]] => Accounted(a, registry[a])

\* The stop channel of a registered participant is open.
ClosedOK ==
    /\ \A i \in closed : i <= invited /\ registry[aliasOf[i]] # i
    /\ \A a \in Alias : runtime[a].stop # 0 =>
          runtime[a].stop <= invited /\ aliasOf[runtime[a].stop] = a

LEMMA Empty ==
    /\ NoEnd(<<>>) /\ ~ Failed(<<>>)
    /\ \A s : ~ Flushed(<<>>, s) /\ ~ Twice(<<>>, s)
<1>1. DOMAIN <<>> = {}
  OBVIOUS
<1>. QED  BY <1>1 DEF NoEnd, Failed, Flushed, Twice

LEMMA AppendAt ==
    ASSUME NEW q \in Seq(Messages), NEW m
    PROVE  /\ \A k \in DOMAIN q : k \in DOMAIN Append(q, m) /\ Append(q, m)[k] = q[k]
           /\ \A k \in DOMAIN Append(q, m) : k \in DOMAIN q \/ k = Len(q) + 1
           /\ Len(q) + 1 \in DOMAIN Append(q, m) /\ Append(q, m)[Len(q) + 1] = m
           /\ Len(q) + 1 \notin DOMAIN q
OBVIOUS

LEMMA AppendEnds ==
    ASSUME NEW q \in Seq(Messages), NEW m
    PROVE  /\ NoEnd(q) /\ ~ Ender(m) => NoEnd(Append(q, m))
           /\ NoEnd(q) /\ Ender(m) => OneEnd(Append(q, m), m.mode = "keepalive")
           /\ Failed(q) \/ m.mode = "fail" => Failed(Append(q, m))
           /\ \A s : /\ Flushed(q, s) \/ Closes(m, s) => Flushed(Append(q, m), s)
                     /\ Twice(q, s) \/ (Flushed(q, s) /\ Closes(m, s)) => Twice(Append(q, m), s)
<1>. DEFINE r == Append(q, m)
            n == Len(q) + 1
<1>a. /\ \A k \in DOMAIN q : k \in DOMAIN r /\ r[k] = q[k]
      /\ \A k \in DOMAIN r : k \in DOMAIN q \/ k = n
      /\ n \in DOMAIN r /\ r[n] = m /\ n \notin DOMAIN q
  BY AppendAt
<1>. HIDE DEF r, n
<1>1. NoEnd(q) /\ ~ Ender(m) => NoEnd(r)
  BY <1>a DEF NoEnd
<1>2. NoEnd(q) /\ Ender(m) => OneEnd(r, m.mode = "keepalive")
  BY <1>a DEF NoEnd, OneEnd
<1>3. Failed(q) \/ m.mode = "fail" => Failed(r)
  BY <1>a DEF Failed
<1>4. ASSUME NEW s
      PROVE  /\ Flushed(q, s) \/ Closes(m, s) => Flushed(r, s)
             /\ Twice(q, s) \/ (Flushed(q, s) /\ Closes(m, s)) => Twice(r, s)
  BY <1>a DEF Flushed, Twice
<1>. QED  BY <1>1, <1>2, <1>3, <1>4 DEF r

LEMMA TailAt ==
    ASSUME NEW q \in Seq(Messages), q # <<>>
    PROVE  /\ Tail(q) \in Seq(Messages) /\ Head(q) \in Messages
           /\ 1 \in DOMAIN q /\ Head(q) = q[1]
           /\ \A k \in DOMAIN Tail(q) : k + 1 \in DOMAIN q /\ Tail(q)[k] = q[k + 1] /\ k \in Nat /\ k # 0
           /\ \A k \in DOMAIN q : k = 1 \/ (k \in Nat /\ k - 1 \in DOMAIN Tail(q) /\ Tail(q)[k - 1] = q[k])
<1>1. Tail(q) \in Seq(Messages) /\ Head(q) \in Messages /\ 1 \in DOMAIN q /\ Head(q) = q[1]
  OBVIOUS
<1>2. \A k \in DOMAIN Tail(q) : k + 1 \in DOMAIN q /\ Tail(q)[k] = q[k + 1] /\ k \in Nat /\ k # 0
  OBVIOUS
<1>3. \A k \in DOMAIN q : k = 1 \/ (k \in Nat /\ k - 1 \in DOMAIN Tail(q) /\ Tail(q)[k - 1] = q[k])
  OBVIOUS
<1>. QED  BY <1>1, <1>2, <1>3

LEMMA TailEnds ==
    ASSUME NEW q \in Seq(Messages), q # <<>>
    PROVE  /\ NoEnd(q) => ~ Ender(Head(q)) /\ NoEnd(Tail(q))
           /\ \A ping \in BOOLEAN : OneEnd(q, ping) =>
                IF Ender(Head(q)) THEN NoEnd(Tail(q)) /\ (ping <=> Head(q).mode = "keepalive")
                ELSE OneEnd(Tail(q), ping)
           /\ Failed(q) => Head(q).mode = "fail" \/ Failed(Tail(q))
           /\ \A s : /\ Flushed(q, s) => Closes(Head(q), s) \/ Flushed(Tail(q), s)
                     /\ Twice(q, s) => Twice(Tail(q), s)
                                        \/ (Closes(Head(q), s) /\ Flushed(Tail(q), s))
<1>. DEFINE r == Tail(q)
            h == Head(q)
<1>a. /\ 1 \in DOMAIN q /\ h = q[1]
      /\ \A k \in DOMAIN r : k + 1 \in DOMAIN q /\ r[k] = q[k + 1] /\ k \in Nat /\ k # 0
      /\ \A k \in DOMAIN q : k = 1 \/ (k \in Nat /\ k - 1 \in DOMAIN r /\ r[k - 1] = q[k])
  BY TailAt
<1>. HIDE DEF r, h
<1>1. NoEnd(q) => ~ Ender(h) /\ NoEnd(r)
  BY <1>a DEF NoEnd
<1>2. ASSUME NEW ping \in BOOLEAN, OneEnd(q, ping)
      PROVE  IF Ender(h) THEN NoEnd(r) /\ (ping <=> h.mode = "keepalive")
             ELSE OneEnd(r, ping)
  <2>1. PICK k \in DOMAIN q : /\ Ender(q[k]) /\ (ping <=> q[k].mode = "keepalive")
                              /\ \A l \in DOMAIN q : Ender(q[l]) => l = k
    BY <1>2 DEF OneEnd
  <2>2. CASE Ender(h)
    <3>1. k = 1
      BY <1>a, <2>1, <2>2
    <3>2. ASSUME NEW l \in DOMAIN r, Ender(r[l])
          PROVE  FALSE
      <4>1. l + 1 \in DOMAIN q /\ r[l] = q[l + 1] /\ l \in Nat /\ l # 0
        BY <1>a, <3>2
      <4>2. l + 1 = k
        BY <2>1, <3>2, <4>1
      <4>. QED  BY <3>1, <4>1, <4>2
    <3>. QED  BY <1>a, <2>1, <2>2, <3>1, <3>2 DEF NoEnd
  <2>3. CASE ~ Ender(h)
    <3>1. k # 1 /\ k \in Nat /\ k - 1 \in DOMAIN r /\ r[k - 1] = q[k]
      BY <1>a, <2>1, <2>3
    <3>2. ASSUME NEW l \in DOMAIN r, Ender(r[l])
          PROVE  l = k - 1
      <4>1. l + 1 \in DOMAIN q /\ r[l] = q[l + 1] /\ l \in Nat
        BY <1>a, <3>2
      <4>2. l + 1 = k
        BY <2>1, <3>2, <4>1
      <4>. QED  BY <3>1, <4>1, <4>2
    <3>. QED  BY <2>1, <2>3, <3>1, <3>2 DEF OneEnd
  <2>. QED  BY <2>2, <2>3
<1>3. Failed(q) => h.mode = "fail" \/ Failed(r)
  BY <1>a DEF Failed
<1>4. ASSUME NEW s
      PROVE  /\ Flushed(q, s) => Closes(h, s) \/ Flushed(r, s)
             /\ Twice(q, s) => Twice(r, s) \/ (Closes(h, s) /\ Flushed(r, s))
  <2>1. Flushed(q, s) => Closes(h, s) \/ Flushed(r, s)
    BY <1>a DEF Flushed
  <2>2. ASSUME Twice(q, s)
        PROVE  Twice(r, s) \/ (Closes(h, s) /\ Flushed(r, s))
    <3>1. PICK k, l \in DOMAIN q : k # l /\ Closes(q[k], s) /\ Closes(q[l], s)
      BY <2>2 DEF Twice
    <3>2. CASE k = 1
      BY <1>a, <3>1, <3>2 DEF Flushed
    <3>3. CASE l = 1
      BY <1>a, <3>1, <3>3 DEF Flushed
    <3>4. CASE k # 1 /\ l # 1
      <4>1. /\ k \in Nat /\ k - 1 \in DOMAIN r /\ r[k - 1] = q[k]
            /\ l \in Nat /\ l - 1 \in DOMAIN r /\ r[l - 1] = q[l]
        BY <1>a, <3>4
      <4>2. k - 1 # l - 1
        BY <3>1, <4>1
      <4>. QED  BY <3>1, <4>1, <4>2 DEF Twice
    <3>. QED  BY <3>2, <3>3, <3>4
  <2>. QED  BY <2>1, <2>2
<1>. QED  BY <1>1, <1>2, <1>3, <1>4 DEF r, h

-----------------------------------------------------------------------------
(* What a step does to the participant i registered under b, its agent and   *)
(* its reader.                                                               *)

Quiet(i) == /\ part'[i] = part[i] /\ early'[i] = early[i]
            /\ pipe'[i] = pipe[i] /\ rd'[i] = rd[i]
            /\ Steps(i)' = Steps(i)
Runs(i)  == proc'[i] = proc[i] /\ task'[i] = task[i]

AgentMoves(i) ==
    /\ ex' = ex /\ part'[i] = part[i] /\ early'[i] = early[i]
    /\ rd'[i] = rd[i] /\ Steps(i)' = Steps(i)
    /\ proc[i] = "running"
    /\ \/ /\ Runs(i) /\ task[i] = "turn"
          /\ \E m \in Messages : ~ Ender(m) /\ pipe'[i] = Append(pipe[i], m)
       \/ /\ proc'[i] = "running" /\ task[i] # "none" /\ task'[i] = "none"
          /\ \E m \in Messages :
               /\ Ender(m) /\ pipe'[i] = Append(pipe[i], m)
               /\ m.mode = "keepalive" <=> task[i] = "keepalive"
               /\ m.mode = "fail" \/ task[i] = "keepalive" \/ Closes(m, task[i])
       \/ proc'[i] # "running" /\ task'[i] = "none" /\ pipe'[i] = pipe[i]

LEMMA AgentView ==
    ASSUME IInv, NEW i \in Inc, AgentStep(i)
    PROVE  AgentMoves(i)
<1>t. TypeOK
  BY DEF IInv
<1>. USE DEF tables, flags, ids, agents, keepers
<1>1. ASSUME NEW m, Emit(i, m)
      PROVE  pipe'[i] = Append(pipe[i], m)
  BY <1>t, <1>1 DEF Emit, TypeOK
<1>2. CASE AgentOutput(i)
  <2>1. PICK m \in {[mode |-> "stream", id |-> "item"],
                    [mode |-> "flush",  id |-> "item"],
                    [mode |-> "stream", id |-> "turn"]} : Emit(i, m)
    BY <1>2 DEF AgentOutput
  <2>2. m \in Messages /\ ~ Ender(m)
    BY <2>1 DEF Messages, Ender, Streams
  <2>. QED  BY <1>1, <1>2, <2>1, <2>2 DEF AgentOutput, AgentMoves, Runs, Steps
<1>3. CASE AgentFinish(i)
  <2>. DEFINE m == IF task[i] = "keepalive" THEN [mode |-> "keepalive", id |-> NoStream]
                   ELSE [mode |-> "flush", id |-> task[i]]
  <2>1. task[i] \in {"turn", "notice", "keepalive"}
    BY <1>t, <1>3 DEF AgentFinish, TypeOK
  <2>2. /\ m \in Messages /\ Ender(m)
        /\ m.mode = "keepalive" <=> task[i] = "keepalive"
        /\ m.mode = "fail" \/ task[i] = "keepalive" \/ Closes(m, task[i])
    BY <2>1 DEF Messages, Ender, Streams, Closes, NoStream
  <2>3. Emit(i, m) /\ task'[i] = "none"
    BY <1>t, <1>3 DEF AgentFinish, TypeOK
  <2>. HIDE DEF m
  <2>4. pipe'[i] = Append(pipe[i], m)
    BY <1>1, <2>3
  <2>5. /\ ex' = ex /\ part'[i] = part[i] /\ early'[i] = early[i]
        /\ rd'[i] = rd[i] /\ Steps(i)' = Steps(i)
        /\ proc[i] = "running" /\ proc'[i] = "running" /\ task[i] # "none"
    BY <1>3 DEF AgentFinish, Steps
  <2>. QED  BY <2>2, <2>3, <2>4, <2>5 DEF AgentMoves
<1>4. CASE AgentFailTurn(i)
  <2>. DEFINE m == [mode |-> "fail", id |-> NoStream]
  <2>2. m \in Messages /\ Ender(m) /\ m.mode = "fail"
    BY DEF Messages, Ender, Streams, NoStream
  <2>3. Emit(i, m) /\ task'[i] = "none" /\ task[i] = "turn"
    BY <1>t, <1>4 DEF AgentFailTurn, TypeOK
  <2>. HIDE DEF m
  <2>4. pipe'[i] = Append(pipe[i], m)
    BY <1>1, <2>3
  <2>5. /\ ex' = ex /\ part'[i] = part[i] /\ early'[i] = early[i]
        /\ rd'[i] = rd[i] /\ Steps(i)' = Steps(i)
        /\ proc[i] = "running" /\ proc'[i] = "running"
    BY <1>4 DEF AgentFailTurn, Steps
  <2>. QED  BY <2>2, <2>3, <2>4, <2>5 DEF AgentMoves
<1>5. CASE AgentExit(i)
  BY <1>t, <1>5 DEF AgentExit, AgentMoves, Steps, TypeOK
<1>. QED  BY <1>2, <1>3, <1>4, <1>5 DEF AgentStep

\* The reader of a registered participant; p is the participant.
Reads(i, from, to) == rd[i].pc = from /\ rd'[i].pc = to

ReaderMoves(i) ==
    LET p == part[i]
        q == part'[i]
        id == rd[i].msg.id
    IN
    /\ ex' = ex /\ Runs(i) /\ Steps(i)' = Steps(i)
    /\ \/ /\ rd[i].pc = "read" /\ pipe[i] # <<>> /\ pipe'[i] = Tail(pipe[i])
          /\ rd'[i].pc = Dispatch[Head(pipe[i]).mode] /\ rd'[i].msg = Head(pipe[i])
          /\ q = p /\ early'[i] = early[i]
       \/ /\ proc[i] # "running" /\ Reads(i, "read", "errCheck")
          /\ q = p /\ early'[i] = early[i]
       \/ /\ pipe'[i] = pipe[i]
          /\ \/ /\ Reads(i, "dropCheck", "read") \/ Reads(i, "dropCheck", "track")
                /\ q = p /\ early'[i] = early[i]
             \/ /\ Reads(i, "track", "read") /\ early'[i] = early[i]
                /\ q = p \/ q = TrackStream(p, id)
             \/ /\ rd[i].pc = "close"
                /\ early'[i] = (early[i] \/ (p.status = "preparing" /\ id # "item"))
                /\ rd'[i].pc = IF CanClose(p, id) /\ ShouldIdle(p, id) THEN "markIdle" ELSE "read"
                /\ q = IF CanClose(p, id) THEN CloseStream(p, id) ELSE p
             \/ /\ Reads(i, "markIdle", "read") /\ early'[i] = early[i]
                /\ q = IF CanBecomeIdle(p) THEN BecomeIdle(p) ELSE p
             \/ /\ Reads(i, "finish", "read") /\ early'[i] = early[i]
                /\ q = IF CanFinishKeepalive(p) THEN FinishKeepalive(p) ELSE p
             \/ /\ rd[i].pc = "errCheck" /\ q = p /\ early'[i] = early[i]
                /\ rd'[i].pc = IF i \in closed THEN "terminal" ELSE "crash"
             \/ /\ Reads(i, "crash", "terminal") /\ early'[i] = early[i]
                /\ q = Crash(p)
             \/ /\ Reads(i, "terminal", "done") /\ q = p /\ early'[i] = early[i]

LEMMA ReaderView ==
    ASSUME IInv, NEW b \in Alias, Registered(b), NEW i \in Inc, registry[b] = i, ReaderStep(i)
    PROVE  ReaderMoves(i)
<1>t. TypeOK /\ aliasOf[i] = b
  BY DEF IInv, RegistryOK
<1>h. Holder(aliasOf[i]) = part[i] /\ Registered(aliasOf[i])
  BY <1>t DEF Holder
<1>. USE DEF tables, flags, ids, agents, keepers
<1>g. \A from, to : ReaderGo(i, from, to) => Reads(i, from, to)
  BY <1>t DEF ReaderGo, Reads, TypeOK
<1>s. ASSUME NEW ok, NEW p, SetHolderIf(ok, aliasOf[i], p)
      PROVE  part'[i] = IF ok THEN p ELSE part[i]
  BY <1>t, <1>s DEF SetHolderIf, SetHolder, TypeOK
<1>1. CASE ReadMessage(i)
  <2>1. /\ rd[i].pc = "read" /\ pipe[i] # <<>> /\ pipe'[i] = Tail(pipe[i])
        /\ rd'[i].pc = Dispatch[Head(pipe[i]).mode] /\ rd'[i].msg = Head(pipe[i])
    BY <1>t, <1>1 DEF ReadMessage, TypeOK
  <2>. QED  BY <1>1, <2>1 DEF ReadMessage, ReaderMoves, Runs, Steps
<1>2. CASE ReadEnd(i)
  <2>1. Reads(i, "read", "errCheck")
    BY <1>2, <1>g DEF ReadEnd
  <2>. QED  BY <1>2, <2>1 DEF ReadEnd, ReaderMoves, Runs, Steps
<1>3. CASE ReaderDropCheck(i)
  <2>1. Reads(i, "dropCheck", "read") \/ Reads(i, "dropCheck", "track")
    BY <1>3, <1>g DEF ReaderDropCheck
  <2>. QED  BY <1>3, <2>1 DEF ReaderDropCheck, ReaderMoves, Runs, Steps
<1>4. CASE ReaderTrack(i)
  <2>1. Reads(i, "track", "read")
    BY <1>4, <1>g DEF ReaderTrack
  <2>2. part'[i] = part[i] \/ part'[i] = TrackStream(part[i], rd[i].msg.id)
    BY <1>4, <1>s, <1>h DEF ReaderTrack
  <2>. QED  BY <1>4, <2>1, <2>2 DEF ReaderTrack, ReaderMoves, Runs, Steps
<1>5. CASE ReaderClose(i)
  <2>. DEFINE p == part[i]
              id == rd[i].msg.id
  <2>1. /\ rd[i].pc = "close"
        /\ rd'[i].pc = IF CanClose(p, id) /\ ShouldIdle(p, id) THEN "markIdle" ELSE "read"
    BY <1>5, <1>g, <1>h DEF ReaderClose, Reads
  <2>2. part'[i] = IF CanClose(p, id) THEN CloseStream(p, id) ELSE p
    BY <1>5, <1>s, <1>h DEF ReaderClose
  <2>3. early'[i] = (early[i] \/ (p.status = "preparing" /\ id # "item"))
    BY <1>5, <1>t, <1>h DEF ReaderClose, TypeOK
  <2>. QED  BY <1>5, <2>1, <2>2, <2>3 DEF ReaderClose, ReaderMoves, Runs, Steps
<1>6. CASE ReaderMarkIdle(i)
  <2>1. Reads(i, "markIdle", "read")
    BY <1>6, <1>g DEF ReaderMarkIdle
  <2>2. part'[i] = IF CanBecomeIdle(part[i]) THEN BecomeIdle(part[i]) ELSE part[i]
    BY <1>6, <1>s, <1>h DEF ReaderMarkIdle
  <2>. QED  BY <1>6, <2>1, <2>2 DEF ReaderMarkIdle, ReaderMoves, Runs, Steps
<1>7. CASE ReaderFinish(i)
  <2>1. Reads(i, "finish", "read")
    BY <1>7, <1>g DEF ReaderFinish
  <2>2. part'[i] = IF CanFinishKeepalive(part[i]) THEN FinishKeepalive(part[i]) ELSE part[i]
    BY <1>7, <1>s, <1>h DEF ReaderFinish, FinishHolder
  <2>. QED  BY <1>7, <2>1, <2>2 DEF ReaderFinish, ReaderMoves, Runs, Steps
<1>8. CASE ReaderErrCheck(i)
  <2>1. rd[i].pc = "errCheck" /\ rd'[i].pc = IF i \in closed THEN "terminal" ELSE "crash"
    BY <1>8, <1>g DEF ReaderErrCheck, Reads
  <2>. QED  BY <1>8, <2>1 DEF ReaderErrCheck, ReaderMoves, Runs, Steps
<1>9. CASE ReaderCrash(i)
  <2>1. Reads(i, "crash", "terminal")
    BY <1>9, <1>g DEF ReaderCrash
  <2>2. part'[i] = Crash(part[i])
    BY <1>9, <1>s, <1>h DEF ReaderCrash
  <2>. QED  BY <1>9, <2>1, <2>2 DEF ReaderCrash, ReaderMoves, Runs, Steps
<1>10. CASE ReaderTerminal(i)
  <2>1. Reads(i, "terminal", "done")
    BY <1>10, <1>g DEF ReaderTerminal
  <2>. QED  BY <1>10, <2>1 DEF ReaderTerminal, ReaderMoves, Runs, Steps
<1>. QED
  BY <1>1, <1>2, <1>3, <1>4, <1>5, <1>6, <1>7, <1>8, <1>9, <1>10 DEF ReaderStep

KeeperMoves(i) ==
    /\ ex' = ex /\ proc'[i] = proc[i] /\ pipe'[i] = pipe[i] /\ rd'[i] = rd[i]
    /\ early'[i] = early[i]
    /\ \/ /\ "call" \in Steps(i) /\ Steps(i)' = Steps(i) \ {"call"}
          /\ task[i] = "none" /\ task'[i] = "keepalive" /\ part'[i] = part[i]
       \/ /\ "call" \in Steps(i) /\ Steps(i)' = (Steps(i) \ {"call"}) \cup {"failed"}
          /\ task'[i] = task[i] /\ part'[i] = part[i]
       \/ /\ "failed" \in Steps(i) /\ Steps(i)' = Steps(i) \ {"failed"}
          /\ task'[i] = task[i]
          /\ part'[i] = IF CanFinishKeepalive(part[i]) THEN FinishKeepalive(part[i]) ELSE part[i]

LEMMA KeeperView ==
    ASSUME IInv, NEW b \in Alias, Registered(b), NEW i \in Inc, registry[b] = i, KeeperStep(i)
    PROVE  KeeperMoves(i)
<1>t. TypeOK /\ aliasOf[i] = b
  BY DEF IInv, RegistryOK
<1>h. Holder(aliasOf[i]) = part[i] /\ Registered(aliasOf[i])
  BY <1>t DEF Holder
<1>. USE DEF tables, flags, ids, agents, keepers
<1>1. CASE KeepaliveAccepted(i)
  BY <1>t, <1>1 DEF KeepaliveAccepted, Accept, KeeperMoves, Steps, TypeOK
<1>2. CASE KeepaliveFailed(i)
  BY <1>t, <1>2 DEF KeepaliveFailed, KeeperMoves, Steps, TypeOK
<1>3. CASE KeepaliveRelease(i)
  <2>1. part'[i] = IF CanFinishKeepalive(part[i]) THEN FinishKeepalive(part[i]) ELSE part[i]
    BY <1>t, <1>h, <1>3 DEF KeepaliveRelease, FinishHolder, SetHolderIf, SetHolder, TypeOK
  <2>. QED  BY <1>3, <2>1 DEF KeepaliveRelease, KeeperMoves, Steps
<1>. QED  BY <1>1, <1>2, <1>3 DEF KeeperStep

StartsUp(i) ==
    LET s == part[i].status IN
    /\ ex' = ex /\ early'[i] = early[i] /\ pipe'[i] = pipe[i] /\ Steps(i)' = Steps(i)
    /\ \/ Runs(i) /\ part'[i] = part[i] /\ rd'[i] = rd[i]
       \/ /\ part'[i] = part[i] /\ rd'[i] = rd[i]
          /\ Rest(i) /\ task'[i] = "none" /\ proc[i] # "running"
          /\ part[i].agent = 0
       \/ part'[i] = part[i] /\ rd'[i] = rd[i] /\ proc'[i] # "running" /\ task'[i] = "none"
       \/ /\ Runs(i) /\ rd'[i] = rd[i]
          /\ \/ s = "starting" /\ part'[i].status = "attached"
             \/ s = "attached" /\ part'[i].status = "idle"
       \/ Runs(i) /\ s = "idle" /\ part'[i].status = "idle" /\ rd'[i].pc = "read"
       \/ Runs(i) /\ rd'[i] = rd[i] /\ part'[i].status = "crashed"

LEMMA StartView ==
    ASSUME IInv, Own, FreshOK, NEW b \in Alias, Registered(b), Registered(b)',
           NEW i \in Inc, registry[b] = i, StartStep(i)
    PROVE  StartsUp(i)
<1>t. TypeOK /\ aliasOf[i] = b /\ part[i] \in P
  BY DEF IInv, RegistryOK, TypeOK, P
<1>h. Holder(aliasOf[i]) = part[i] /\ Registered(aliasOf[i]) /\ OwnOK(i)
  BY <1>t DEF Holder, Own
<1>. USE DEF tables, flags, ids, agents, keepers
<1>g. \A from, to : StartGo(i, from, to) => spc[i] = from /\ spc'[i] = to
  BY <1>t DEF StartGo, TypeOK
<1>s. ASSUME NEW ok, NEW p, SetHolderIf(ok, aliasOf[i], p)
      PROVE  part'[i] = IF ok THEN p ELSE part[i]
  BY <1>t, <1>s DEF SetHolderIf, SetHolder, TypeOK
<1>1. CASE StartFail(i) \/ StartFailContext(i) \/ StartAnnounce(i) \/ StartUndo(i)
  BY <1>1 DEF StartFail, StartFailContext, StartAnnounce, StartUndo, StartsUp, Runs, Steps
<1>2. CASE StartOK(i)
  <2>1. spc[i] = "start"
    BY <1>2, <1>g DEF StartOK
  <2>2. Fresh(i) /\ proc[i] # "running" /\ task[i] = "none"
    BY <2>1 DEF FreshOK, Unborn, Fresh
  <2>3. Rest(i)
    BY <2>2, Empty DEF Fresh, Rest, Steps, InHand
  <2>4. part[i].agent = 0
    BY <1>h, <2>1 DEF OwnOK
  <2>. QED  BY <1>2, <2>2, <2>3, <2>4 DEF StartOK, StartsUp, Steps
<1>3. CASE StartFailCrash(i)
  <2>2. part'[i] = Crash(part[i])
    BY <1>3, <1>s, <1>h DEF StartFailCrash
  <2>3. part'[i].status = "crashed"
    BY <1>t, <2>2, MovesStatus
  <2>. QED  BY <1>3, <2>3 DEF StartFailCrash, StartsUp, Runs, Steps
<1>4. CASE StartAttach(i)
  <2>1. part'[i] = IF CanAttach(part[i]) THEN AttachAgent(part[i], i) ELSE part[i]
    BY <1>4, <1>s, <1>h DEF StartAttach
  <2>2. part'[i] = part[i] \/ (part[i].status = "starting" /\ part'[i].status = "attached")
    BY <1>t, <2>1, MovesStatus DEF CanAttach
  <2>. QED  BY <1>4, <2>2 DEF StartAttach, StartsUp, Runs, Steps
<1>5. CASE StartCommit(i)
  <2>1. part'[i] = IF CanCommitIdle(part[i]) THEN CommitIdle(part[i]) ELSE part[i]
    BY <1>5, <1>s, <1>h DEF StartCommit
  <2>2. part'[i] = part[i] \/ (part[i].status = "attached" /\ part'[i].status = "idle")
    BY <1>t, <2>1, MovesStatus DEF CanCommitIdle
  <2>. QED  BY <1>5, <2>2 DEF StartCommit, StartsUp, Runs, Steps
<1>6. CASE StartReady(i)
  <2>1. part'[i] = IF CanSessionReady(part[i]) THEN SessionReady(part[i]) ELSE part[i]
    BY <1>6, <1>s, <1>h DEF StartReady
  <2>2. IF CanSessionReady(part[i]) THEN rd'[i].pc = "read" ELSE rd'[i] = rd[i]
    BY <1>6, <1>t, <1>h DEF StartReady, TypeOK, Readers
  <2>3. CASE CanSessionReady(part[i])
    <3>1. part[i].status = "idle" /\ part'[i].status = "idle"
      BY <1>t, <2>1, <2>3, MovesStatus DEF CanSessionReady
    <3>. QED  BY <1>6, <2>2, <2>3, <3>1 DEF StartReady, StartsUp, Runs, Steps
  <2>4. CASE ~ CanSessionReady(part[i])
    BY <1>6, <2>1, <2>2, <2>4 DEF StartReady, StartsUp, Runs, Steps
  <2>. QED  BY <2>3, <2>4
<1>7. CASE StartCleanup(i)
  <2>1. ~ Forget(b)
    BY ForgetKept
  <2>2. part' = part
    BY <1>7, <1>t, <2>1 DEF StartCleanup
  <2>. QED  BY <1>7, <2>2 DEF StartCleanup, StartsUp, Runs, Steps
<1>8. CASE StartStop(i)
  <2>1. proc'[i] # "running" /\ task'[i] = "none"
    BY <1>8, <1>t DEF StartStop, StopAgent, TypeOK
  <2>. QED  BY <1>8, <2>1 DEF StartStop, StartsUp, Steps
<1>. QED
  BY <1>1, <1>2, <1>3, <1>4, <1>5, <1>6, <1>7, <1>8 DEF StartStep

\* The goroutines of another participant leave this one alone.
LEMMA OthersView ==
    ASSUME IInv, NoStragglers, NEW b \in Alias, Registered(b), Registered(b)',
           NEW i \in Inc, registry[b] = i, NEW j \in Inc, j # i,
           AgentStep(j) \/ StartStep(j) \/ ReaderStep(j) \/ KeeperStep(j)
    PROVE  Quiet(i) /\ Runs(i) /\ ex' = ex
<1>t. TypeOK /\ aliasOf[i] = b
  BY DEF IInv, RegistryOK
<1>. USE DEF tables, flags, ids, agents, keepers
<1>x. ex' = ex
  BY OthersFrame
<1>u. Straggles(j) /\ Registered(aliasOf[j]) => registry[aliasOf[j]] # i
  BY NoStraggler
<1>s. ASSUME NEW ok, NEW p, SetHolderIf(ok, aliasOf[j], p), ok => Straggles(j) /\ Registered(aliasOf[j])
      PROVE  part'[i] = part[i]
  BY <1>t, <1>s, <1>u DEF SetHolderIf, SetHolder, TypeOK
<1>1. CASE AgentStep(j)
  BY <1>t, <1>x, <1>1 DEF AgentStep, AgentOutput, AgentFinish, AgentFailTurn, AgentExit,
     Emit, Quiet, Runs, Steps, TypeOK
<1>2. CASE StartStep(j)
  <2>g. \A from, to : StartGo(j, from, to) => spc[j] = from
    BY <1>t DEF StartGo, TypeOK
  <2>1. part'[i] = part[i]
    <3>1. CASE StartFailCrash(j) \/ StartAttach(j) \/ StartCommit(j) \/ StartReady(j)
      <4>1. Straggles(j)
        BY <2>g, <3>1 DEF Straggles, StartFailCrash, StartAttach, StartCommit, StartReady
      <4>2. StartFailCrash(j) => part'[i] = part[i]
        BY <4>1, <1>s DEF StartFailCrash
      <4>3. StartAttach(j) => part'[i] = part[i]
        BY <4>1, <1>s DEF StartAttach
      <4>4. StartCommit(j) => part'[i] = part[i]
        BY <4>1, <1>s DEF StartCommit
      <4>5. StartReady(j) => part'[i] = part[i]
        BY <4>1, <1>s DEF StartReady
      <4>. QED  BY <3>1, <4>2, <4>3, <4>4, <4>5
    <3>2. CASE StartCleanup(j)
      <4>1. Straggles(j)
        BY <2>g, <3>2 DEF Straggles, StartCleanup
      <4>2. CASE Forget(aliasOf[j])
        <5>1. registry[aliasOf[j]] # i
          <6>1. aliasOf[j] # b
            <7>1. aliasOf[j] = b => ~ Registered(b)'
              BY <4>2, ForgetKept
            <7>. QED  BY <7>1
          <6>2. aliasOf[j] \in Alias
            BY <4>1 DEF Straggles, IInv, Named
          <6>. QED  BY <6>1, <6>2, RegistryUnique
        <5>. QED  BY <4>2, <5>1 DEF Forget
      <4>3. CASE part' = part
        BY <4>3
      <4>. QED  BY <3>2, <4>2, <4>3 DEF StartCleanup
    <3>3. CASE part' = part
      BY <3>3
    <3>. QED
      BY <1>2, <3>1, <3>2, <3>3 DEF StartStep, StartOK, StartFail, StartFailContext,
         StartAnnounce, StartUndo, StartStop
  <2>2. rd'[i] = rd[i] /\ UNCHANGED <<pipe, early, kruns>>
    BY <1>2, StartChanges DEF StartStep, StartOK, StartFail, StartFailContext, StartFailCrash,
       StartAttach, StartCommit, StartReady, StartAnnounce, StartCleanup, StartUndo, StartStop
  <2>3. Runs(i)
    <3>1. CASE StartOK(j)
      BY <1>t, <3>1 DEF StartOK, Runs, TypeOK
    <3>2. CASE StartStop(j)
      BY <1>t, <3>2 DEF StartStop, StopAgent, Runs, TypeOK
    <3>3. CASE ~ StartOK(j) /\ ~ StartStop(j)
      BY <1>2, <3>3 DEF StartStep, StartFail, StartFailContext, StartFailCrash, StartAttach,
         StartCommit, StartReady, StartAnnounce, StartCleanup, StartUndo, Runs
    <3>. QED  BY <3>1, <3>2, <3>3
  <2>. QED  BY <1>x, <2>1, <2>2, <2>3 DEF Quiet, Steps
<1>3. CASE ReaderStep(j)
  <2>g. \A from, to : ReaderGo(j, from, to) => rd[j].pc = from
    BY DEF ReaderGo
  <2>1. CASE \/ ReaderTrack(j) \/ ReaderClose(j) \/ ReaderMarkIdle(j)
             \/ ReaderFinish(j) \/ ReaderCrash(j)
    <3>1. Straggles(j)
      BY <2>g, <2>1 DEF Straggles, ReaderTrack, ReaderClose, ReaderMarkIdle, ReaderFinish, ReaderCrash
    <3>2. part'[i] = part[i]
      <4>1. ReaderTrack(j) => part'[i] = part[i]
        BY <3>1, <1>s DEF ReaderTrack
      <4>2. ReaderClose(j) => part'[i] = part[i]
        BY <3>1, <1>s DEF ReaderClose
      <4>3. ReaderMarkIdle(j) => part'[i] = part[i]
        BY <3>1, <1>s DEF ReaderMarkIdle
      <4>4. ReaderFinish(j) => part'[i] = part[i]
        BY <3>1, <1>s DEF ReaderFinish, FinishHolder
      <4>5. ReaderCrash(j) => part'[i] = part[i]
        BY <3>1, <1>s DEF ReaderCrash
      <4>. QED  BY <2>1, <4>1, <4>2, <4>3, <4>4, <4>5
    <3>3. early'[i] = early[i]
      BY <1>t, <3>1, <2>1, <1>u DEF ReaderTrack, ReaderClose, ReaderMarkIdle, ReaderFinish,
         ReaderCrash, TypeOK
    <3>. QED
      BY <1>t, <1>x, <2>1, <3>2, <3>3 DEF ReaderTrack, ReaderClose, ReaderMarkIdle, ReaderFinish,
         ReaderCrash, ReaderGo, Quiet, Runs, Steps, TypeOK
  <2>2. CASE \/ ReadMessage(j) \/ ReadEnd(j) \/ ReaderDropCheck(j) \/ ReaderErrCheck(j)
             \/ ReaderTerminal(j)
    BY <1>t, <1>x, <2>2 DEF ReadMessage, ReadEnd, ReaderDropCheck, ReaderErrCheck,
       ReaderTerminal, ReaderGo, Quiet, Runs, Steps, TypeOK
  <2>. QED  BY <1>3, <2>1, <2>2 DEF ReaderStep
<1>4. CASE KeeperStep(j)
  <2>1. CASE KeepaliveRelease(j)
    <3>1. Straggles(j)
      BY <2>1 DEF Straggles, KeepaliveRelease
    <3>2. part'[i] = part[i]
      BY <3>1, <2>1, <1>s DEF KeepaliveRelease, FinishHolder
    <3>. QED
      BY <1>t, <1>x, <2>1, <3>2 DEF KeepaliveRelease, Quiet, Runs, Steps, TypeOK
  <2>2. CASE KeepaliveAccepted(j) \/ KeepaliveFailed(j)
    BY <1>t, <1>x, <2>2 DEF KeepaliveAccepted, KeepaliveFailed, Accept, Quiet, Runs, Steps, TypeOK
  <2>. QED  BY <1>4, <2>1, <2>2 DEF KeeperStep
<1>. QED  BY <1>1, <1>2, <1>3, <1>4

SweepMoves(i) ==
    /\ ex' = ex /\ Runs(i) /\ early'[i] = early[i] /\ pipe'[i] = pipe[i] /\ rd'[i] = rd[i]
    /\ part[i].status = "idle" /\ part'[i] = BeginKeepalive(part[i])
    /\ Steps(i)' = Steps(i) \cup {"call"}

\* The executing command has begun no delivery to b nor left one.
Elsewhere(b) ==
    \/ ex' = ex
    \/ /\ part[registry[b]].status = "preparing" => ex.pc # "begin" /\ ex'.pc # "begin"
       /\ ex'.pc = "track" => ex'.alias # b

LEMMA SweepView ==
    ASSUME IInv, Own, NEW b \in Alias, Registered(b), NEW i \in Inc, registry[b] = i, Sweep
    PROVE  SweepMoves(i) \/ (Quiet(i) /\ Runs(i) /\ ex' = ex)
<1>t. TypeOK /\ part[i] = Holder(b)
  BY DEF IInv, Holder
<1>1. PICK due \in SUBSET KeepaliveEligible :
        LET claimed == {registry[a] : a \in due} IN
        /\ part' = [k \in Inc |-> IF k \in claimed THEN BeginKeepalive(part[k]) ELSE part[k]]
        /\ kruns' = kruns \cup {<<part[k].agent, "call">> : k \in claimed}
  BY DEF Sweep
<1>. DEFINE claimed == {registry[a] : a \in due}
<1>2. UNCHANGED <<proc, task, pipe, rd, early, ex>>
  BY DEF Sweep, agents
<1>3. \A k \in claimed : k \in Inc /\ part[k].agent = k /\ part[k].status = "idle"
  <2>1. ASSUME NEW a \in due
        PROVE  registry[a] \in Inc /\ Holder(a).agent = registry[a] /\ Holder(a).status = "idle"
    <3>1. a \in Alias /\ Registered(a) /\ Holder(a).agent # 0 /\ Holder(a).status = "idle"
      BY DEF KeepaliveEligible, CanBeginKeepalive
    <3>. QED  BY <3>1, HolderTyped, OwnAgent DEF IInv
  <2>. QED  BY <2>1 DEF Holder
<1>4. CASE i \in claimed
  <2>1. part'[i] = BeginKeepalive(part[i]) /\ part[i].status = "idle"
    BY <1>1, <1>3, <1>4
  <2>2. Steps(i)' = Steps(i) \cup {"call"}
    <3>1. <<i, "call">> \in kruns'
      BY <1>1, <1>3, <1>4
    <3>2. <<i, "failed">> \in kruns' => <<i, "failed">> \in kruns
      BY <1>1
    <3>3. kruns \subseteq kruns'
      BY <1>1
    <3>. QED  BY <3>1, <3>2, <3>3 DEF Steps
  <2>. QED  BY <1>2, <2>1, <2>2 DEF SweepMoves, Runs
<1>5. CASE i \notin claimed
  <2>1. part'[i] = part[i]
    BY <1>1, <1>5
  <2>2. Steps(i)' = Steps(i)
    <3>1. ASSUME NEW step \in {"call", "failed"}, <<i, step>> \in kruns'
          PROVE  <<i, step>> \in kruns
      BY <1>1, <1>3, <1>5, <3>1
    <3>2. kruns \subseteq kruns'
      BY <1>1
    <3>. QED  BY <3>1, <3>2 DEF Steps
  <2>. QED  BY <1>2, <2>1, <2>2 DEF Quiet, Runs
<1>. QED  BY <1>4, <1>5

ExecMoves(b, i) ==
    LET p == part[i]
        q == part'[i]
    IN
    /\ ex.alias = b /\ rd'[i] = rd[i] /\ pipe'[i] = pipe[i] /\ Steps(i)' = Steps(i)
    /\ proc'[i] = proc[i]
    /\ \/ /\ ex.pc = "prepare" /\ ex'.pc \in {"send", "recheck"}
          /\ IsReadyForWork(p) /\ q = PrepareForWork(p)
          /\ early'[i] = FALSE /\ task'[i] = task[i]
       \/ /\ ex.pc = "send" /\ ex'.pc = IF ex.mine THEN "begin" ELSE "track"
          /\ ex'.alias = b /\ ex'.anchor \in Anchors
          /\ proc[i] = "running" /\ task[i] = "none" /\ task'[i] = ex'.anchor
          /\ q = p /\ early'[i] = early[i]
       \/ /\ task'[i] = task[i] /\ early'[i] = early[i]
          /\ ex'.pc \in {"next", "idle"}
          /\ \/ /\ ex.pc = "begin" /\ CanBeginWorking(p)
                /\ \E n \in Nat : q = BeginWorking(p, ex.anchor, n)
             \/ ex.pc = "track" /\ CanTrack(p) /\ q = TrackStream(p, ex.anchor)
             \/ ex.pc = "abort" /\ CanAbort(p) /\ q = AbortWork(p)

\* A delivery goes from its sending to the accounting of what was sent.
LEMMA BeginsFrom ==
    ASSUME IInv, ExecStep
    PROVE  /\ ex'.pc \in {"begin", "track"} => SendAccepted
           /\ ex.pc = "begin" => Begin
<1>t. ex \in Execs
  BY DEF IInv, TypeOK
<1>k. {Skipped.pc, Delivered.pc} \subseteq {"next", "idle"} /\ ExecIdle.pc = "idle"
  BY DEF Skipped, Delivered, Continue, ExecIdle
<1>1. CASE InviteReserve \/ InviteSpawn \/ RemoveStop \/ RemoveEvict \/ CommandDone
  <2>1. ex.pc # "begin" /\ ex'.pc \in {"spawn", "idle"}
    BY <1>t, <1>k, <1>1 DEF InviteReserve, InviteSpawn, RemoveStop, RemoveEvict, CommandDone, Execs
  <2>. QED  BY <2>1
<1>2. ASSUME NEW a \in Alias, NextDelivery(a)
      PROVE  ex.pc # "begin" /\ ex'.pc \notin {"begin", "track"}
  BY <1>2 DEF NextDelivery, Continue, ExecIdle
<1>3. CASE SendRefused \/ Begin \/ Track \/ Abort
  <2>1. ex'.pc \in {"next", "idle", "abort"} /\ (ex.pc = "begin" => Begin)
    BY <1>t, <1>k, <1>3 DEF SendRefused, Begin, Track, Abort, Execs
  <2>. QED  BY <2>1
<1>4. CASE AcquireNotice \/ Prepare \/ Recheck
  <2>1. ex.pc # "begin"
    BY <1>4 DEF AcquireNotice, Prepare, Recheck
  <2>2. ex'.pc \notin {"begin", "track"}
    <3>1. AcquireNotice => ex'.pc \in {"next", "idle", "send", "prepare"}
      BY <1>t, <1>k DEF AcquireNotice, Execs
    <3>2. Prepare => ex'.pc \in {"next", "idle", "send", "recheck"}
      BY <1>t, <1>k DEF Prepare, Execs
    <3>3. Recheck => ex'.pc \in {"next", "idle", "send"}
      BY <1>t, <1>k DEF Recheck, Execs
    <3>. QED  BY <1>4, <3>1, <3>2, <3>3
  <2>. QED  BY <2>1, <2>2
<1>5. CASE \/ ShutdownAwait \/ ShutdownCancelAll \/ ShutdownSnapshot \/ ShutdownDone
           \/ \E i \in Inc : ShutdownStop(i)
  <2>1. ex.pc # "begin" /\ ex'.pc \notin {"begin", "track"}
    BY <1>t, <1>5 DEF ShutdownAwait, ShutdownCancelAll, ShutdownSnapshot, ShutdownDone,
       ShutdownStop, Execs
  <2>. QED  BY <2>1
<1>6. SendAccepted => ex.pc # "begin"
  BY DEF SendAccepted
<1>. QED  BY <1>1, <1>2, <1>3, <1>4, <1>5, <1>6 DEF ExecStep

Stays(i) == Runs(i) \/ (proc'[i] # "running" /\ task'[i] = "none")

LEMMA ExecView ==
    ASSUME IInv, Own, Handled, NEW b \in Alias, Registered(b), Registered(b)',
           NEW i \in Inc, registry[b] = i, ExecStep
    PROVE  ExecMoves(b, i) \/ (Quiet(i) /\ Stays(i) /\ Elsewhere(b))
<1>t. TypeOK /\ part[i] = Holder(b) /\ part[i] \in P /\ ex \in Execs /\ lastTurnID \in Nat
  BY DEF IInv, Holder, TypeOK, P
<1>k. {Skipped.pc, Delivered.pc} \subseteq {"next", "idle"}
  BY DEF Skipped, Delivered, Continue, ExecIdle
<1>. USE DEF tables, flags, ids, agents, keepers
<1>p. part[i].status = "preparing" => ex.alias = b /\ ex.mine
  BY <1>t DEF IInv, PreparingOwned
<1>e. ~ SendAccepted /\ ~ (ex.pc = "begin" /\ part[i].status = "preparing") => Elsewhere(b)
  BY BeginsFrom DEF Elsewhere
<1>s. ASSUME NEW ok, NEW p, SetHolderIf(ok, ex.alias, p), ex.alias \in Alias,
             ok => Registered(ex.alias)
      PROVE  part'[i] = IF ok /\ ex.alias = b THEN p ELSE part[i]
  <2>1. ok /\ ex.alias # b => registry[ex.alias] # i
    BY <1>s, RegistryUnique
  <2>. QED  BY <1>t, <1>s, <2>1 DEF SetHolderIf, SetHolder, TypeOK
<1>1. CASE \/ InviteReserve \/ InviteSpawn \/ CommandDone \/ AcquireNotice \/ Recheck \/ SendRefused
           \/ ShutdownAwait \/ ShutdownCancelAll \/ ShutdownSnapshot \/ ShutdownDone
           \/ \E a \in Alias : NextDelivery(a)
  <2>1. UNCHANGED <<part, early, pipe, rd, kruns, proc, task>>
    BY <1>1 DEF InviteReserve, InviteSpawn, CommandDone, AcquireNotice, Recheck, SendRefused,
       ShutdownAwait, ShutdownCancelAll, ShutdownSnapshot, ShutdownDone, NextDelivery
  <2>2. ex.pc # "begin"
    BY <1>1 DEF InviteReserve, InviteSpawn, CommandDone, AcquireNotice, Recheck, SendRefused,
       ShutdownAwait, ShutdownCancelAll, ShutdownSnapshot, ShutdownDone, NextDelivery
  <2>3. ~ SendAccepted
    <3>1. SendAccepted => task[ex.agent] = "none" /\ task'[ex.agent] # "none"
      BY <1>t DEF SendAccepted, Accept, TypeOK, Execs, Inc, Inc0
    <3>. QED  BY <2>1, <3>1
  <2>. QED  BY <1>e, <2>1, <2>2, <2>3 DEF Quiet, Stays, Runs, Steps
<1>2. CASE RemoveStop \/ \E j \in Inc : ShutdownStop(j)
  <2>1. /\ UNCHANGED <<part, early, pipe, rd, kruns>> /\ \E j : StopAgent(j)
        /\ ex.pc \in {"stop", "stopAll"}
    BY <1>2 DEF RemoveStop, ShutdownStop
  <2>2. Stays(i)
    BY <2>1, StopFrame DEF Stays, Runs
  <2>3. Elsewhere(b)
    BY <1>e, <2>1 DEF SendAccepted
  <2>. QED  BY <2>1, <2>2, <2>3 DEF Quiet, Steps
<1>3. CASE RemoveEvict
  <2>1. UNCHANGED <<early, pipe, rd, kruns, proc, task>> /\ ex.pc = "evict" /\ ex.alias \in Alias
    BY <1>3 DEF RemoveEvict, IInv, Named
  <2>2. part'[i] = part[i]
    <3>1. CASE Forget(ex.alias)
      <4>1. ex.alias # b
        <5>1. Forget(b) => ~ Registered(b)'
          BY ForgetKept
        <5>. QED  BY <3>1, <5>1
      <4>2. registry[ex.alias] # i
        BY <2>1, <4>1, RegistryUnique
      <4>. QED  BY <3>1, <4>2 DEF Forget
    <3>. QED  BY <1>3, <3>1 DEF RemoveEvict
  <2>3. Elsewhere(b)
    BY <1>e, <2>1 DEF SendAccepted
  <2>. QED  BY <2>1, <2>2, <2>3 DEF Quiet, Stays, Runs, Steps
<1>4. CASE Prepare
  <2>1. UNCHANGED <<pipe, rd, kruns, proc, task>> /\ ex.pc = "prepare" /\ ex.alias \in Alias
    BY <1>4 DEF Prepare, IInv, Named
  <2>. DEFINE ok == Registered(ex.alias) /\ IsReadyForWork(Holder(ex.alias))
  <2>2. CASE ok /\ ex.alias = b
    <3>1. part'[i] = PrepareForWork(part[i]) /\ early'[i] = FALSE
      BY <1>t, <1>4, <2>2 DEF Prepare, SetHolder, TypeOK
    <3>2. ex'.pc \in {"send", "recheck"}
      BY <1>t, <1>4, <2>2 DEF Prepare, Execs
    <3>. QED  BY <1>t, <2>1, <2>2, <3>1, <3>2 DEF ExecMoves, Steps
  <2>3. CASE ~ (ok /\ ex.alias = b)
    <3>1. ok => registry[ex.alias] # i
      BY <2>1, <2>3, RegistryUnique
    <3>2. part'[i] = part[i] /\ early'[i] = early[i]
      BY <1>t, <1>4, <3>1 DEF Prepare, SetHolder, TypeOK
    <3>3. Elsewhere(b)
      BY <1>e, <2>1 DEF SendAccepted
    <3>. QED  BY <2>1, <3>2, <3>3 DEF Quiet, Stays, Runs, Steps
  <2>. QED  BY <2>2, <2>3
<1>5. CASE SendAccepted
  <2>1. /\ UNCHANGED <<part, early, pipe, rd, kruns, proc>> /\ ex.pc = "send"
        /\ proc[ex.agent] = "running" /\ task[ex.agent] = "none" /\ ex.agent # 0
    BY <1>5 DEF SendAccepted, Accept
  <2>2. ex.alias \in Alias /\ Registered(ex.alias) /\ registry[ex.alias] = ex.agent
    BY <2>1 DEF Handled, Sendable, IInv, Named
  <2>3. /\ ex'.pc = IF ex.mine THEN "begin" ELSE "track"
        /\ ex'.alias = ex.alias /\ ex'.anchor \in Anchors
        /\ task' = [task EXCEPT ![ex.agent] = ex'.anchor]
    BY <1>t, <1>5 DEF SendAccepted, Accept, Execs, Anchors
  <2>4. CASE ex.alias = b
    <3>1. task'[i] = ex'.anchor
      BY <1>t, <2>2, <2>3, <2>4 DEF TypeOK
    <3>. QED  BY <2>1, <2>2, <2>3, <2>4, <3>1 DEF ExecMoves, Steps
  <2>5. CASE ex.alias # b
    <3>1. ex.agent # i
      BY <2>2, <2>5, RegistryUnique
    <3>2. Runs(i)
      BY <1>t, <2>1, <2>3, <3>1 DEF Runs, TypeOK
    <3>3. Elsewhere(b)
      BY <1>p, <2>3, <2>5 DEF Elsewhere
    <3>. QED  BY <2>1, <3>2, <3>3 DEF Quiet, Stays, Steps
  <2>. QED  BY <2>4, <2>5
<1>6. CASE Begin
  <2>1. UNCHANGED <<pipe, rd, kruns, proc, task, early>> /\ ex.pc = "begin" /\ ex.alias \in Alias
        /\ ex'.pc \in {"next", "idle"}
    BY <1>k, <1>6 DEF Begin, IInv, Named
  <2>. DEFINE ok == Registered(ex.alias) /\ CanBeginWorking(Holder(ex.alias))
  <2>2. CASE ok /\ ex.alias = b
    <3>1. part'[i] = BeginWorking(part[i], ex.anchor, lastTurnID + 1)
      BY <1>t, <1>6, <2>2 DEF Begin, SetHolder, TypeOK
    <3>2. lastTurnID + 1 \in Nat
      BY <1>t
    <3>. QED  BY <1>t, <2>1, <2>2, <3>1, <3>2 DEF ExecMoves, Steps
  <2>3. CASE ~ (ok /\ ex.alias = b)
    <3>1. ok => registry[ex.alias] # i
      BY <2>1, <2>3, RegistryUnique
    <3>2. part'[i] = part[i]
      BY <1>t, <1>6, <3>1 DEF Begin, SetHolder, TypeOK
    <3>3. part[i].status # "preparing"
      BY <1>t, <1>p, <2>3 DEF CanBeginWorking
    <3>4. Elsewhere(b)
      BY <2>1, <3>3 DEF Elsewhere
    <3>. QED  BY <2>1, <3>2, <3>4 DEF Quiet, Stays, Runs, Steps
  <2>. QED  BY <2>2, <2>3
<1>7. CASE Track
  <2>1. UNCHANGED <<pipe, rd, kruns, proc, task, early>> /\ ex.pc = "track" /\ ex.alias \in Alias
        /\ ex'.pc \in {"next", "idle"}
    BY <1>k, <1>7 DEF Track, IInv, Named
  <2>. DEFINE ok == Registered(ex.alias) /\ CanTrack(Holder(ex.alias)) /\ ex.anchor # NoStream
  <2>2. part'[i] = IF ok /\ ex.alias = b THEN TrackStream(Holder(ex.alias), ex.anchor) ELSE part[i]
    BY <1>7, <1>s, <2>1 DEF Track
  <2>3. CASE ok /\ ex.alias = b
    BY <1>t, <2>1, <2>2, <2>3 DEF ExecMoves, Steps
  <2>4. CASE ~ (ok /\ ex.alias = b)
    <3>1. Elsewhere(b)
      BY <1>e, <2>1 DEF SendAccepted
    <3>. QED  BY <2>1, <2>2, <2>4, <3>1 DEF Quiet, Stays, Runs, Steps
  <2>. QED  BY <2>3, <2>4
<1>8. CASE Abort
  <2>1. UNCHANGED <<pipe, rd, kruns, proc, task, early>> /\ ex.pc = "abort" /\ ex.alias \in Alias
        /\ ex'.pc \in {"next", "idle"}
    BY <1>k, <1>8 DEF Abort, IInv, Named
  <2>. DEFINE ok == Registered(ex.alias) /\ CanAbort(Holder(ex.alias))
  <2>2. part'[i] = IF ok /\ ex.alias = b THEN AbortWork(Holder(ex.alias)) ELSE part[i]
    BY <1>8, <1>s, <2>1 DEF Abort
  <2>3. CASE ok /\ ex.alias = b
    BY <1>t, <2>1, <2>2, <2>3 DEF ExecMoves, Steps
  <2>4. CASE ~ (ok /\ ex.alias = b)
    <3>1. Elsewhere(b)
      BY <1>e, <2>1 DEF SendAccepted
    <3>. QED  BY <2>1, <2>2, <2>4, <3>1 DEF Quiet, Stays, Runs, Steps
  <2>. QED  BY <2>3, <2>4
<1>. QED
  BY <1>1, <1>2, <1>3, <1>4, <1>5, <1>6, <1>7, <1>8 DEF ExecStep

LEMMA UserView ==
    ASSUME IInv, Own, NEW b \in Alias, Registered(b), Registered(b)',
           NEW i \in Inc, registry[b] = i, UserCommand
    PROVE  Quiet(i) /\ Runs(i) /\ Elsewhere(b)
<1>t. TypeOK /\ part[i] = Holder(b) /\ i <= invited /\ invited \in Nat
  BY DEF IInv, Holder, TypeOK, RegistryOK, Inc0
<1>. USE DEF tables, flags, ids, agents, keepers
<1>1. Elsewhere(b)
  <2>1. ex.pc = "idle" /\ ex'.pc \notin {"begin", "track"}
    BY UserBegins
  <2>2. part[i].status # "preparing"
    BY <1>t, <2>1 DEF IInv, PreparingOwned
  <2>. QED  BY <2>1, <2>2 DEF Elsewhere
<1>2. UNCHANGED <<early, pipe, rd, kruns, proc, task>>
  BY DEF UserCommand, InviteAdd, RemoveDetach, RemoveUnattached, SendCommand,
     HandoffCommand, BroadcastCommand, FrozenBroadcast, BeginCommand, ShutdownBegin
<1>3. part'[i] = part[i]
  <2>1. ASSUME NEW a \in Alias, InviteAdd(a)
        PROVE  part'[i] = part[i]
    <3>1. invited + 1 \in Inc /\ \A k \in Inc : k # invited + 1 => part'[k] = part[k]
      BY <2>1, InviteChanges
    <3>. QED  BY <1>t, <3>1 DEF Inc
  <2>2. ASSUME NEW a \in Alias, RemoveDetach(a)
        PROVE  part'[i] = part[i]
    <3>1. Forget(a)
      BY <2>2 DEF RemoveDetach
    <3>2. a # b
      BY <3>1, ForgetKept
    <3>3. registry[a] # i
      BY <3>2, RegistryUnique
    <3>. QED  BY <3>1, <3>3 DEF Forget
  <2>3. (\A a \in Alias : ~ InviteAdd(a) /\ ~ RemoveDetach(a)) => part' = part
    BY DEF UserCommand, RemoveUnattached, SendCommand, HandoffCommand, BroadcastCommand,
       FrozenBroadcast, BeginCommand, ShutdownBegin
  <2>. QED  BY <2>1, <2>2, <2>3
<1>. QED  BY <1>1, <1>2, <1>3 DEF Quiet, Runs, Steps

\* Whatever happens, this is what a participant that stays registered sees of it.
Sees(b, i) ==
    \/ Quiet(i) /\ Stays(i) /\ Elsewhere(b)
    \/ AgentMoves(i) \/ ReaderMoves(i) \/ KeeperMoves(i)
    \/ StartsUp(i) \/ SweepMoves(i) \/ ExecMoves(b, i)

LEMMA SeesStep ==
    ASSUME IInv, Own, NoStragglers, Handled, FreshOK, [Next]_vars,
           NEW b \in Alias, Registered(b), Registered(b)', NEW i \in Inc, registry[b] = i
    PROVE  Sees(b, i)
<1>1. Quiet(i) /\ Runs(i) /\ ex' = ex => Sees(b, i)
  BY DEF Sees, Stays, Elsewhere
<1>2. ASSUME NEW j \in Inc, AgentStep(j) \/ StartStep(j) \/ ReaderStep(j) \/ KeeperStep(j)
      PROVE  Sees(b, i)
  <2>1. CASE j # i
    BY <1>1, <1>2, <2>1, OthersView
  <2>2. CASE j = i
    BY <1>2, <2>2, AgentView, StartView, ReaderView, KeeperView DEF Sees
  <2>. QED  BY <2>1, <2>2
<1>3. CASE Sweep
  BY <1>1, <1>3, SweepView DEF Sees
<1>4. CASE ExecStep
  BY <1>4, ExecView DEF Sees
<1>5. CASE UserCommand
  BY <1>5, UserView DEF Sees, Stays
<1>6. CASE SweeperExit \/ UNCHANGED vars
  <2>1. UNCHANGED <<part, early, pipe, rd, kruns, proc, task, ex>>
    BY <1>6 DEF SweeperExit, vars, tables, flags, ids, agents, keepers
  <2>. QED  BY <1>1, <2>1 DEF Quiet, Runs, Steps
<1>. QED  BY <1>2, <1>3, <1>4, <1>5, <1>6 DEF Next

-----------------------------------------------------------------------------
(* A working participant has the anchor of its turn.                         *)

LEMMA AnchorStep ==
    ASSUME IInv, Own, NoStragglers, Handled, FreshOK, AnchorOK, [Next]_vars
    PROVE  AnchorOK'
<1>t. TypeOK /\ ex \in Execs
  BY DEF IInv, TypeOK
<1>1. ASSUME NEW b \in Alias, Registered(b)', Holder(b)'.status = "working"
      PROVE  Holder(b)'.anchor \in Anchors
  <2>1. CASE InviteAdd(b)
    BY <1>1, <2>1, InviteChanges DEF Holder, NewStarting
  <2>2. CASE ~ InviteAdd(b)
    <3>0. StartsAlone
      BY StragglersAlone
    <3>1. Registered(b) /\ registry'[b] = registry[b] /\ registry[b] \in Inc
      BY <1>1, <2>2, <3>0, RegisteredStep
    <3>. DEFINE i == registry[b]
                p == part[i]
                q == part'[i]
    <3>2. p \in P /\ p = Holder(b) /\ Holder(b)' = q
      BY <1>t, <3>1 DEF Holder, TypeOK, P
    <3>3. p.status = "working" => p.anchor \in Anchors
      BY <3>1, <3>2 DEF AnchorOK
    <3>4. Sees(b, i)
      BY <1>1, <3>1, SeesStep
    <3>5. q = p => q.anchor \in Anchors
      BY <1>1, <3>2, <3>3
    <3>6. CASE ReaderMoves(i)
      <4>. DEFINE id == rd[i].msg.id
      <4>1. \/ q = p
            \/ q = TrackStream(p, id) \/ q = CloseStream(p, id)
            \/ q \in {BecomeIdle(p), FinishKeepalive(p), Crash(p)}
        BY <3>6 DEF ReaderMoves
      <4>2. /\ \A x : TrackStream(p, x).anchor = p.anchor /\ TrackStream(p, x).status = p.status
            /\ \A x : CloseStream(p, x).anchor = p.anchor /\ CloseStream(p, x).status = p.status
        BY <3>2 DEF TrackStream, CloseStream, P, Participants
      <4>3. q \notin {BecomeIdle(p), FinishKeepalive(p), Crash(p)}
        BY <1>1, <3>2, MovesStatus
      <4>. QED  BY <1>1, <3>2, <3>3, <3>5, <4>1, <4>2, <4>3
    <3>7. CASE ExecMoves(b, i)
      <4>1. \A x : TrackStream(p, x).anchor = p.anchor /\ TrackStream(p, x).status = p.status
        BY <3>2 DEF TrackStream, P, Participants
      <4>2. \A x, n : BeginWorking(p, x, n).anchor = x
        BY <3>2 DEF BeginWorking, P, Participants
      <4>3. q \notin {PrepareForWork(p), AbortWork(p)}
        BY <1>1, <3>2, MovesStatus
      <4>4. ex.pc = "begin" => ex.anchor \in Anchors
        BY DEF AnchorOK
      <4>5. \/ q = p \/ q \in {PrepareForWork(p), AbortWork(p)}
            \/ ex.pc = "begin" /\ \E n \in Nat : q = BeginWorking(p, ex.anchor, n)
            \/ q = TrackStream(p, ex.anchor)
        BY <3>7 DEF ExecMoves
      <4>. QED  BY <1>1, <3>2, <3>3, <3>5, <4>1, <4>2, <4>3, <4>4, <4>5
    <3>8. CASE KeeperMoves(i) \/ SweepMoves(i) \/ StartsUp(i)
      <4>1. q = p \/ q.status # "working"
        BY <1>1, <3>2, <3>8, MovesStatus DEF KeeperMoves, SweepMoves, StartsUp
      <4>. QED  BY <1>1, <3>2, <3>5, <4>1
    <3>9. CASE Quiet(i) \/ AgentMoves(i)
      BY <3>2, <3>5, <3>9 DEF Quiet, AgentMoves
    <3>. QED  BY <3>2, <3>4, <3>6, <3>7, <3>8, <3>9 DEF Sees
  <2>. QED  BY <2>1, <2>2
<1>2. ASSUME ex'.pc \in {"begin", "track"}
      PROVE  ex'.anchor \in Anchors
  <2>1. CASE ex' = ex
    BY <1>2, <2>1 DEF AnchorOK
  <2>2. CASE ExecStep
    <3>1. SendAccepted
      BY <1>2, <2>2, BeginsFrom
    <3>. QED  BY <1>t, <3>1 DEF SendAccepted, Execs, Anchors
  <2>3. ~ UserCommand
    BY <1>2, UserBegins
  <2>. QED  BY <2>1, <2>2, <2>3, OthersFrame DEF Next
<1>. QED  BY <1>1, <1>2 DEF AnchorOK

LEMMA AnchorInit == Init => AnchorOK
BY DEF Init, AnchorOK, Registered, ExecIdle

-----------------------------------------------------------------------------
(* The stop channel of a registered participant is open: only the removal    *)
(* that withdraws the participant closes it.                                 *)

LEMMA RegistryMoves ==
    ASSUME IInv, [Next]_vars, NEW b \in Alias
    PROVE  registry'[b] \in {0, registry[b]} \/ InviteAdd(b)
<1>1. \A a \in Alias : Forget(a) => registry'[b] \in {0, registry[b]}
  BY DEF Forget, IInv, TypeOK
<1>2. ASSUME NEW a \in Alias, InviteAdd(a)
      PROVE  registry'[b] = registry[b] \/ InviteAdd(b)
  BY <1>2, InviteChanges
<1>3. ASSUME NEW i \in Inc, StartStep(i)
      PROVE  registry'[b] \in {0, registry[b]}
  <2>1. aliasOf[i] \in Alias
    BY <1>3, StartChanges DEF IInv, Named
  <2>. QED
    BY <1>1, <1>3, <2>1 DEF StartStep, StartOK, StartFail, StartFailContext, StartFailCrash,
       StartAttach, StartCommit, StartReady, StartAnnounce, StartCleanup, StartUndo, StartStop,
       tables
<1>. QED
  BY <1>1, <1>2, <1>3, NextShape DEF StepShape, Still, MovesHolder, Withdraws, InviteSpawn, Sweep,
     tables

\* A runtime is given the stop channel of the agent that is attached.
LEMMA StopMoves ==
    ASSUME IInv, [Next]_vars, NEW b \in Alias
    PROVE  \/ runtime'[b].stop \in {0, runtime[b].stop}
           \/ \E i \in Inc : i <= invited /\ aliasOf[i] = b /\ runtime'[b].stop = i
<1>. USE DEF tables, flags, ids, agents, keepers
<1>t. runtime \in [Alias -> Runtimes] /\ NoRuntime.stop = 0
  BY DEF IInv, TypeOK, NoRuntime
<1>d. \A a \in Alias : DropRuntime(a) => runtime'[b].stop \in {0, runtime[b].stop}
  BY <1>t DEF DropRuntime
<1>p. ASSUME NEW a \in Alias, runtime' = [runtime EXCEPT ![a] = [@ EXCEPT !.present = TRUE]]
      PROVE  runtime'[b].stop = runtime[b].stop
  <2>1. [runtime[a] EXCEPT !.present = TRUE].stop = runtime[a].stop
    BY <1>t DEF Runtimes
  <2>2. runtime'[b] = IF b = a THEN [runtime[a] EXCEPT !.present = TRUE] ELSE runtime[b]
    BY <1>t, <1>p
  <2>. QED  BY <2>1, <2>2
<1>1. ASSUME NEW i \in Inc, StartStep(i)
      PROVE  \/ runtime'[b].stop \in {0, runtime[b].stop}
             \/ i <= invited /\ aliasOf[i] = b /\ runtime'[b].stop = i
  <2>a. aliasOf[i] \in Alias /\ i <= invited
    BY <1>1, StartChanges DEF IInv, Named
  <2>1. CASE StartAttach(i)
    <3>1. runtime' = runtime \/ runtime' = [runtime EXCEPT ![aliasOf[i]] = [@ EXCEPT !.stop = i]]
      BY <2>1 DEF StartAttach
    <3>2. [runtime[aliasOf[i]] EXCEPT !.stop = i].stop = i
      BY <1>t, <2>a DEF Runtimes
    <3>3. CASE runtime' = [runtime EXCEPT ![aliasOf[i]] = [@ EXCEPT !.stop = i]]
      <4>1. runtime'[b] = IF b = aliasOf[i] THEN [runtime[b] EXCEPT !.stop = i] ELSE runtime[b]
        BY <1>t, <2>a, <3>3
      <4>. QED  BY <2>a, <3>2, <4>1
    <3>. QED  BY <3>1, <3>3
  <2>2. CASE ~ StartAttach(i)
    <3>1. UNCHANGED runtime \/ DropRuntime(aliasOf[i])
      BY <1>1, <2>2 DEF StartStep, StartOK, StartFail, StartFailContext, StartFailCrash,
         StartCommit, StartReady, StartAnnounce, StartCleanup, StartUndo, StartStop
    <3>. QED  BY <1>d, <2>a, <3>1
  <2>. QED  BY <2>1, <2>2
<1>2. CASE InviteReserve \/ InviteSpawn
  <2>1. PICK a \in Alias : a = ex.alias
    BY <1>2 DEF InviteReserve, InviteSpawn, IInv, Named
  <2>2. runtime' = [runtime EXCEPT ![a] = [@ EXCEPT !.present = TRUE]]
    BY <1>2, <2>1 DEF InviteReserve, InviteSpawn
  <2>. QED  BY <1>p, <2>2
<1>3. ASSUME NEW a \in Alias, RemoveDetach(a)
      PROVE  runtime'[b].stop \in {0, runtime[b].stop}
  BY <1>3, <1>d DEF RemoveDetach
<1>4. CASE RemoveEvict
  <2>1. PICK a \in Alias : a = ex.alias
    BY <1>4 DEF RemoveEvict, IInv, Named
  <2>. QED  BY <1>4, <1>d, <2>1 DEF RemoveEvict
<1>5. CASE ShutdownCancelAll
  BY <1>5, <1>t DEF ShutdownCancelAll
<1>6. CASE UserCommand /\ ~ \E a \in Alias : RemoveDetach(a)
  BY <1>6 DEF UserCommand, InviteAdd, RemoveUnattached, SendCommand,
     HandoffCommand, BroadcastCommand, FrozenBroadcast, BeginCommand, ShutdownBegin
<1>7. CASE ExecStep /\ ~ (InviteReserve \/ InviteSpawn \/ RemoveEvict \/ ShutdownCancelAll)
  BY <1>7 DEF ExecStep, RemoveStop, NextDelivery, CommandDone, AcquireNotice, Prepare,
     Recheck, SendAccepted, SendRefused, Begin, Track, Abort, ShutdownAwait,
     ShutdownSnapshot, ShutdownStop, ShutdownDone
<1>8. ASSUME NEW i \in Inc, AgentStep(i) \/ ReaderStep(i) \/ KeeperStep(i)
      PROVE  UNCHANGED runtime
  BY <1>8 DEF AgentStep, AgentOutput, AgentFinish, AgentFailTurn, AgentExit,
     ReaderStep, ReadMessage, ReadEnd, ReaderDropCheck, ReaderTrack, ReaderClose,
     ReaderMarkIdle, ReaderFinish, ReaderErrCheck, ReaderCrash, ReaderTerminal,
     KeeperStep, KeepaliveAccepted, KeepaliveFailed, KeepaliveRelease
<1>9. Sweep \/ SweeperExit \/ UNCHANGED vars => UNCHANGED runtime
  BY DEF Sweep, SweeperExit, vars
<1>. QED  BY <1>1, <1>2, <1>3, <1>4, <1>5, <1>6, <1>7, <1>8, <1>9 DEF Next

LEMMA ClosedMoves ==
    ASSUME IInv, [Next]_vars
    PROVE  UNCHANGED closed \/ \E a \in Alias : RemoveDetach(a)
<1>. USE DEF flags
<1>1. ASSUME NEW i \in Inc, AgentStep(i) \/ StartStep(i) \/ ReaderStep(i) \/ KeeperStep(i)
      PROVE  UNCHANGED closed
  BY <1>1 DEF AgentStep, AgentOutput, AgentFinish, AgentFailTurn, AgentExit,
     StartStep, StartOK, StartFail, StartFailContext, StartFailCrash,
     StartAttach, StartCommit, StartReady, StartAnnounce, StartCleanup, StartUndo, StartStop,
     ReaderStep, ReadMessage, ReadEnd, ReaderDropCheck, ReaderTrack, ReaderClose,
     ReaderMarkIdle, ReaderFinish, ReaderErrCheck, ReaderCrash, ReaderTerminal,
     KeeperStep, KeepaliveAccepted, KeepaliveFailed, KeepaliveRelease
<1>2. CASE ExecStep
  BY <1>2 DEF ExecStep, InviteReserve, InviteSpawn, RemoveStop, RemoveEvict, NextDelivery,
     CommandDone, AcquireNotice, Prepare, Recheck, SendAccepted, SendRefused, Begin, Track, Abort,
     ShutdownAwait, ShutdownCancelAll, ShutdownSnapshot, ShutdownStop, ShutdownDone
<1>3. CASE UserCommand /\ ~ \E a \in Alias : RemoveDetach(a)
  BY <1>3 DEF UserCommand, InviteAdd, RemoveUnattached, SendCommand,
     HandoffCommand, BroadcastCommand, FrozenBroadcast, BeginCommand, ShutdownBegin
<1>4. Sweep \/ SweeperExit \/ UNCHANGED vars => UNCHANGED closed
  BY DEF Sweep, SweeperExit, vars
<1>. QED  BY <1>1, <1>2, <1>3, <1>4 DEF Next

LEMMA ClosedStep ==
    ASSUME IInv, ClosedOK, [Next]_vars
    PROVE  ClosedOK'
<1>t. /\ registry \in [Alias -> Inc0] /\ invited \in Nat /\ closed \subseteq Inc
      /\ runtime \in [Alias -> Runtimes]
  BY DEF IInv, TypeOK, Inc0
<1>a. /\ invited' \in Nat /\ invited <= invited'
      /\ \A i \in Inc : i <= invited => aliasOf'[i] = aliasOf[i]
  <2>1. ASSUME NEW a \in Alias, InviteAdd(a)
        PROVE  /\ invited' = invited + 1
               /\ \A i \in Inc : i # invited + 1 => aliasOf'[i] = aliasOf[i]
    BY <2>1, InviteChanges
  <2>. QED  BY <1>t, <2>1, LaunchStep DEF Inc
<1>1. ASSUME NEW i \in Inc, i <= invited, registry[aliasOf[i]] # i
      PROVE  registry'[aliasOf[i]] # i
  <2>1. PICK b \in Alias : b = aliasOf[i]
    BY <1>1 DEF IInv, Named
  <2>2. InviteAdd(b) => registry'[b] = invited + 1
    BY InviteChanges
  <2>. QED  BY <1>t, <1>1, <2>1, <2>2, RegistryMoves DEF Inc
<1>2. ASSUME NEW i \in closed'
      PROVE  i <= invited' /\ registry'[aliasOf'[i]] # i
  <2>1. CASE i \in closed
    <3>1. i \in Inc /\ i <= invited /\ registry[aliasOf[i]] # i
      BY <1>t, <2>1 DEF ClosedOK
    <3>2. registry'[aliasOf[i]] # i /\ aliasOf'[i] = aliasOf[i]
      BY <1>a, <1>1, <3>1
    <3>3. i <= invited'
      BY <1>t, <1>a, <3>1 DEF Inc
    <3>. QED  BY <3>2, <3>3
  <2>2. CASE i \notin closed
    <3>1. PICK a \in Alias : RemoveDetach(a)
      BY <1>2, <2>2, ClosedMoves
    <3>2. /\ i = runtime[a].stop /\ i # 0 /\ Forget(a)
          /\ invited' = invited /\ aliasOf' = aliasOf
      BY <1>2, <2>2, <3>1 DEF RemoveDetach, CanDetach, ids
    <3>3. i <= invited /\ aliasOf[i] = a
      BY <3>2 DEF ClosedOK
    <3>4. ~ Registered(a)'
      BY <3>2, ForgetKept
    <3>. QED  BY <3>2, <3>3, <3>4 DEF Registered
  <2>. QED  BY <2>1, <2>2
<1>3. ASSUME NEW b \in Alias, runtime'[b].stop # 0
      PROVE  runtime'[b].stop <= invited' /\ aliasOf'[runtime'[b].stop] = b
  <2>1. PICK i \in Inc0 : i = runtime'[b].stop /\ i # 0 /\ i <= invited /\ aliasOf[i] = b
    <3>1. CASE runtime'[b].stop = runtime[b].stop
      BY <1>t, <1>3, <3>1 DEF ClosedOK, Runtimes
    <3>2. CASE runtime'[b].stop # runtime[b].stop
      BY <1>3, <3>2, StopMoves DEF Inc, Inc0
    <3>. QED  BY <3>1, <3>2
  <2>. QED  BY <1>t, <1>a, <2>1 DEF Inc, Inc0
<1>. QED  BY <1>2, <1>3 DEF ClosedOK

LEMMA ClosedInit == Init => ClosedOK
BY DEF Init, ClosedOK, NoRuntime

-----------------------------------------------------------------------------
(* A turn in progress has its end in sight.                                  *)

LEMMA SureSent ==
    ASSUME NEW i \in Inc, NEW s, Sure(i, s)
    PROVE  Sent(i, s)
BY DEF Sure, Sent, Twice, Flushed

LEMMA AgentSends ==
    ASSUME IInv, NEW i \in Inc, NEW s \in Anchors, AgentMoves(i)
    PROVE  /\ Reading(i, s)' <=> Reading(i, s)
           /\ Sent(i, s) => Sent(i, s)'
           /\ Sure(i, s) => Sure(i, s)'
<1>q. pipe[i] \in Seq(Messages)
  BY DEF IInv, TypeOK
<1>r. /\ Reading(i, s)' <=> Reading(i, s)
      /\ rd'[i].pc \in {"errCheck", "crash"} <=> rd[i].pc \in {"errCheck", "crash"}
  BY DEF AgentMoves, Reading
<1>x. s # "keepalive" /\ s # "none"
  BY DEF Anchors
<1>1. CASE Runs(i) /\ \E m \in Messages : pipe'[i] = Append(pipe[i], m)
  <2>1. /\ Failed(pipe[i]) => Failed(pipe'[i])
        /\ Flushed(pipe[i], s) => Flushed(pipe'[i], s)
        /\ Twice(pipe[i], s) => Twice(pipe'[i], s)
    BY <1>1, <1>q, AppendEnds
  <2>. QED  BY <1>1, <1>r, <2>1 DEF Sent, Sure, Runs
<1>2. CASE /\ proc'[i] = "running" /\ task'[i] = "none"
           /\ \E m \in Messages :
                /\ pipe'[i] = Append(pipe[i], m)
                /\ m.mode = "fail" \/ task[i] = "keepalive" \/ Closes(m, task[i])
  <2>1. /\ Failed(pipe[i]) => Failed(pipe'[i])
        /\ Flushed(pipe[i], s) => Flushed(pipe'[i], s)
        /\ Twice(pipe[i], s) => Twice(pipe'[i], s)
        /\ task[i] = s => Failed(pipe'[i]) \/ Flushed(pipe'[i], s)
        /\ task[i] = s /\ Flushed(pipe[i], s) => Failed(pipe'[i]) \/ Twice(pipe'[i], s)
    <3>1. PICK m \in Messages :
                /\ pipe'[i] = Append(pipe[i], m)
                /\ m.mode = "fail" \/ task[i] = "keepalive" \/ Closes(m, task[i])
      BY <1>2
    <3>. QED  BY <1>q, <1>x, <3>1, AppendEnds
  <2>2. Sent(i, s) => Sent(i, s)'
    BY <1>2, <1>r, <2>1 DEF Sent, AgentMoves
  <2>. QED  BY <1>2, <1>r, <2>1, <2>2 DEF Sure, AgentMoves
<1>3. CASE proc'[i] # "running"
  BY <1>3, <1>r DEF Sent, Sure
<1>. QED  BY <1>1, <1>2, <1>3, <1>r DEF AgentMoves

LEMMA AccountAgent ==
    ASSUME IInv, AnchorOK, NEW b \in Alias, Registered(b), NEW i \in Inc, registry[b] = i,
           AgentMoves(i), Accounted(b, i)
    PROVE  Accounted(b, i)'
<1>1. ex' = ex /\ part'[i] = part[i] /\ rd'[i] = rd[i]
  BY DEF AgentMoves
<1>2. part[i].status = "working" => part[i].anchor \in Anchors
  BY DEF AnchorOK, Holder
<1>3. ex.pc = "begin" => ex.anchor \in Anchors
  BY DEF AnchorOK
<1>4. PICK s : s = part[i].anchor
  OBVIOUS
<1>5. PICK t : t = ex.anchor
  OBVIOUS
<1>6. s \in Anchors => /\ Reading(i, s)' <=> Reading(i, s)
                       /\ Sent(i, s) => Sent(i, s)'
                       /\ Sure(i, s) => Sure(i, s)'
  BY AgentSends
<1>7. t \in Anchors => (Sent(i, t) => Sent(i, t)')
  BY AgentSends
<1>w. part[i].status = "working" /\ s \in Anchors =>
        /\ s \notin part[i].open => rd[i].pc = "markIdle"
        /\ Reading(i, s) \/ Sent(i, s)
        /\ ex.pc = "track" /\ ex.alias = b /\ ex.anchor = s => Sure(i, s)
  BY <1>4 DEF Accounted
<1>p. part[i].status = "preparing" /\ ex.pc = "begin" =>
         (rd[i].pc = "close" /\ rd[i].msg.id = t) \/ Sent(i, t)
  BY <1>5 DEF Accounted
<1>8. part[i].status = "working" =>
        /\ s \notin part[i].open => rd[i].pc = "markIdle"
        /\ Reading(i, s)' \/ Sent(i, s)'
        /\ ex.pc = "track" /\ ex.alias = b /\ ex.anchor = s => Sure(i, s)'
  BY <1>2, <1>4, <1>6, <1>w
<1>9. part[i].status = "preparing" /\ ex.pc = "begin" =>
        (rd[i].pc = "close" /\ rd[i].msg.id = t) \/ Sent(i, t)'
  BY <1>3, <1>5, <1>7, <1>p
<1>. HIDE DEF Reading, Sent, Sure
<1>. QED  BY <1>1, <1>4, <1>5, <1>8, <1>9 DEF Accounted

\* What the participant looks like after its reader's step, if it is still active.
LEMMA ReaderKeeps ==
    ASSUME IInv, NEW i \in Inc, ReaderMoves(i), HasActiveTurn(part'[i])
    PROVE  /\ part'[i].status = part[i].status /\ part'[i].anchor = part[i].anchor
           /\ part'[i].open = part[i].open
                \/ (rd[i].pc = "track" /\ part'[i].open = part[i].open \cup {rd[i].msg.id})
                \/ (rd[i].pc = "close" /\ part'[i].open = part[i].open \ {rd[i].msg.id})
           /\ rd[i].pc # "crash"
           /\ rd[i].pc = "markIdle" => ~ CanBecomeIdle(part[i])
<1>. DEFINE p == part[i]
            q == part'[i]
            id == rd[i].msg.id
<1>t. p \in P
  BY DEF IInv, TypeOK, P
<1>1. q.status \notin {"idle", "crashed"}
  BY DEF HasActiveTurn
<1>2. q \notin {BecomeIdle(p), FinishKeepalive(p), Crash(p)}
  BY <1>t, <1>1, MovesStatus
<1>3. /\ q = p \/ (rd[i].pc = "track" /\ q = TrackStream(p, id))
               \/ (rd[i].pc = "close" /\ q = CloseStream(p, id))
      /\ rd[i].pc # "crash" /\ (rd[i].pc = "markIdle" => ~ CanBecomeIdle(p))
  BY <1>2 DEF ReaderMoves, Reads
<1>4. /\ TrackStream(p, id).status = p.status /\ TrackStream(p, id).anchor = p.anchor
      /\ TrackStream(p, id).open = p.open \cup {id}
      /\ CloseStream(p, id).status = p.status /\ CloseStream(p, id).anchor = p.anchor
      /\ CloseStream(p, id).open = p.open \ {id}
  BY <1>t DEF TrackStream, CloseStream, P, Participants
<1>. QED  BY <1>3, <1>4

\* Reading a message moves it from the pipe into the reader's hand.
LEMMA ReadSends ==
    ASSUME IInv, NEW i \in Inc, NEW s \in Anchors, Runs(i),
           rd[i].pc = "read", pipe[i] # <<>>, pipe'[i] = Tail(pipe[i]),
           rd'[i].pc = Dispatch[Head(pipe[i]).mode], rd'[i].msg = Head(pipe[i])
    PROVE  /\ Sent(i, s) => Sent(i, s)' \/ (rd'[i].pc = "close" /\ rd'[i].msg.id = s)
           /\ Sure(i, s) => Sure(i, s)'
           /\ rd'[i].pc \in {"dropCheck", "close", "finish", "errCheck"}
<1>. DEFINE q == pipe[i]
            h == Head(pipe[i])
            r == Tail(pipe[i])
<1>q. q \in Seq(Messages) /\ h \in Messages
  BY TailAt DEF IInv, TypeOK
<1>1. /\ Failed(q) => h.mode = "fail" \/ Failed(r)
      /\ Flushed(q, s) => Closes(h, s) \/ Flushed(r, s)
      /\ Twice(q, s) => Twice(r, s) \/ (Closes(h, s) /\ Flushed(r, s))
  BY <1>q, TailEnds
<1>2. /\ h.mode = "fail" => rd'[i].pc = "errCheck"
      /\ Closes(h, s) => rd'[i].pc = "close" /\ rd'[i].msg.id = s
      /\ rd'[i].pc \in {"dropCheck", "close", "finish", "errCheck"}
  <2>1. h.mode \in {"stream", "flush", "keepalive", "fail"}
    BY <1>q DEF Messages
  <2>. QED  BY <2>1 DEF Dispatch, Closes
<1>. HIDE DEF q, h, r
<1>v. pipe[i] = q /\ pipe'[i] = r
  BY DEF q, r
<1>3. Closes(h, s) => Reading(i, s)'
  BY <1>2 DEF Reading
<1>4. Sent(i, s) => Sent(i, s)' \/ (rd'[i].pc = "close" /\ rd'[i].msg.id = s)
  BY <1>1, <1>2, <1>v DEF Sent, Runs
<1>5. Sure(i, s) => Sure(i, s)'
  <2>1. ~ Reading(i, s)
    BY DEF Reading
  <2>2. Twice(q, s) => Sure(i, s)'
    BY <1>1, <1>3, <1>v DEF Sure, Sent
  <2>3. task[i] = s /\ Flushed(q, s) => Sure(i, s)'
    BY <1>1, <1>3, <1>v DEF Sure, Sent, Runs
  <2>4. Failed(q) => Sure(i, s)'
    BY <1>1, <1>2, <1>v DEF Sure
  <2>5. proc[i] # "running" => Sure(i, s)'
    BY DEF Sure, Runs
  <2>. QED  BY <1>v, <2>1, <2>2, <2>3, <2>4, <2>5 DEF Sure
<1>. QED  BY <1>2, <1>4, <1>5

\* The other steps of the reader leave what is on its way alone.
LEMMA ReaderSends ==
    ASSUME IInv, NEW i \in Inc, NEW s, ReaderMoves(i),
           i \notin closed, rd[i].pc # "crash", pipe'[i] = pipe[i]
    PROVE  /\ Sent(i, s) => Sent(i, s)'
           /\ Sure(i, s) => Sure(i, s)' \/ (Reading(i, s) /\ Sent(i, s))
<1>1. rd[i].pc \in {"errCheck", "crash"} => rd'[i].pc \in {"errCheck", "crash"}
  BY DEF ReaderMoves, Reads
<1>2. Runs(i)
  BY DEF ReaderMoves
<1>. QED  BY <1>1, <1>2 DEF Sent, Sure, Runs

LEMMA AccountReader ==
    ASSUME IInv, AnchorOK, NEW b \in Alias, Registered(b), NEW i \in Inc, registry[b] = i,
           i \notin closed, ReaderMoves(i), ~ early'[i], ~ early[i] => Accounted(b, i)
    PROVE  Accounted(b, i)'
<1>. DEFINE p == part[i]
            q == part'[i]
            id == rd[i].msg.id
<1>x. ex' = ex
  BY DEF ReaderMoves
<1>e. Accounted(b, i)
  BY DEF ReaderMoves, IInv, TypeOK
<1>s. PICK s : s = p.anchor
  OBVIOUS
<1>t. PICK t : t = ex.anchor
  OBVIOUS
<1>1. ASSUME q.status = "working"
      PROVE  /\ s \notin q.open => rd'[i].pc = "markIdle"
             /\ Reading(i, s)' \/ Sent(i, s)'
             /\ ex.pc = "track" /\ ex.alias = b /\ ex.anchor = s => Sure(i, s)'
  <2>k. /\ p.status = "working" /\ q.anchor = s
        /\ q.open = p.open
             \/ (rd[i].pc = "track" /\ q.open = p.open \cup {id})
             \/ (rd[i].pc = "close" /\ q.open = p.open \ {id})
        /\ rd[i].pc # "crash"
        /\ rd[i].pc = "markIdle" => ~ CanBecomeIdle(p)
    BY <1>s, <1>1, ReaderKeeps DEF HasActiveTurn
  <2>a. s \in Anchors
    BY <1>s, <2>k DEF AnchorOK, Holder
  <2>0. /\ s \notin p.open => rd[i].pc = "markIdle"
        /\ Reading(i, s) \/ Sent(i, s)
        /\ ex.pc = "track" /\ ex.alias = b /\ ex.anchor = s => Sure(i, s)
    BY <1>e, <1>s, <2>k DEF Accounted
  <2>1. CASE /\ rd[i].pc = "read" /\ pipe[i] # <<>> /\ pipe'[i] = Tail(pipe[i])
             /\ rd'[i].pc = Dispatch[Head(pipe[i]).mode] /\ rd'[i].msg = Head(pipe[i])
    <3>1. /\ Sent(i, s) => Sent(i, s)' \/ (rd'[i].pc = "close" /\ rd'[i].msg.id = s)
          /\ Sure(i, s) => Sure(i, s)'
      BY <2>a, <2>1, ReadSends DEF ReaderMoves
    <3>2. s \in q.open /\ ~ Reading(i, s)
      BY <2>0, <2>1, <2>k DEF Reading
    <3>. QED  BY <2>0, <3>1, <3>2 DEF Reading
  <2>2. CASE proc[i] # "running" /\ rd[i].pc = "read"
    <3>1. proc'[i] # "running"
      BY <2>2 DEF ReaderMoves, Runs
    <3>2. s \in q.open
      BY <2>0, <2>2, <2>k
    <3>. QED  BY <3>1, <3>2 DEF Sent, Sure
  <2>3. CASE pipe'[i] = pipe[i] /\ rd[i].pc \notin {"close", "markIdle"}
    <3>1. /\ Sent(i, s) => Sent(i, s)'
          /\ Sure(i, s) => Sure(i, s)' \/ (Reading(i, s) /\ Sent(i, s))
      BY <2>3, <2>k, ReaderSends
    <3>2. ~ Reading(i, s) /\ s \in q.open
      BY <2>0, <2>3, <2>k DEF Reading
    <3>. QED  BY <2>0, <3>1, <3>2
  <2>4. CASE pipe'[i] = pipe[i] /\ rd[i].pc = "close"
    <3>1. /\ Sent(i, s) => Sent(i, s)'
          /\ Sure(i, s) => Sure(i, s)' \/ (Reading(i, s) /\ Sent(i, s))
      BY <2>4, <2>k, ReaderSends
    <3>2. s \in p.open
      BY <2>0, <2>4
    <3>3. rd'[i].pc = IF CanClose(p, id) /\ ShouldIdle(p, id) THEN "markIdle" ELSE "read"
      BY <2>4 DEF ReaderMoves, Reads
    <3>4. CASE id = s
      <4>1. CanClose(p, id) /\ ShouldIdle(p, id)
        BY <1>s, <2>k, <3>2, <3>4 DEF CanClose, ShouldIdle, HasActiveTurn
      <4>2. q = CloseStream(p, id)
        BY <2>4, <4>1 DEF ReaderMoves, Reads
      <4>3. s \notin q.open /\ rd'[i].pc = "markIdle"
        <5>1. p \in P
          BY DEF IInv, TypeOK, P
        <5>. QED  BY <3>3, <3>4, <4>1, <4>2, <5>1 DEF CloseStream, P, Participants
      <4>4. Reading(i, s)'
        BY <4>3 DEF Reading
      <4>. QED  BY <2>0, <3>1, <4>3, <4>4 DEF Sure
    <3>5. CASE id # s
      <4>1. ~ ShouldIdle(p, id) /\ ~ Reading(i, s)
        BY <1>s, <2>4, <3>5 DEF ShouldIdle, Reading
      <4>2. s \in q.open
        BY <2>k, <3>2, <3>5
      <4>. QED  BY <2>0, <3>1, <4>1, <4>2
    <3>. QED  BY <3>4, <3>5
  <2>5. CASE pipe'[i] = pipe[i] /\ rd[i].pc = "markIdle"
    <3>1. /\ Sent(i, s) => Sent(i, s)'
          /\ Sure(i, s) => Sure(i, s)' \/ (Reading(i, s) /\ Sent(i, s))
      BY <2>5, <2>k, ReaderSends
    <3>2. s \in p.open
      BY <1>s, <2>5, <2>a, <2>k DEF CanBecomeIdle, Anchors, NoStream
    <3>3. ~ Reading(i, s) /\ s \in q.open
      BY <2>5, <2>k, <3>2 DEF Reading
    <3>. QED  BY <2>0, <3>1, <3>3
  <2>. QED  BY <2>1, <2>2, <2>3, <2>4, <2>5 DEF ReaderMoves, Reads
<1>2. ASSUME q.status = "preparing", ex.pc = "begin"
      PROVE  (rd'[i].pc = "close" /\ rd'[i].msg.id = t) \/ Sent(i, t)'
  <2>k. p.status = "preparing" /\ rd[i].pc # "crash"
    BY <1>2, ReaderKeeps DEF HasActiveTurn
  <2>a. t \in Anchors
    BY <1>t, <1>2 DEF AnchorOK
  <2>0. (rd[i].pc = "close" /\ id = t) \/ Sent(i, t)
    BY <1>e, <1>t, <1>2, <2>k DEF Accounted
  <2>1. CASE /\ rd[i].pc = "read" /\ pipe[i] # <<>> /\ pipe'[i] = Tail(pipe[i])
             /\ rd'[i].pc = Dispatch[Head(pipe[i]).mode] /\ rd'[i].msg = Head(pipe[i])
    <3>1. Sent(i, t) => Sent(i, t)' \/ (rd'[i].pc = "close" /\ rd'[i].msg.id = t)
      BY <2>a, <2>1, ReadSends DEF ReaderMoves
    <3>. QED  BY <2>0, <2>1, <3>1
  <2>2. CASE proc[i] # "running"
    BY <2>2 DEF ReaderMoves, Runs, Sent
  <2>3. CASE pipe'[i] = pipe[i]
    <3>1. Sent(i, t) => Sent(i, t)'
      BY <2>3, <2>k, ReaderSends
    <3>2. rd[i].pc = "close" => early'[i] = (early[i] \/ (p.status = "preparing" /\ id # "item"))
      BY DEF ReaderMoves, Reads
    <3>3. rd[i].pc = "close" => id = "item"
      BY <2>k, <3>2
    <3>. QED  BY <2>0, <2>a, <3>1, <3>3 DEF Anchors
  <2>. QED  BY <2>1, <2>2, <2>3 DEF ReaderMoves, Reads
<1>3. q.status = "working" => q.anchor = s
  BY <1>s, ReaderKeeps DEF HasActiveTurn
<1>. QED  BY <1>x, <1>t, <1>1, <1>2, <1>3 DEF Accounted

\* Steps that move no message and start nothing leave the account as it is.
LEMMA AccountHeld ==
    ASSUME IInv, AnchorOK, NEW b \in Alias, Registered(b), NEW i \in Inc, registry[b] = i,
           pipe'[i] = pipe[i], rd'[i] = rd[i], part'[i] = part[i], Elsewhere(b),
           Stays(i) \/ (proc'[i] = proc[i] /\ task[i] = "none"),
           Accounted(b, i)
    PROVE  Accounted(b, i)'
<1>1. ASSUME NEW s \in Anchors
      PROVE  /\ Sent(i, s) => Sent(i, s)'
             /\ Reading(i, s) => Reading(i, s)'
             /\ Sure(i, s) => Sure(i, s)'
  <2>1. s # "none"
    BY DEF Anchors
  <2>2. CASE Stays(i)
    BY <2>2 DEF Stays, Runs, Sent, Reading, Sure
  <2>3. CASE proc'[i] = proc[i] /\ task[i] = "none"
    BY <2>1, <2>3 DEF Sent, Reading, Sure
  <2>. QED  BY <2>2, <2>3
<1>2. part[i].status = "working" => part[i].anchor \in Anchors
  BY DEF AnchorOK, Holder
<1>3. ex.pc = "begin" => ex.anchor \in Anchors
  BY DEF AnchorOK
<1>s. PICK s : s = part[i].anchor
  OBVIOUS
<1>t. PICK t : t = ex.anchor
  OBVIOUS
<1>4. part[i].status = "working" =>
        /\ s \notin part[i].open => rd[i].pc = "markIdle"
        /\ Reading(i, s)' \/ Sent(i, s)'
        /\ ex.pc = "track" /\ ex.alias = b /\ ex.anchor = s => Sure(i, s)'
  BY <1>1, <1>2, <1>s DEF Accounted
<1>5. part[i].status = "preparing" /\ ex.pc = "begin" =>
        (rd[i].pc = "close" /\ rd[i].msg.id = t) \/ Sent(i, t)'
  BY <1>1, <1>3, <1>t DEF Accounted
<1>6. /\ ex'.pc = "track" /\ ex'.alias = b => ex' = ex
      /\ part[i].status = "preparing" /\ ex'.pc = "begin" => ex' = ex
  BY DEF Elsewhere
<1>. HIDE DEF Reading, Sent, Sure
<1>. QED  BY <1>s, <1>t, <1>4, <1>5, <1>6 DEF Accounted

LEMMA AccountExec ==
    ASSUME IInv, AnchorOK, NEW b \in Alias, Registered(b), NEW i \in Inc, registry[b] = i,
           ExecMoves(b, i), ~ early'[i], ~ early[i] => Accounted(b, i)
    PROVE  Accounted(b, i)'
<1>. DEFINE p == part[i]
            q == part'[i]
<1>p. p \in P /\ p = Holder(b)
  BY DEF IInv, TypeOK, P, Holder
<1>f. /\ ex.alias = b /\ rd'[i] = rd[i] /\ pipe'[i] = pipe[i] /\ proc'[i] = proc[i]
  BY DEF ExecMoves
<1>s. PICK s : s = p.anchor
  OBVIOUS
<1>a. p.status = "working" => s \in Anchors
  BY <1>s DEF AnchorOK, Holder
<1>0. early'[i] = early[i] /\ p.status = "working" =>
        /\ s \notin p.open => rd[i].pc = "markIdle"
        /\ Reading(i, s) \/ Sent(i, s)
        /\ ex.pc = "track" /\ ex.alias = b /\ ex.anchor = s => Sure(i, s)
  BY <1>s DEF Accounted
<1>1. CASE q.status \notin {"preparing", "working"}
  BY <1>1 DEF Accounted
<1>2. CASE ex.pc = "prepare" /\ ex'.pc \in {"send", "recheck"} /\ q = PrepareForWork(p)
  <2>1. q.status = "preparing"
    BY <1>p, <1>2, MovesStatus
  <2>. QED  BY <1>2, <2>1 DEF Accounted
<1>3. CASE /\ ex.pc = "send" /\ ex'.pc = IF ex.mine THEN "begin" ELSE "track"
           /\ ex'.alias = b /\ ex'.anchor \in Anchors
           /\ proc[i] = "running" /\ task[i] = "none" /\ task'[i] = ex'.anchor
           /\ q = p /\ early'[i] = early[i]
  <2>t. PICK t \in Anchors : t = ex'.anchor /\ task'[i] = t
    BY <1>3
  <2>1. p.status = "preparing" => ex'.pc = "begin" /\ Sent(i, t)'
    BY <1>p, <1>3, <2>t DEF IInv, PreparingOwned, Sent
  <2>2. ASSUME p.status = "working"
        PROVE  /\ s \notin p.open => rd[i].pc = "markIdle"
               /\ Reading(i, s)' \/ Sent(i, s)'
               /\ t = s => Sure(i, s)'
    <3>1. s # "none"
      BY <1>a, <2>2 DEF Anchors
    <3>2. Reading(i, s) => Reading(i, s)'
      BY <1>3, <1>f DEF Reading
    <3>3. Sent(i, s) => Sent(i, s)'
      BY <1>3, <1>f, <3>1 DEF Sent
    <3>4. t = s /\ Sent(i, s) => Sure(i, s)'
      BY <1>3, <1>f, <2>t, <3>1 DEF Sent, Sure
    <3>5. t = s => Sent(i, s)'
      BY <2>t DEF Sent
    <3>6. t = s /\ Reading(i, s) => Sure(i, s)'
      BY <3>2, <3>5 DEF Sure
    <3>. QED  BY <1>0, <1>3, <2>2, <3>2, <3>3, <3>4, <3>6
  <2>. HIDE DEF Reading, Sent, Sure
  <2>. QED  BY <1>3, <1>f, <1>s, <2>t, <2>1, <2>2 DEF Accounted
<1>4. CASE /\ task'[i] = task[i] /\ early'[i] = early[i] /\ ex'.pc \in {"next", "idle"}
           /\ ex.pc = "begin" /\ CanBeginWorking(p)
           /\ \E n \in Nat : q = BeginWorking(p, ex.anchor, n)
  <2>t. PICK t \in Anchors : t = ex.anchor
    BY <1>4 DEF AnchorOK
  <2>1. q.status = "working" /\ q.anchor = t /\ t \in q.open
    BY <1>p, <1>4, <2>t DEF BeginWorking, P, Participants, Anchors, NoStream
  <2>2. (rd[i].pc = "close" /\ rd[i].msg.id = t) \/ Sent(i, t)
    BY <1>4, <2>t DEF Accounted, CanBeginWorking
  <2>3. Sent(i, t) => Sent(i, t)'
    BY <1>4, <1>f DEF Sent
  <2>4. rd[i].pc = "close" /\ rd[i].msg.id = t => Reading(i, t)'
    BY <1>f DEF Reading
  <2>. HIDE DEF Reading, Sent, Sure
  <2>. QED  BY <1>4, <2>1, <2>2, <2>3, <2>4 DEF Accounted
<1>5. CASE /\ task'[i] = task[i] /\ early'[i] = early[i] /\ ex'.pc \in {"next", "idle"}
           /\ ex.pc = "track" /\ CanTrack(p) /\ q = TrackStream(p, ex.anchor)
  <2>1. q.status = p.status /\ q.anchor = s /\ q.open = p.open \cup {ex.anchor}
    BY <1>p, <1>s, <1>5 DEF TrackStream, P, Participants
  <2>2. ASSUME p.status = "working"
        PROVE  /\ s \notin q.open => rd'[i].pc = "markIdle"
               /\ Reading(i, s)' \/ Sent(i, s)'
    <3>1. Sent(i, s) => Sent(i, s)'
      BY <1>5, <1>f DEF Sent
    <3>2. ex.anchor = s => Sent(i, s)
      BY <1>0, <1>5, <1>f, <2>2, SureSent
    <3>3. ex.anchor # s /\ Reading(i, s) => Reading(i, s)'
      BY <1>f, <2>1 DEF Reading
    <3>. QED  BY <1>0, <1>5, <1>f, <2>1, <2>2, <3>1, <3>2, <3>3
  <2>. HIDE DEF Reading, Sent, Sure
  <2>. QED  BY <1>5, <2>1, <2>2 DEF Accounted
<1>6. AbortWork(p).status = "idle"
  BY <1>p, MovesStatus
<1>7. CASE q = AbortWork(p)
  BY <1>1, <1>6, <1>7
<1>. QED  BY <1>2, <1>3, <1>4, <1>5, <1>7 DEF ExecMoves

LEMMA AccountStep ==
    ASSUME IInv, Own, NoStragglers, Handled, FreshOK, AnchorOK, ClosedOK, AccountOK, [Next]_vars
    PROVE  AccountOK'
<1>1. SUFFICES ASSUME NEW b \in Alias, Registered(b)', ~ early'[registry'[b]]
               PROVE  Accounted(b, registry[b])'
  BY DEF AccountOK
<1>2. CASE InviteAdd(b)
  <2>1. Holder(b)'.status = "starting"
    BY <1>2, InviteChanges DEF Holder, NewStarting
  <2>. QED  BY <2>1 DEF Accounted, Holder
<1>3. CASE ~ InviteAdd(b)
  <2>0. StartsAlone
    BY StragglersAlone
  <2>1. Registered(b) /\ registry'[b] = registry[b] /\ registry[b] \in Inc
    BY <1>1, <1>3, <2>0, RegisteredStep
  <2>2. PICK i \in Inc : i = registry[b] /\ i = registry'[b]
    BY <2>1
  <2>3. Sees(b, i)
    BY <1>1, <2>1, <2>2, SeesStep
  <2>4. ~ early[i] => Accounted(b, i)
    BY <2>1, <2>2 DEF AccountOK
  <2>5. SUFFICES Accounted(b, i)'
    BY <2>2
  <2>6. ~ early'[i]
    BY <1>1, <2>2
  <2>c. i \notin closed
    BY <2>1, <2>2 DEF ClosedOK, IInv, RegistryOK
  <2>p. part[i] \in P /\ PartOK(part[i])
    BY DEF IInv, TypeOK, P, PartsOK
  <2>q. part'[i].status \notin {"preparing", "working"} => Accounted(b, i)'
    BY DEF Accounted
  <2>h. ASSUME pipe'[i] = pipe[i], rd'[i] = rd[i], part'[i] = part[i], Elsewhere(b),
               early'[i] = early[i],
               Stays(i) \/ (proc'[i] = proc[i] /\ task[i] = "none")
        PROVE  Accounted(b, i)'
    BY <2>1, <2>2, <2>4, <2>6, <2>h, AccountHeld
  <2>7. CASE Quiet(i) /\ Stays(i) /\ Elsewhere(b)
    BY <2>h, <2>7 DEF Quiet
  <2>8. CASE AgentMoves(i)
    <3>1. early'[i] = early[i]
      BY <2>8 DEF AgentMoves
    <3>. QED  BY <2>1, <2>2, <2>4, <2>6, <2>8, <3>1, AccountAgent
  <2>9. CASE ReaderMoves(i)
    BY <2>1, <2>2, <2>4, <2>6, <2>9, <2>c, AccountReader
  <2>10. CASE KeeperMoves(i)
    <3>1. CASE part'[i] = part[i]
      <4>1. Elsewhere(b)
        BY <2>10 DEF KeeperMoves, Elsewhere
      <4>2. Stays(i) \/ (proc'[i] = proc[i] /\ task[i] = "none")
        BY <2>10 DEF KeeperMoves, Stays, Runs
      <4>. QED  BY <2>h, <2>10, <3>1, <4>1, <4>2 DEF KeeperMoves
    <3>2. CASE part'[i] = FinishKeepalive(part[i])
      BY <2>p, <2>q, <3>2, MovesStatus
    <3>. QED  BY <2>10, <3>1, <3>2 DEF KeeperMoves
  <2>11. CASE StartsUp(i)
    <3>1. Elsewhere(b)
      BY <2>11 DEF StartsUp, Elsewhere
    <3>2. CASE part[i].agent = 0 /\ part'[i] = part[i]
      BY <2>p, <2>q, <3>2 DEF PartOK
    <3>3. CASE rd'[i] = rd[i] /\ part'[i] = part[i] /\ Stays(i)
      BY <2>h, <2>11, <3>1, <3>3 DEF StartsUp
    <3>4. CASE part'[i].status \in {"attached", "idle", "crashed"}
      BY <2>q, <3>4
    <3>. QED  BY <2>11, <3>2, <3>3, <3>4 DEF StartsUp, Stays
  <2>12. CASE SweepMoves(i)
    <3>1. part'[i].status = "keepalive"
      BY <2>p, <2>12, MovesStatus DEF SweepMoves
    <3>. QED  BY <2>q, <3>1
  <2>13. CASE ExecMoves(b, i)
    BY <2>1, <2>2, <2>4, <2>6, <2>13, AccountExec
  <2>. QED  BY <2>3, <2>7, <2>8, <2>9, <2>10, <2>11, <2>12, <2>13 DEF Sees
<1>. QED  BY <1>2, <1>3

LEMMA AccountInit == Init => AccountOK
BY DEF Init, AccountOK, Registered

LEMMA AccountAlways ==
    Spec /\ []NoStragglers =>
        [](IInv /\ Own /\ Watch /\ AnchorOK /\ ClosedOK /\ AccountOK)
<1>1. Watch => Handled /\ FreshOK
  BY DEF Watch
<1>2. Init => AnchorOK /\ ClosedOK /\ AccountOK
  BY AnchorInit, ClosedInit, AccountInit
<1>3. IInv /\ ClosedOK /\ [Next]_vars => ClosedOK'
  BY ClosedStep
<1>4. IInv /\ Own /\ NoStragglers /\ Watch /\ AnchorOK /\ [Next]_vars => AnchorOK'
  BY <1>1, AnchorStep
<1>5. /\ IInv /\ Own /\ NoStragglers /\ Watch /\ AnchorOK /\ ClosedOK /\ AccountOK
      /\ [Next]_vars
      => AccountOK'
  BY <1>1, AccountStep
<1>. QED  BY <1>2, <1>3, <1>4, <1>5, WatchAlways, PTL DEF Spec

\* A participant that is working has the end of its turn in sight: being
\* produced by its backend, on its way, or in the hands of the reader, or the
\* reader is about to crash it; a notice sent into the turn, its refusal, and the
\* streams the turn opens and closes do not change that.  Two exceptions: the
\* turn was over before the participant was marked working, and somebody of an
\* earlier invitation of its alias still works under that alias.  (session.go:
\* readLoop, noteWorkingStreamMessage; command_send.go, command_handoff.go.)
THEOREM TurnsAreAccounted == Spec /\ []NoStragglers => []TurnAccounted
<1>1. IInv /\ AnchorOK /\ AccountOK => TurnAccounted
  <2>1. SUFFICES ASSUME IInv, AnchorOK, AccountOK, NEW a \in Alias, Registered(a),
                        Holder(a).status = "working", ~ early[registry[a]]
                 PROVE  EndInSight(registry[a])
    BY DEF TurnAccounted
  <2>2. PICK i \in Inc : i = registry[a]
    BY <2>1 DEF Registered, IInv, TypeOK, Inc, Inc0
  <2>3. Reading(i, part[i].anchor) \/ Sent(i, part[i].anchor)
    BY <2>1, <2>2 DEF AccountOK, Accounted, Holder
  <2>4. Sent(i, part[i].anchor) => EndInSight(i)
    BY DEF Sent, Failed, Flushed, Closes, EndInSight
  <2>5. Reading(i, part[i].anchor) => EndInSight(i)
    BY DEF Reading, EndInSight
  <2>. QED  BY <2>2, <2>3, <2>4, <2>5
<1>. QED  BY <1>1, AccountAlways, PTL

COROLLARY OnceIsAccounted == Spec /\ []InvitedOnce => []TurnAccounted
<1>1. IInv /\ InvitedOnce => NoStragglers
  BY OnceSuffices
<1>. QED  BY <1>1, Invariance, TurnsAreAccounted, PTL

-----------------------------------------------------------------------------
(* Without the notices of shared sends, a delivery meets a participant whose *)
(* agent is at rest.                                                         *)

\* As long as no command begins, an inactive participant stays inactive ...
LEMMA StaysInactive ==
    ASSUME IInv, Own, NoStragglers, Handled, FreshOK, [Next]_vars, ex' = ex,
           NEW b \in Alias
    PROVE  Inactive(b) => Inactive(b)'
<1>1. SUFFICES ASSUME Registered(b)', HasActiveTurn(Holder(b))'
               PROVE  Registered(b) /\ HasActiveTurn(Holder(b))
  BY DEF Inactive
<1>2. ~ InviteAdd(b)
  BY DEF InviteAdd, ExecIdle
<1>3. StartsAlone
  BY StragglersAlone
<1>4. Registered(b) /\ registry'[b] = registry[b] /\ registry[b] \in Inc
  BY <1>1, <1>2, <1>3, RegisteredStep
<1>. DEFINE i == registry[b]
            p == part[i]
            q == part'[i]
<1>5. p \in P /\ Holder(b) = p /\ Holder(b)' = q
  BY <1>4 DEF IInv, TypeOK, P, Holder
<1>6. HasActiveTurn(q)
  BY <1>1, <1>5 DEF HasActiveTurn
<1>7. Sees(b, i)
  BY <1>1, <1>4, SeesStep
<1>8. CASE ReaderMoves(i)
  BY <1>4, <1>5, <1>6, <1>8, ReaderKeeps DEF HasActiveTurn
<1>9. CASE KeeperMoves(i) \/ SweepMoves(i) \/ StartsUp(i)
  <2>1. q = p
    BY <1>5, <1>6, <1>9, MovesStatus DEF KeeperMoves, SweepMoves, StartsUp, HasActiveTurn
  <2>. QED  BY <1>4, <1>5, <1>6, <2>1
<1>10. CASE Quiet(i) \/ AgentMoves(i)
  <2>1. q = p
    BY <1>10 DEF Quiet, AgentMoves
  <2>. QED  BY <1>4, <1>5, <1>6, <2>1
<1>11. ~ ExecMoves(b, i)
  BY DEF ExecMoves
<1>. QED  BY <1>7, <1>8, <1>9, <1>10, <1>11 DEF Sees

\* ... and one that is prepared stays so, or crashes.
Taken(b) == Registered(b) => Holder(b).status \in {"preparing", "crashed"}

LEMMA StaysTaken ==
    ASSUME IInv, Own, NoStragglers, Handled, FreshOK, [Next]_vars, ex' = ex,
           NEW b \in Alias
    PROVE  Taken(b) => Taken(b)'
<1>1. SUFFICES ASSUME Registered(b)', Taken(b)
               PROVE  Holder(b)'.status \in {"preparing", "crashed"}
  BY DEF Taken
<1>2. ~ InviteAdd(b)
  BY DEF InviteAdd, ExecIdle
<1>3. StartsAlone
  BY StragglersAlone
<1>4. Registered(b) /\ registry'[b] = registry[b] /\ registry[b] \in Inc
  BY <1>1, <1>2, <1>3, RegisteredStep
<1>. DEFINE i == registry[b]
            p == part[i]
            q == part'[i]
<1>5. p \in P /\ Holder(b) = p /\ Holder(b)' = q
  BY <1>4 DEF IInv, TypeOK, P, Holder
<1>6. p.status \in {"preparing", "crashed"}
  BY <1>1, <1>4, <1>5 DEF Taken
<1>7. Sees(b, i)
  BY <1>1, <1>4, SeesStep
<1>8. CASE ReaderMoves(i)
  <2>1. \A x : TrackStream(p, x).status = p.status /\ CloseStream(p, x).status = p.status
    BY <1>5 DEF TrackStream, CloseStream, P, Participants
  <2>2. Crash(p).status = "crashed"
    BY <1>5, MovesStatus
  <2>3. ~ CanBecomeIdle(p) /\ ~ CanFinishKeepalive(p)
    BY <1>6 DEF CanBecomeIdle, CanFinishKeepalive
  <2>4. q = p \/ q = Crash(p) \/ (\E x : q \in {TrackStream(p, x), CloseStream(p, x)})
    BY <1>8, <2>3 DEF ReaderMoves
  <2>. QED  BY <1>5, <1>6, <2>1, <2>2, <2>4
<1>9. CASE KeeperMoves(i) \/ SweepMoves(i) \/ StartsUp(i)
  <2>1. q = p \/ q.status = "crashed"
    BY <1>6, <1>9 DEF KeeperMoves, SweepMoves, StartsUp, CanFinishKeepalive
  <2>. QED  BY <1>5, <1>6, <2>1
<1>10. CASE Quiet(i) \/ AgentMoves(i)
  BY <1>5, <1>6, <1>10 DEF Quiet, AgentMoves
<1>11. ~ ExecMoves(b, i)
  BY DEF ExecMoves
<1>. QED  BY <1>7, <1>8, <1>9, <1>10, <1>11 DEF Sees

\* A command that goes on to its next delivery, or to none.
LEMMA QuietGoesOn ==
    ASSUME QuietOK, ex.pc # "next", ex' \in {ExecIdle, Skipped, Delivered}
    PROVE  QuietOK'
<1>1. ex.kind \in {"direct", "notice"} => ex.todo = {}
  BY DEF QuietOK
<1>c. ASSUME NEW kind
      PROVE  /\ Continue(kind).pc = "next" /\ Continue(kind).kind = kind
             /\ Continue(kind).todo = ex.todo
  BY DEF Continue, ExecIdle
<1>i. ExecIdle.pc = "idle" /\ ExecIdle.todo = {}
  BY DEF ExecIdle
<1>2. ex'.pc \in {"idle", "next"} /\ (ex'.kind \in {"direct", "notice"} => ex'.todo = {})
  <2>1. CASE ex' = ExecIdle
    BY <1>i, <2>1
  <2>2. CASE ex' = Skipped
    BY <1>1, <1>c, <1>i, <2>2 DEF Skipped
  <2>3. CASE ex' = Delivered
    BY <1>1, <1>c, <2>3 DEF Delivered
  <2>. QED  BY <2>1, <2>2, <2>3
<1>. QED  BY <1>2 DEF QuietOK

\* The steps of a command in which it stays with its delivery.
LEMMA QuietStays ==
    ASSUME QuietOK, ex.pc # "next", ex'.kind = ex.kind, ex'.todo = ex.todo,
           ex'.pc # "acquire",
           ex'.pc \in {"recheck", "send", "begin", "track", "abort"} => Taken(ex.alias)',
           ex'.alias = ex.alias
    PROVE  QuietOK'
<1>1. ex.kind \in {"direct", "notice"} => ex.todo = {}
  BY DEF QuietOK
<1>2. PICK b : b = ex.alias /\ b = ex'.alias
  OBVIOUS
<1>3. ex'.pc \in {"recheck", "send", "begin", "track", "abort"} => Taken(b)'
  BY <1>2
<1>. QED  BY <1>1, <1>2, <1>3 DEF QuietOK, Taken

LEMMA QuietExec ==
    ASSUME IInv, Own, NoStragglers, Handled, FreshOK, QuietOK, ExecStep
    PROVE  QuietOK'
<1>t. ex \in Execs
  BY DEF IInv, TypeOK
<1>d. ex.pc \in {"acquire", "prepare", "recheck", "send", "begin", "track", "abort"} =>
        ex.alias \in Alias
  BY DEF IInv, Named
<1>k. ex.pc \in {"recheck", "send", "begin", "track", "abort"} => Taken(ex.alias)
  BY DEF QuietOK, Taken
<1>. USE DEF tables
<1>u. ASSUME UNCHANGED <<registry, part>>
      PROVE  /\ \A b : Taken(b) => Taken(b)'
             /\ \A b : Inactive(b) => Inactive(b)'
  BY <1>u DEF Taken, Inactive, Registered, Holder
<1>a. PICK a : a = ex.alias
  OBVIOUS
<1>1. CASE InviteReserve \/ ShutdownAwait \/ ShutdownCancelAll \/ ShutdownSnapshot \/ ShutdownDone
           \/ \E i \in Inc : ShutdownStop(i)
  <2>1. /\ ex.pc # "next" /\ ex'.kind = ex.kind /\ ex'.todo = ex.todo /\ ex'.alias = ex.alias
        /\ ex'.pc \in {"spawn", "cancelAll", "snapshot", "stopAll", "down"}
    BY <1>t, <1>1 DEF InviteReserve, ShutdownAwait, ShutdownCancelAll, ShutdownSnapshot,
       ShutdownDone, ShutdownStop, Execs
  <2>. QED  BY <2>1, QuietStays
<1>2. CASE InviteSpawn \/ RemoveStop \/ RemoveEvict \/ Track \/ Begin \/ Abort
  BY <1>2, QuietGoesOn DEF InviteSpawn, RemoveStop, RemoveEvict, Track, Begin, Abort
<1>3. CASE CommandDone
  BY <1>3 DEF CommandDone, QuietOK, ExecIdle
<1>4. ASSUME NEW b \in Alias, NextDelivery(b)
      PROVE  QuietOK'
  <2>1. /\ UNCHANGED <<registry, part>> /\ ex.pc = "next" /\ b \in ex.todo
        /\ ex.kind # "direct"
    BY <1>4 DEF NextDelivery, QuietOK
  <2>2. CASE ex.kind = "notice"
    <3>1. Inactive(b) /\ ex.todo = {b}
      BY <2>1, <2>2 DEF QuietOK
    <3>2. ex'.pc = "acquire" /\ ex'.alias = b /\ ex'.kind = "notice" /\ ex'.todo = {}
      BY <1>4, <2>2, <3>1 DEF NextDelivery, Continue, ExecIdle
    <3>. QED  BY <1>u, <2>1, <3>1, <3>2 DEF QuietOK
  <2>3. CASE ex.kind # "notice"
    <3>1. ex'.pc \in {"next", "prepare"} /\ ex'.kind \notin {"direct", "notice"}
      BY <1>4, <2>1, <2>3 DEF NextDelivery, Continue, ExecIdle
    <3>. QED  BY <3>1 DEF QuietOK
  <2>. QED  BY <2>2, <2>3
<1>5. CASE AcquireNotice
  <2>1. ex.pc = "acquire" /\ Inactive(ex.alias)
    BY <1>5 DEF AcquireNotice, QuietOK
  <2>2. ex' = Skipped \/ ex' = [ex EXCEPT !.pc = "prepare"]
    BY <1>5, <2>1 DEF AcquireNotice, Inactive
  <2>3. CASE ex' = [ex EXCEPT !.pc = "prepare"]
    <3>1. ex'.kind = ex.kind /\ ex'.todo = ex.todo /\ ex'.alias = ex.alias /\ ex'.pc = "prepare"
      BY <1>t, <2>3 DEF Execs
    <3>. QED  BY <2>1, <3>1, QuietStays
  <2>. QED  BY <2>1, <2>2, <2>3, QuietGoesOn
<1>6. CASE Prepare
  <2>1. ex.pc = "prepare" /\ registry' = registry /\ ex.alias \in Alias
    BY <1>6, <1>d DEF Prepare
  <2>2. CASE Registered(ex.alias) /\ IsReadyForWork(Holder(ex.alias))
    <3>1. /\ ex'.kind = ex.kind /\ ex'.todo = ex.todo /\ ex'.alias = ex.alias
          /\ ex'.pc \in {"send", "recheck"}
      BY <1>t, <1>6, <2>2 DEF Prepare, Execs
    <3>2. Holder(a)' = PrepareForWork(Holder(a))
      BY <1>6, <1>a, <2>1, <2>2, SetKept DEF Prepare, SetHolder
    <3>3. Holder(a)'.status = "preparing"
      <4>1. Holder(a) \in P
        BY <1>a, <2>1, <2>2, HolderTyped DEF IInv, P
      <4>. QED  BY <3>2, <4>1, MovesStatus
    <3>4. Taken(a)'
      BY <3>3 DEF Taken
    <3>5. Taken(ex.alias)' <=> Taken(a)'
      BY <1>a, <3>1
    <3>. QED  BY <2>1, <3>1, <3>4, <3>5, QuietStays
  <2>3. CASE ~ (Registered(ex.alias) /\ IsReadyForWork(Holder(ex.alias)))
    <3>1. ex' = Skipped
      BY <1>6, <2>3 DEF Prepare
    <3>. QED  BY <2>1, <3>1, QuietGoesOn
  <2>. QED  BY <2>2, <2>3
<1>7. CASE Recheck \/ SendAccepted \/ SendRefused
  <2>1. /\ ex.pc \in {"recheck", "send"} /\ UNCHANGED <<registry, part>>
    BY <1>7 DEF Recheck, SendAccepted, SendRefused
  <2>2. \/ ex' = Skipped
        \/ /\ ex'.kind = ex.kind /\ ex'.todo = ex.todo /\ ex'.alias = ex.alias
           /\ ex'.pc # "acquire"
    BY <1>t, <1>7 DEF Recheck, SendAccepted, SendRefused, Execs
  <2>3. ex'.alias = ex.alias => Taken(ex.alias)'
    <3>1. Taken(a)'
      BY <1>a, <1>k, <1>u, <2>1
    <3>2. ex'.alias = ex.alias => (Taken(ex.alias)' <=> Taken(a)')
      BY <1>a DEF Taken
    <3>. QED  BY <3>1, <3>2
  <2>. QED  BY <2>1, <2>2, <2>3, QuietGoesOn, QuietStays
<1>. QED  BY <1>1, <1>2, <1>3, <1>4, <1>5, <1>6, <1>7 DEF ExecStep

LEMMA QuietUser ==
    ASSUME IInv, ~ SendNotices, UserCommand
    PROVE  QuietOK'
<1>1. ex.pc = "idle" /\ NonePreparing
  <2>1. ex.pc = "idle"
    BY UserBegins
  <2>. QED  BY <2>1 DEF NonePreparing, IInv, PreparingOwned
<1>2. ASSUME NEW pc, NEW kind, NEW a, NEW todo, BeginCommand(pc, kind, a, todo)
      PROVE  /\ ex'.pc = pc /\ ex'.kind = kind /\ ex'.alias = a /\ ex'.todo = todo
             /\ UNCHANGED <<registry, part>>
  BY <1>2 DEF BeginCommand, ExecIdle, tables
<1>3. ASSUME NEW a \in Alias, InviteAdd(a) \/ RemoveDetach(a) \/ RemoveUnattached(a)
      PROVE  QuietOK'
  <2>1. ex'.kind = "none" /\ ex'.pc \in {"reserve", "idle", "stop", "evict"}
    <3>1. \A pc, x, n : /\ [ExecIdle EXCEPT !.pc = pc, !.alias = x, !.agent = n].kind = "none"
                        /\ [ExecIdle EXCEPT !.pc = pc, !.alias = x, !.agent = n].pc = pc
                        /\ [ExecIdle EXCEPT !.pc = pc, !.agent = n].kind = "none"
                        /\ [ExecIdle EXCEPT !.pc = pc, !.agent = n].pc = pc
                        /\ [ExecIdle EXCEPT !.pc = pc, !.alias = x].kind = "none"
                        /\ [ExecIdle EXCEPT !.pc = pc, !.alias = x].pc = pc
                        /\ ExecIdle.kind = "none" /\ ExecIdle.pc = "idle"
      BY DEF ExecIdle
    <3>2. CASE InviteAdd(a)
      BY <3>1, <3>2 DEF InviteAdd
    <3>3. CASE RemoveDetach(a)
      BY <3>1, <3>3 DEF RemoveDetach
    <3>4. CASE RemoveUnattached(a)
      BY <3>1, <3>4 DEF RemoveUnattached
    <3>. QED  BY <1>3, <3>2, <3>3, <3>4
  <2>. QED  BY <2>1 DEF QuietOK
<1>4. CASE ShutdownBegin
  <2>1. ex'.kind = "none" /\ ex'.pc = "awaitSweeper"
    BY <1>4 DEF ShutdownBegin, ExecIdle
  <2>. QED  BY <2>1 DEF QuietOK
<1>5. ASSUME NEW a \in Alias, NEW aliases, SendCommand(a, aliases)
      PROVE  QuietOK'
  <2>1. ex'.kind = "direct" /\ ex'.pc = "prepare" /\ ex'.todo = {}
    BY <1>2, <1>5 DEF SendCommand
  <2>. QED  BY <2>1 DEF QuietOK
<1>6. ASSUME NEW aliases, BroadcastCommand(aliases) \/ FrozenBroadcast(aliases)
      PROVE  QuietOK'
  <2>1. ex'.kind = "broadcast" /\ ex'.pc = "next"
    BY <1>2, <1>6 DEF BroadcastCommand, FrozenBroadcast
  <2>. QED  BY <2>1 DEF QuietOK
<1>7. ASSUME NEW b \in Alias, NEW barrier, HandoffCommand(b, barrier)
      PROVE  QuietOK'
  <2>1. /\ ex'.kind = "notice" /\ ex'.pc = "next" /\ ex'.todo = {b}
        /\ UNCHANGED <<registry, part>>
    BY <1>2, <1>7 DEF HandoffCommand
  <2>2. Inactive(b)
    BY <1>1, <1>7 DEF HandoffCommand, Inactive, NonePreparing, IsRoutable, HasActiveTurn
  <2>3. Inactive(b)'
    BY <2>1, <2>2 DEF Inactive, Registered, Holder
  <2>. QED  BY <2>1, <2>3 DEF QuietOK
<1>. QED  BY <1>3, <1>4, <1>5, <1>6, <1>7 DEF UserCommand

LEMMA QuietStep ==
    ASSUME IInv, Own, NoStragglers, Handled, FreshOK, ~ SendNotices, QuietOK, [Next]_vars
    PROVE  QuietOK'
<1>1. CASE ex' = ex
  <2>1. \A b \in Alias : (Inactive(b) => Inactive(b)') /\ (Taken(b) => Taken(b)')
    BY <1>1, StaysInactive, StaysTaken
  <2>2. ex.pc \in {"acquire", "prepare", "recheck", "send", "begin", "track", "abort"} =>
          ex.alias \in Alias
    BY DEF IInv, Named
  <2>3. PICK a : a = ex.alias /\ a = ex'.alias
    BY <1>1
  <2>4. ex.pc = "acquire" => Inactive(a)'
    BY <2>1, <2>2, <2>3 DEF QuietOK
  <2>5. ex.pc \in {"recheck", "send", "begin", "track", "abort"} => Taken(a)'
    BY <2>1, <2>2, <2>3 DEF QuietOK, Taken
  <2>6. ex.pc = "acquire" => ex.kind = "notice"
    BY DEF QuietOK
  <2>7. ex.kind = "direct" => ex.todo = {}
    BY DEF QuietOK
  <2>8. ex.kind = "notice" =>
          ex.todo = {} \/ (ex.pc = "next" /\ \E b \in Alias : ex.todo = {b} /\ Inactive(b)')
    BY <2>1 DEF QuietOK
  <2>. QED  BY <1>1, <2>3, <2>4, <2>5, <2>6, <2>7, <2>8 DEF QuietOK, Taken
<1>2. CASE UserCommand
  BY <1>2, QuietUser
<1>3. CASE ExecStep
  BY <1>3, QuietExec
<1>. QED  BY <1>1, <1>2, <1>3, OthersFrame DEF Next

LEMMA QuietInit == Init => QuietOK
BY DEF Init, QuietOK, ExecIdle

-----------------------------------------------------------------------------
(* The status of a participant agrees with what its agent is doing.          *)

LEMMA SameWork ==
    ASSUME NEW i \in Inc, pipe'[i] = pipe[i], Steps(i)' = Steps(i), task'[i] = task[i],
           InHand(rd[i])' <=> InHand(rd[i]),
           rd'[i].pc = "finish" <=> rd[i].pc = "finish"
    PROVE  /\ Rest(i) => Rest(i)'
           /\ Turn(i) => Turn(i)'
           /\ Pinged(i) => Pinged(i)'
<1>1. Rest(i) => Rest(i)'
  BY DEF Rest
<1>2. Turn(i) => Turn(i)'
  BY DEF Turn
<1>3. Pinged(i) => Pinged(i)'
  BY DEF Pinged
<1>. QED  BY <1>1, <1>2, <1>3

\* A participant that keeps its status, and its agent what it does.
LEMMA AgreesSame ==
    ASSUME NEW i \in Inc, Agrees(i),
           part'[i].status = part[i].status,
           part[i].status = "preparing" => (ex'.pc = "begin" <=> ex.pc = "begin"),
           Rest(i) => Rest(i)', Turn(i) => Turn(i)', Pinged(i) => Pinged(i)'
    PROVE  Agrees(i)'
BY DEF Agrees

LEMMA AgreesAgent ==
    ASSUME IInv, NEW i \in Inc, AgentMoves(i), proc'[i] = "running", Agrees(i)
    PROVE  Agrees(i)'
<1>q. pipe[i] \in Seq(Messages)
  BY DEF IInv, TypeOK
<1>f. /\ rd'[i] = rd[i] /\ Steps(i)' = Steps(i) /\ ex' = ex /\ part'[i] = part[i]
  BY DEF AgentMoves
<1>h. InHand(rd[i])' <=> InHand(rd[i])
  BY <1>f DEF InHand
<1>1. CASE /\ Runs(i) /\ task[i] = "turn"
           /\ \E m \in Messages : ~ Ender(m) /\ pipe'[i] = Append(pipe[i], m)
  <2>1. NoEnd(pipe[i]) => NoEnd(pipe'[i])
    BY <1>q, <1>1, AppendEnds
  <2>2. task'[i] = "turn"
    BY <1>1 DEF Runs
  <2>3. ~ Rest(i) /\ ~ Pinged(i)
    BY <1>1 DEF Rest, Pinged
  <2>4. Turn(i) => Turn(i)'
    BY <1>1, <1>f, <1>h, <2>1, <2>2 DEF Turn
  <2>. QED  BY <1>f, <2>3, <2>4, AgreesSame
<1>2. CASE /\ task[i] # "none" /\ task'[i] = "none"
           /\ \E m \in Messages :
                /\ Ender(m) /\ pipe'[i] = Append(pipe[i], m)
                /\ m.mode = "keepalive" <=> task[i] = "keepalive"
  <2>1. PICK m \in Messages : /\ Ender(m) /\ pipe'[i] = Append(pipe[i], m)
                              /\ m.mode = "keepalive" <=> task[i] = "keepalive"
    BY <1>2
  <2>2. NoEnd(pipe[i]) => OneEnd(pipe'[i], m.mode = "keepalive")
    BY <1>q, <2>1, AppendEnds
  <2>3. /\ NoEnd(pipe[i]) /\ task[i] = "keepalive" => OneEnd(pipe'[i], TRUE)
        /\ NoEnd(pipe[i]) /\ task[i] # "keepalive" => OneEnd(pipe'[i], FALSE)
    BY <2>1, <2>2 DEF OneEnd
  <2>4. ~ Rest(i)
    BY <1>2 DEF Rest
  <2>5. Turn(i) => Turn(i)'
    BY <1>2, <1>f, <1>h, <2>3 DEF Turn
  <2>6. Pinged(i) => Pinged(i)'
    BY <1>2, <1>f, <1>h, <2>3 DEF Pinged
  <2>. QED  BY <1>f, <2>4, <2>5, <2>6, AgreesSame
<1>. QED  BY <1>1, <1>2 DEF AgentMoves

LEMMA AgreesRead ==
    ASSUME IInv, NEW i \in Inc, Runs(i), Steps(i)' = Steps(i),
           rd[i].pc = "read", pipe[i] # <<>>, pipe'[i] = Tail(pipe[i]),
           rd'[i].pc = Dispatch[Head(pipe[i]).mode], rd'[i].msg = Head(pipe[i])
    PROVE  /\ Rest(i) => Rest(i)'
           /\ Turn(i) => Turn(i)'
           /\ Pinged(i) => Pinged(i)'
<1>. DEFINE q == pipe[i]
            h == Head(pipe[i])
            r == Tail(pipe[i])
<1>q. q \in Seq(Messages) /\ h \in Messages
  BY TailAt DEF IInv, TypeOK
<1>1. /\ NoEnd(q) => ~ Ender(h) /\ NoEnd(r)
      /\ \A ping \in BOOLEAN : OneEnd(q, ping) =>
           IF Ender(h) THEN NoEnd(r) /\ (ping <=> h.mode = "keepalive") ELSE OneEnd(r, ping)
  BY <1>q, TailEnds
<1>t. OneEnd(q, TRUE) => IF Ender(h) THEN NoEnd(r) /\ h.mode = "keepalive" ELSE OneEnd(r, TRUE)
  BY <1>1
<1>u. OneEnd(q, FALSE) => IF Ender(h) THEN NoEnd(r) /\ h.mode # "keepalive" ELSE OneEnd(r, FALSE)
  BY <1>1
<1>2. /\ InHand(rd[i])' <=> Ender(h)
      /\ rd'[i].pc = "finish" <=> h.mode = "keepalive"
      /\ ~ InHand(rd[i])
  <2>1. h.mode \in {"stream", "flush", "keepalive", "fail"}
    BY <1>q DEF Messages
  <2>2. InHand(rd[i])' <=> \/ rd'[i].pc \in {"finish", "markIdle", "errCheck", "crash"}
                           \/ rd'[i].pc = "close" /\ rd'[i].msg.id # "item"
    BY DEF InHand
  <2>. QED  BY <2>1, <2>2 DEF Dispatch, Ender, InHand
<1>k. Ender(h) \/ h.mode # "keepalive"
  BY DEF Ender
<1>v. pipe[i] = q /\ pipe'[i] = r
  OBVIOUS
<1>. HIDE DEF q, h, r
<1>3. Rest(i) => Rest(i)'
  BY <1>1, <1>2, <1>v DEF Rest, Runs
<1>4. Turn(i) => Turn(i)'
  BY <1>1, <1>2, <1>u, <1>v DEF Turn, Runs
<1>5. Pinged(i) => Pinged(i)'
  BY <1>1, <1>2, <1>t, <1>k, <1>v DEF Pinged, Runs
<1>. QED  BY <1>3, <1>4, <1>5

LEMMA AgreesReader ==
    ASSUME IInv, AnchorOK, NEW b \in Alias, Registered(b), NEW i \in Inc, registry[b] = i,
           i \notin closed, ReaderMoves(i), proc[i] = "running", Agrees(i)
    PROVE  Agrees(i)'
<1>. DEFINE p == part[i]
            q == part'[i]
            id == rd[i].msg.id
<1>p. p \in P /\ PartOK(p)
  BY DEF IInv, TypeOK, P, PartsOK
<1>f. ex' = ex /\ task'[i] = task[i] /\ Steps(i)' = Steps(i)
  BY DEF ReaderMoves, Runs
<1>k. InHand(rd[i])' <=> \/ rd'[i].pc \in {"finish", "markIdle", "errCheck", "crash"}
                         \/ rd'[i].pc = "close" /\ rd'[i].msg.id # "item"
  BY DEF InHand
<1>s. /\ \A x : TrackStream(p, x).status = p.status
      /\ \A x : CloseStream(p, x).status = p.status
  BY <1>p DEF TrackStream, CloseStream, P, Participants
\* An ender in the reader's hand tells what the participant is doing ...
<1>h. ASSUME InHand(rd[i]), p.status # "crashed"
      PROVE  /\ IF rd[i].pc = "finish" THEN p.status = "keepalive"
                ELSE p.status = "working" \/ (p.status = "preparing" /\ ex.pc = "begin")
             /\ Steps(i) = {} /\ task[i] = "none" /\ NoEnd(pipe[i])
  <2>1. ~ Rest(i) /\ (Turn(i) => rd[i].pc # "finish") /\ (Pinged(i) => rd[i].pc = "finish")
    BY <1>h DEF Rest, Turn, Pinged
  <2>2. p.status \in Status
    BY <1>p DEF P, Participants
  <2>3. CASE p.status = "keepalive"
    BY <1>h, <2>1, <2>3 DEF Agrees, Pinged
  <2>4. CASE p.status \in {"starting", "attached", "idle"}
    BY <2>1, <2>4 DEF Agrees
  <2>5. CASE p.status \in {"preparing", "working"}
    <3>1. Turn(i) /\ (p.status = "working" \/ ex.pc = "begin")
      BY <2>1, <2>5 DEF Agrees
    <3>. QED  BY <1>h, <2>1, <2>5, <3>1 DEF Turn
  <2>. QED  BY <1>h, <2>2, <2>3, <2>4, <2>5 DEF Status
\* ... and once it is dealt with, the agent is at rest.
<1>r. ASSUME InHand(rd[i]), p.status # "crashed", pipe'[i] = pipe[i], ~ InHand(rd[i])'
      PROVE  Rest(i)'
  BY <1>f, <1>h, <1>r DEF Rest
<1>c. p.status = "crashed" => q.status = "crashed"
  <2>1. Crash(p).status = "crashed"
    BY <1>p, MovesStatus
  <2>2. p.status = "crashed" => ~ CanBecomeIdle(p) /\ ~ CanFinishKeepalive(p)
    BY DEF CanBecomeIdle, CanFinishKeepalive
  <2>3. \/ q = p \/ q = Crash(p) \/ (\E x : q \in {TrackStream(p, x), CloseStream(p, x)})
        \/ CanBecomeIdle(p) \/ CanFinishKeepalive(p)
    BY DEF ReaderMoves
  <2>. QED  BY <1>s, <2>1, <2>2, <2>3
<1>d. q.status = "crashed" => Agrees(i)'
  BY DEF Agrees
<1>w. ASSUME pipe'[i] = pipe[i], ~ InHand(rd[i]), ~ InHand(rd[i])', q.status = p.status
      PROVE  Agrees(i)'
  <2>1. rd[i].pc # "finish" /\ rd'[i].pc # "finish"
    BY <1>k, <1>w DEF InHand
  <2>2. /\ Rest(i) => Rest(i)' 
        /\ Turn(i) => Turn(i)'
        /\ Pinged(i) => Pinged(i)'
    BY <1>f, <1>w, <2>1, SameWork
  <2>. QED  BY <1>f, <1>w, <2>2, AgreesSame
<1>1. CASE /\ rd[i].pc = "read" /\ pipe[i] # <<>> /\ pipe'[i] = Tail(pipe[i])
           /\ rd'[i].pc = Dispatch[Head(pipe[i]).mode] /\ rd'[i].msg = Head(pipe[i])
           /\ q = p
  <2>1. /\ Rest(i) => Rest(i)'
        /\ Turn(i) => Turn(i)'
        /\ Pinged(i) => Pinged(i)'
    BY <1>1, AgreesRead DEF ReaderMoves
  <2>. QED  BY <1>1, <1>f, <2>1, AgreesSame
<1>2. CASE /\ pipe'[i] = pipe[i]
           /\ \/ (Reads(i, "dropCheck", "read") \/ Reads(i, "dropCheck", "track")) /\ q = p
              \/ Reads(i, "track", "read") /\ (q = p \/ q = TrackStream(p, id))
              \/ Reads(i, "terminal", "done") /\ q = p
  <2>1. ~ InHand(rd[i]) /\ ~ InHand(rd[i])'
    BY <1>2, <1>k DEF Reads, InHand
  <2>2. q.status = p.status
    BY <1>2, <1>s
  <2>. QED  BY <1>2, <1>w, <2>1, <2>2
<1>3. CASE /\ pipe'[i] = pipe[i] /\ rd[i].pc = "close"
           /\ rd'[i].pc = IF CanClose(p, id) /\ ShouldIdle(p, id) THEN "markIdle" ELSE "read"
           /\ q = IF CanClose(p, id) THEN CloseStream(p, id) ELSE p
  <2>1. q.status = p.status
    BY <1>3, <1>s
  <2>2. CASE id = "item"
    <3>1. p.status = "working" => p.anchor # "item"
      BY DEF AnchorOK, Anchors, Holder
    <3>2. rd'[i].pc = "read"
      BY <1>3, <2>2, <3>1 DEF ShouldIdle
    <3>3. ~ InHand(rd[i]) /\ ~ InHand(rd[i])'
      BY <1>3, <1>k, <2>2, <3>2 DEF InHand
    <3>. QED  BY <1>3, <1>w, <2>1, <3>3
  <2>3. CASE id # "item" /\ p.status # "crashed"
    <3>1. InHand(rd[i]) /\ rd[i].pc # "finish"
      BY <1>3, <2>3 DEF InHand
    <3>2. p.status = "working" \/ (p.status = "preparing" /\ ex.pc = "begin")
      BY <1>h, <2>3, <3>1
    <3>3. CASE rd'[i].pc = "markIdle"
      <4>1. Turn(i)'
        BY <1>3, <1>f, <1>h, <1>k, <2>3, <3>1, <3>3 DEF Turn
      <4>. QED  BY <1>f, <2>1, <3>2, <4>1 DEF Agrees
    <3>4. CASE rd'[i].pc = "read"
      <4>1. Rest(i)'
        BY <1>3, <1>r, <1>k, <2>3, <3>1, <3>4
      <4>. QED  BY <1>f, <2>1, <3>2, <4>1 DEF Agrees
    <3>. QED  BY <1>3, <3>3, <3>4
  <2>. QED  BY <1>c, <1>d, <2>2, <2>3
<1>4. CASE /\ pipe'[i] = pipe[i] /\ p.status # "crashed"
           /\ Reads(i, "markIdle", "read")
           /\ q = IF CanBecomeIdle(p) THEN BecomeIdle(p) ELSE p
  <2>1. InHand(rd[i]) /\ rd[i].pc # "finish" /\ ~ InHand(rd[i])'
    BY <1>4, <1>k DEF InHand, Reads
  <2>2. Rest(i)'
    BY <1>4, <1>r, <2>1
  <2>3. p.status = "working" \/ (p.status = "preparing" /\ ex.pc = "begin")
    BY <1>4, <1>h, <2>1
  <2>4. q.status \in {p.status, "idle"}
    BY <1>p, <1>4, MovesStatus
  <2>. QED  BY <1>f, <2>2, <2>3, <2>4 DEF Agrees
<1>5. CASE /\ pipe'[i] = pipe[i] /\ p.status # "crashed"
           /\ Reads(i, "finish", "read")
           /\ q = IF CanFinishKeepalive(p) THEN FinishKeepalive(p) ELSE p
  <2>1. InHand(rd[i]) /\ rd[i].pc = "finish" /\ ~ InHand(rd[i])'
    BY <1>5, <1>k DEF InHand, Reads
  <2>2. Rest(i)'
    BY <1>5, <1>r, <2>1
  <2>3. p.status = "keepalive"
    BY <1>5, <1>h, <2>1
  <2>4. q.status = "idle"
    BY <1>p, <1>5, <2>3, MovesStatus DEF CanFinishKeepalive
  <2>. QED  BY <2>2, <2>4 DEF Agrees
<1>6. CASE /\ pipe'[i] = pipe[i] /\ p.status # "crashed" /\ q = p
           /\ rd[i].pc = "errCheck" /\ rd'[i].pc = "crash"
  <2>1. InHand(rd[i]) /\ rd[i].pc # "finish"
    BY <1>6 DEF InHand
  <2>2. Turn(i)'
    BY <1>6, <1>f, <1>h, <1>k, <2>1 DEF Turn
  <2>3. p.status = "working" \/ (p.status = "preparing" /\ ex.pc = "begin")
    BY <1>6, <1>h, <2>1
  <2>. QED  BY <1>6, <1>f, <2>2, <2>3 DEF Agrees
<1>7. CASE q = Crash(p)
  BY <1>p, <1>d, <1>7, MovesStatus
<1>. QED  BY <1>c, <1>d, <1>1, <1>2, <1>3, <1>4, <1>5, <1>6, <1>7 DEF ReaderMoves, Reads

LEMMA AgreesKeeper ==
    ASSUME IInv, NEW i \in Inc, KeeperMoves(i), Agrees(i)
    PROVE  Agrees(i)'
<1>. DEFINE p == part[i]
            q == part'[i]
<1>p. p \in P /\ p.status \in Status
  BY DEF IInv, TypeOK, P, Participants
<1>f. ex' = ex /\ rd'[i] = rd[i] /\ pipe'[i] = pipe[i]
  BY DEF KeeperMoves
<1>h. InHand(rd[i])' <=> InHand(rd[i])
  BY <1>f DEF InHand
<1>1. p.status \notin {"crashed", "keepalive"} => Rest(i) \/ Turn(i)
  BY <1>p DEF Agrees, Status
<1>2. Steps(i) # {}
  BY DEF KeeperMoves
<1>3. p.status \in {"crashed", "keepalive"}
  BY <1>1, <1>2 DEF Rest, Turn
<1>4. CASE p.status = "crashed"
  <2>1. q = p
    BY <1>4 DEF KeeperMoves, CanFinishKeepalive
  <2>. QED  BY <1>4, <2>1 DEF Agrees
<1>5. CASE p.status = "keepalive"
  <2>1. /\ Steps(i) \in {{"call"}, {"failed"}}
        /\ task[i] = "none" /\ NoEnd(pipe[i]) /\ ~ InHand(rd[i])
    BY <1>2, <1>5 DEF Agrees, Pinged
  <2>2. CASE /\ "call" \in Steps(i) /\ Steps(i)' = Steps(i) \ {"call"}
             /\ task'[i] = "keepalive" /\ q = p
    <3>1. Steps(i)' = {}
      BY <2>1, <2>2
    <3>2. Pinged(i)'
      BY <1>f, <1>h, <2>1, <2>2, <3>1 DEF Pinged
    <3>. QED  BY <1>5, <2>2, <3>2 DEF Agrees
  <2>3. CASE /\ "call" \in Steps(i) /\ Steps(i)' = (Steps(i) \ {"call"}) \cup {"failed"}
             /\ task'[i] = task[i] /\ q = p
    <3>1. Steps(i)' = {"failed"}
      BY <2>1, <2>3
    <3>2. Pinged(i)'
      BY <1>f, <1>h, <2>1, <2>3, <3>1 DEF Pinged
    <3>. QED  BY <1>5, <2>3, <3>2 DEF Agrees
  <2>4. CASE /\ "failed" \in Steps(i) /\ Steps(i)' = Steps(i) \ {"failed"}
             /\ task'[i] = task[i]
             /\ q = IF CanFinishKeepalive(p) THEN FinishKeepalive(p) ELSE p
    <3>1. Steps(i)' = {}
      BY <2>1, <2>4
    <3>2. Rest(i)'
      BY <1>f, <1>h, <2>1, <2>4, <3>1 DEF Rest
    <3>3. q.status = "idle"
      BY <1>p, <1>5, <2>4, MovesStatus DEF CanFinishKeepalive
    <3>. QED  BY <3>2, <3>3 DEF Agrees
  <2>. QED  BY <2>2, <2>3, <2>4 DEF KeeperMoves
<1>. QED  BY <1>3, <1>4, <1>5

LEMMA AgreesStart ==
    ASSUME IInv, NEW i \in Inc, StartsUp(i), proc'[i] = "running",
           proc[i] = "running" => Agrees(i)
    PROVE  Agrees(i)'
<1>. DEFINE p == part[i]
            q == part'[i]
<1>p. p \in P /\ PartOK(p) /\ p.status \in Status
  BY DEF IInv, TypeOK, P, PartsOK, Participants
<1>f. ex' = ex /\ pipe'[i] = pipe[i] /\ Steps(i)' = Steps(i)
  BY DEF StartsUp
<1>1. ASSUME Runs(i), InHand(rd[i])' <=> InHand(rd[i]), rd'[i].pc = "finish" <=> rd[i].pc = "finish"
      PROVE  /\ Agrees(i)
             /\ Rest(i) => Rest(i)'
             /\ Turn(i) => Turn(i)'
             /\ Pinged(i) => Pinged(i)'
  BY <1>f, <1>1, SameWork DEF Runs
<1>h. rd'[i] = rd[i] => (InHand(rd[i])' <=> InHand(rd[i]))
  BY DEF InHand
<1>2. CASE Runs(i) /\ q = p /\ rd'[i] = rd[i]
  BY <1>f, <1>h, <1>1, <1>2, AgreesSame
<1>3. CASE /\ q = p /\ rd'[i] = rd[i] /\ Rest(i) /\ task'[i] = "none" /\ p.agent = 0
  <2>1. Rest(i)'
    BY <1>f, <1>h, <1>3 DEF Rest
  <2>2. q.status \in {"starting", "crashed"}
    BY <1>p, <1>3 DEF PartOK, Status
  <2>. QED  BY <2>1, <2>2 DEF Agrees
<1>4. CASE /\ Runs(i) /\ rd'[i] = rd[i]
           /\ p.status \in {"starting", "attached"} /\ q.status \in {"attached", "idle"}
  <2>1. Rest(i)'
    BY <1>h, <1>1, <1>4 DEF Agrees
  <2>. QED  BY <1>4, <2>1 DEF Agrees
<1>5. CASE Runs(i) /\ p.status = "idle" /\ q.status = "idle" /\ rd'[i].pc = "read"
  <2>1. Rest(i)
    BY <1>5 DEF Agrees, Runs
  <2>2. ~ InHand(rd[i])'
    BY <1>5 DEF InHand
  <2>3. Rest(i)'
    BY <1>f, <1>5, <2>1, <2>2 DEF Rest, Runs
  <2>. QED  BY <1>5, <2>3 DEF Agrees
<1>6. CASE q.status = "crashed"
  BY <1>6 DEF Agrees
<1>. QED  BY <1>2, <1>3, <1>4, <1>5, <1>6 DEF StartsUp

LEMMA AgreesSweep ==
    ASSUME IInv, NEW i \in Inc, SweepMoves(i), Agrees(i)
    PROVE  Agrees(i)'
<1>1. Rest(i) /\ rd'[i] = rd[i]
  BY DEF SweepMoves, Agrees
<1>2. InHand(rd[i])' <=> InHand(rd[i])
  BY <1>1 DEF InHand
<1>3. Steps(i)' = {"call"}
  BY <1>1 DEF SweepMoves, Rest
<1>4. Pinged(i)'
  BY <1>1, <1>2, <1>3 DEF SweepMoves, Rest, Pinged, Runs
<1>5. part'[i].status = "keepalive"
  BY MovesStatus DEF SweepMoves, IInv, TypeOK, P
<1>. QED  BY <1>4, <1>5 DEF Agrees

LEMMA AgreesExec ==
    ASSUME IInv, QuietOK, NEW b \in Alias, Registered(b), NEW i \in Inc, registry[b] = i,
           ExecMoves(b, i), Agrees(i)
    PROVE  Agrees(i)'
<1>. DEFINE p == part[i]
            q == part'[i]
<1>p. p \in P /\ p = Holder(b)
  BY DEF IInv, TypeOK, P, Holder
<1>f. ex.alias = b /\ rd'[i] = rd[i] /\ pipe'[i] = pipe[i] /\ Steps(i)' = Steps(i)
  BY DEF ExecMoves
<1>h. InHand(rd[i])' <=> InHand(rd[i])
  BY <1>f DEF InHand
<1>w. ASSUME task'[i] = task[i]
      PROVE  /\ Rest(i) => Rest(i)'
             /\ Turn(i) => Turn(i)'
  BY <1>f, <1>h, <1>w, SameWork
<1>k. ex.pc \in {"send", "begin", "track", "abort"} => p.status \in {"preparing", "crashed"}
  BY <1>p, <1>f DEF QuietOK
<1>o. p.status = "preparing" => ex.mine /\ ex.pc # "track"
  BY <1>p DEF IInv, PreparingOwned
<1>0. q.status = "crashed" => Agrees(i)'
  BY DEF Agrees
<1>1. CASE /\ ex.pc = "prepare" /\ ex'.pc \in {"send", "recheck"}
           /\ IsReadyForWork(p) /\ q = PrepareForWork(p) /\ task'[i] = task[i]
  <2>1. Rest(i)'
    BY <1>w, <1>1 DEF Agrees, IsReadyForWork
  <2>2. q.status = "preparing"
    BY <1>p, <1>1, MovesStatus
  <2>. QED  BY <1>1, <2>1, <2>2 DEF Agrees
<1>2. CASE /\ ex.pc = "send" /\ ex'.pc = IF ex.mine THEN "begin" ELSE "track"
           /\ ex'.anchor \in Anchors /\ task'[i] = ex'.anchor /\ q = p
  <2>1. CASE p.status = "preparing"
    <3>1. Rest(i) /\ ex'.pc = "begin"
      BY <1>2, <1>o, <2>1 DEF Agrees
    <3>2. Turn(i)'
      BY <1>2, <1>f, <1>h, <3>1 DEF Rest, Turn, Anchors
    <3>. QED  BY <1>2, <2>1, <3>1, <3>2 DEF Agrees
  <2>. QED  BY <1>0, <1>2, <1>k, <2>1
<1>3. CASE /\ task'[i] = task[i] /\ ex.pc = "begin" /\ CanBeginWorking(p)
           /\ \E n \in Nat : q = BeginWorking(p, ex.anchor, n)
  <2>1. Rest(i)' \/ Turn(i)'
    BY <1>w, <1>3 DEF Agrees, CanBeginWorking
  <2>2. q.status = "working"
    BY <1>p, <1>3 DEF BeginWorking, P, Participants
  <2>. QED  BY <2>1, <2>2 DEF Agrees
<1>4. ~ (ex.pc = "track" /\ CanTrack(p))
  BY <1>k, <1>o DEF CanTrack, HasActiveTurn
<1>5. CASE task'[i] = task[i] /\ ex.pc = "abort" /\ CanAbort(p) /\ q = AbortWork(p)
  <2>1. Rest(i)'
    BY <1>w, <1>k, <1>5 DEF Agrees, CanAbort, HasActiveTurn
  <2>2. q.status = "idle"
    BY <1>p, <1>5, MovesStatus
  <2>. QED  BY <2>1, <2>2 DEF Agrees
<1>. QED  BY <1>1, <1>2, <1>3, <1>4, <1>5 DEF ExecMoves

LEMMA AgreeStep ==
    ASSUME IInv, Own, NoStragglers, Handled, FreshOK, AnchorOK, ClosedOK, QuietOK, AgreeOK,
           [Next]_vars
    PROVE  AgreeOK'
<1>1. SUFFICES ASSUME NEW b \in Alias, Registered(b)', proc'[registry'[b]] = "running"
               PROVE  Agrees(registry[b])'
  BY DEF AgreeOK
<1>2. CASE InviteAdd(b)
  <2>1. PICK i \in Inc : i = invited + 1 /\ i = registry'[b] /\ spc[i] = "none" /\ proc' = proc
    <3>1. invited + 1 \in Inc /\ registry'[b] = invited + 1
      BY <1>2, InviteChanges
    <3>2. spc[invited + 1] = "none"
      BY <3>1 DEF IInv, Named, Inc, TypeOK, Inc0
    <3>. QED  BY <1>2, <3>1, <3>2 DEF InviteAdd, agents
  <2>2. proc[i] # "running"
    BY <2>1 DEF FreshOK, Fresh, Unborn
  <2>. QED  BY <1>1, <2>1, <2>2
<1>3. CASE ~ InviteAdd(b)
  <2>0. StartsAlone
    BY StragglersAlone
  <2>1. Registered(b) /\ registry'[b] = registry[b] /\ registry[b] \in Inc
    BY <1>1, <1>3, <2>0, RegisteredStep
  <2>2. PICK i \in Inc : i = registry[b] /\ i = registry'[b]
    BY <2>1
  <2>3. Sees(b, i)
    BY <1>1, <2>1, <2>2, SeesStep
  <2>4. proc[i] = "running" => Agrees(i)
    BY <2>1, <2>2 DEF AgreeOK
  <2>5. proc'[i] = "running"
    BY <1>1, <2>2
  <2>6. SUFFICES Agrees(i)'
    BY <2>2
  <2>c. i \notin closed
    BY <2>1, <2>2 DEF ClosedOK, IInv, RegistryOK
  <2>7. CASE Quiet(i) /\ Stays(i) /\ Elsewhere(b)
    <3>1. Runs(i) /\ Agrees(i)
      BY <2>4, <2>5, <2>7 DEF Stays, Runs
    <3>2. InHand(rd[i])' <=> InHand(rd[i])
      BY <2>7 DEF Quiet, InHand
    <3>3. /\ Rest(i) => Rest(i)'
          /\ Turn(i) => Turn(i)'
          /\ Pinged(i) => Pinged(i)'
      BY <2>7, <3>1, <3>2, SameWork DEF Quiet, Runs
    <3>4. part'[i] = part[i]
      BY <2>7 DEF Quiet
    <3>5. part[i].status = "preparing" => (ex'.pc = "begin" <=> ex.pc = "begin")
      BY <2>2, <2>7 DEF Elsewhere
    <3>. QED  BY <3>1, <3>3, <3>4, <3>5, AgreesSame
  <2>8. CASE AgentMoves(i)
    BY <2>4, <2>5, <2>8, AgreesAgent DEF AgentMoves
  <2>9. CASE ReaderMoves(i)
    <3>1. proc[i] = "running"
      BY <2>5, <2>9 DEF ReaderMoves, Runs
    <3>. QED  BY <2>1, <2>2, <2>4, <2>9, <2>c, <3>1, AgreesReader
  <2>10. CASE KeeperMoves(i)
    BY <2>4, <2>5, <2>10, AgreesKeeper DEF KeeperMoves
  <2>11. CASE StartsUp(i)
    BY <2>4, <2>5, <2>11, AgreesStart
  <2>12. CASE SweepMoves(i)
    BY <2>4, <2>5, <2>12, AgreesSweep DEF SweepMoves, Runs
  <2>13. CASE ExecMoves(b, i)
    BY <2>1, <2>2, <2>4, <2>5, <2>13, AgreesExec DEF ExecMoves
  <2>. QED  BY <2>3, <2>7, <2>8, <2>9, <2>10, <2>11, <2>12, <2>13 DEF Sees
<1>. QED  BY <1>2, <1>3

LEMMA AgreeInit == Init => AgreeOK
BY DEF Init, AgreeOK, Registered

LEMMA AgreeAlways ==
    ASSUME ~ SendNotices
    PROVE  Spec /\ []NoStragglers => [](IInv /\ Watch /\ QuietOK /\ AgreeOK)
<1>1. Watch => Handled /\ FreshOK
  BY DEF Watch
<1>2. Init => QuietOK /\ AgreeOK
  BY QuietInit, AgreeInit
<1>3. IInv /\ Own /\ NoStragglers /\ Watch /\ QuietOK /\ [Next]_vars => QuietOK'
  BY <1>1, QuietStep
<1>4. /\ IInv /\ Own /\ NoStragglers /\ Watch /\ AnchorOK /\ ClosedOK /\ QuietOK /\ AgreeOK
      /\ [Next]_vars
      => AgreeOK'
  BY <1>1, AgreeStep
<1>. QED  BY <1>2, <1>3, <1>4, AccountAlways, PTL DEF Spec

\* An idle participant's agent has no turn in flight, neither of the participant
\* nor a ping, so that a command which finds it idle is not refused as
\* overlapping: unless a shared send's notice was layered onto a turn, or somebody
\* of an earlier invitation of its alias still works under that alias.
\* (command_send.go: prepareParticipantForWork, AbortWork; session.go: markIdle,
\* finishParticipantKeepalive.)
THEOREM IdleIsFree ==
    ASSUME ~ SendNotices
    PROVE  Spec /\ []NoStragglers => []IdleMeansFree
<1>1. IInv /\ Watch /\ AgreeOK => IdleMeansFree
  <2>1. SUFFICES ASSUME IInv, FreshOK, AgreeOK, NEW a \in Alias, Registered(a),
                        Holder(a).status = "idle"
                 PROVE  task[registry[a]] = "none"
    BY DEF IdleMeansFree, Watch
  <2>2. registry[a] \in Inc
    BY <2>1 DEF Registered, IInv, TypeOK, Inc, Inc0
  <2>3. CASE proc[registry[a]] = "running"
    BY <2>1, <2>3 DEF AgreeOK, Agrees, Rest, Holder
  <2>4. CASE proc[registry[a]] # "running"
    BY <2>1, <2>2, <2>4 DEF FreshOK
  <2>. QED  BY <2>3, <2>4
<1>. QED  BY <1>1, AgreeAlways, PTL

COROLLARY OnceIsFree ==
    ASSUME ~ SendNotices
    PROVE  Spec /\ []InvitedOnce => []IdleMeansFree
<1>1. IInv /\ InvitedOnce => NoStragglers
  BY OnceSuffices
<1>. QED  BY <1>1, Invariance, IdleIsFree, PTL

-----------------------------------------------------------------------------
(* A participant is not left behind in keepalive.                            *)

Answered(q) == \E k \in DOMAIN q : q[k].mode \in {"keepalive", "fail"}
Held(i) ==
    \/ Steps(i) # {}
    \/ task[i] = "keepalive"
    \/ Answered(pipe[i])
    \/ rd[i].pc \in {"finish", "errCheck", "crash"}
    \/ proc[i] # "running"
HeldOK == \A a \in Alias :
    Registered(a) /\ Holder(a).status = "keepalive" => Held(registry[a])

LEMMA HeldAgent ==
    ASSUME IInv, NEW i \in Inc, AgentMoves(i), Held(i)
    PROVE  Held(i)'
<1>q. pipe[i] \in Seq(Messages)
  BY DEF IInv, TypeOK
<1>f. rd'[i] = rd[i] /\ Steps(i)' = Steps(i) /\ proc[i] = "running"
  BY DEF AgentMoves
<1>1. ASSUME NEW m \in Messages, pipe'[i] = Append(pipe[i], m)
      PROVE  Answered(pipe[i]) \/ m.mode = "keepalive" => Answered(pipe'[i])
  BY <1>q, <1>1, AppendAt DEF Answered
<1>2. CASE Runs(i) /\ \E m \in Messages : pipe'[i] = Append(pipe[i], m)
  BY <1>f, <1>1, <1>2 DEF Held, Runs
<1>3. CASE \E m \in Messages : /\ pipe'[i] = Append(pipe[i], m)
                               /\ m.mode = "keepalive" <=> task[i] = "keepalive"
  BY <1>f, <1>1, <1>3 DEF Held
<1>4. CASE proc'[i] # "running"
  BY <1>4 DEF Held
<1>. QED  BY <1>2, <1>3, <1>4 DEF AgentMoves

LEMMA HeldReader ==
    ASSUME IInv, NEW i \in Inc, i \notin closed, ReaderMoves(i),
           part'[i].status = "keepalive", part[i].status = "keepalive" => Held(i)
    PROVE  Held(i)'
<1>. DEFINE p == part[i]
            q == part'[i]
<1>p. p \in P
  BY DEF IInv, TypeOK, P
<1>f. Runs(i) /\ Steps(i)' = Steps(i)
  BY DEF ReaderMoves
<1>s. /\ \A x : TrackStream(p, x).status = p.status
      /\ \A x : CloseStream(p, x).status = p.status
      /\ BecomeIdle(p).status = "idle" /\ FinishKeepalive(p).status = "idle"
      /\ Crash(p).status = "crashed"
  BY <1>p, MovesStatus DEF TrackStream, CloseStream, P, Participants
<1>0. p.status = "keepalive" /\ rd[i].pc \notin {"finish", "crash"}
  BY <1>s DEF ReaderMoves, Reads, CanFinishKeepalive
<1>1. Held(i)
  BY <1>0
<1>2. CASE /\ pipe[i] # <<>> /\ pipe'[i] = Tail(pipe[i]) /\ rd[i].pc = "read"
           /\ rd'[i].pc = Dispatch[Head(pipe[i]).mode]
  <2>1. Answered(pipe[i]) => Answered(pipe'[i]) \/ Head(pipe[i]).mode \in {"keepalive", "fail"}
    <3>q. pipe[i] \in Seq(Messages)
      BY DEF IInv, TypeOK
    <3>1. /\ Head(pipe[i]) = pipe[i][1]
          /\ \A k \in DOMAIN pipe[i] :
               k = 1 \/ (k - 1 \in DOMAIN Tail(pipe[i]) /\ Tail(pipe[i])[k - 1] = pipe[i][k])
      BY <1>2, <3>q, TailAt
    <3>. QED  BY <1>2, <3>1 DEF Answered
  <2>. QED  BY <1>1, <1>2, <1>f, <2>1 DEF Held, Runs, Dispatch
<1>3. CASE proc[i] # "running"
  BY <1>3, <1>f DEF Held, Runs
<1>4. CASE pipe'[i] = pipe[i]
  <2>1. rd[i].pc = "errCheck" => rd'[i].pc = "crash"
    BY DEF ReaderMoves, Reads
  <2>. QED  BY <1>0, <1>1, <1>4, <1>f, <2>1 DEF Held, Runs
<1>. QED  BY <1>2, <1>3, <1>4 DEF ReaderMoves

LEMMA HeldStep ==
    ASSUME IInv, Own, NoStragglers, Handled, FreshOK, ClosedOK, HeldOK, [Next]_vars
    PROVE  HeldOK'
<1>1. SUFFICES ASSUME NEW b \in Alias, Registered(b)', Holder(b)'.status = "keepalive"
               PROVE  Held(registry[b])'
  BY DEF HeldOK
<1>2. ~ InviteAdd(b)
  BY <1>1, InviteChanges DEF Holder, NewStarting
<1>3. StartsAlone
  BY StragglersAlone
<1>4. Registered(b) /\ registry'[b] = registry[b] /\ registry[b] \in Inc
  BY <1>1, <1>2, <1>3, RegisteredStep
<1>5. PICK i \in Inc : i = registry[b] /\ i = registry'[b]
  BY <1>4
<1>6. Sees(b, i)
  BY <1>1, <1>4, <1>5, SeesStep
<1>7. SUFFICES Held(i)'
  BY <1>5
<1>. DEFINE p == part[i]
            q == part'[i]
<1>8. p \in P /\ q.status = "keepalive" /\ (p.status = "keepalive" => Held(i))
  BY <1>1, <1>4, <1>5 DEF IInv, TypeOK, P, Holder, HeldOK
<1>9. CASE Quiet(i) /\ Stays(i)
  BY <1>8, <1>9 DEF Quiet, Stays, Runs, Held
<1>10. CASE AgentMoves(i)
  BY <1>8, <1>10, HeldAgent DEF AgentMoves
<1>11. CASE ReaderMoves(i)
  <2>1. i \notin closed
    BY <1>4, <1>5 DEF ClosedOK, IInv, RegistryOK
  <2>. QED  BY <1>8, <1>11, <2>1, HeldReader
<1>12. CASE KeeperMoves(i)
  <2>1. q = p
    BY <1>8, <1>12, MovesStatus DEF KeeperMoves
  <2>2. ~ CanFinishKeepalive(p) => p.status # "keepalive"
    BY DEF CanFinishKeepalive
  <2>3. ~ CanFinishKeepalive(p) \/ q # FinishKeepalive(p)
    BY <1>8, MovesStatus
  <2>4. \/ task'[i] = "keepalive"
        \/ Steps(i)' = (Steps(i) \ {"call"}) \cup {"failed"}
    BY <1>8, <1>12, <2>1, <2>2, <2>3 DEF KeeperMoves
  <2>. QED  BY <2>4 DEF Held
<1>13. CASE StartsUp(i)
  <2>1. q = p
    BY <1>8, <1>13 DEF StartsUp
  <2>2. Runs(i) /\ rd'[i] = rd[i] => Held(i)'
    BY <1>8, <1>13, <2>1 DEF StartsUp, Runs, Held
  <2>3. p.agent # 0 /\ p.status = "keepalive"
    BY <1>8, <2>1 DEF IInv, PartsOK, PartOK
  <2>4. proc'[i] # "running" => Held(i)'
    BY DEF Held
  <2>. QED  BY <1>8, <1>13, <2>2, <2>3, <2>4 DEF StartsUp
<1>14. CASE SweepMoves(i)
  BY <1>14 DEF SweepMoves, Held
<1>15. CASE ExecMoves(b, i)
  <2>1. \A x : TrackStream(p, x).status = p.status
    BY <1>8 DEF TrackStream, P, Participants
  <2>2. \A x, n : BeginWorking(p, x, n).status = "working"
    BY <1>8 DEF BeginWorking, P, Participants
  <2>3. PrepareForWork(p).status = "preparing" /\ AbortWork(p).status = "idle"
    BY <1>8, MovesStatus
  <2>4. CanTrack(p) => p.status # "keepalive"
    BY DEF CanTrack, HasActiveTurn
  <2>5. q = p /\ task[i] = "none"
    BY <1>8, <1>15, <2>1, <2>2, <2>3, <2>4 DEF ExecMoves
  <2>. QED  BY <1>8, <1>15, <2>5 DEF ExecMoves, Held
<1>. QED  BY <1>6, <1>9, <1>10, <1>11, <1>12, <1>13, <1>14, <1>15 DEF Sees

\* A participant that is being pinged is not left behind: the ping is to be sent,
\* is running, was answered, or is to be released, or the process is gone and the
\* reader will crash the participant.  True also of a participant that was put
\* back to idle while a turn of its agent was still running, and whose ping is
\* refused for that.  (sweepKeepalive, runKeepalive, finishParticipantKeepalive.)
THEOREM KeepaliveIsHeld == Spec /\ []NoStragglers => []KeepaliveHeld
<1>1. Watch => Handled /\ FreshOK
  BY DEF Watch
<1>2. Init => HeldOK
  BY DEF Init, HeldOK, Registered
<1>3. IInv /\ Own /\ NoStragglers /\ Watch /\ ClosedOK /\ HeldOK /\ [Next]_vars => HeldOK'
  BY <1>1, HeldStep
<1>4. IInv /\ HeldOK => KeepaliveHeld
  <2>1. SUFFICES ASSUME HeldOK, NEW a \in Alias, Registered(a), Holder(a).status = "keepalive",
                        NEW i, i = registry[a]
                 PROVE  \/ \E step \in {"call", "failed"} : <<i, step>> \in kruns
                        \/ task[i] = "keepalive"
                        \/ \E k \in DOMAIN pipe[i] : pipe[i][k].mode \in {"keepalive", "fail"}
                        \/ rd[i].pc \in {"finish", "errCheck", "crash"}
                        \/ proc[i] # "running"
    BY DEF KeepaliveHeld
  <2>2. Held(i)
    BY <2>1 DEF HeldOK
  <2>. QED  BY <2>2 DEF Held, Steps, Answered
<1>. QED  BY <1>2, <1>3, <1>4, AccountAlways, PTL DEF Spec

COROLLARY OnceIsHeld == Spec /\ []InvitedOnce => []KeepaliveHeld
<1>1. IInv /\ InvitedOnce => NoStragglers
  BY OnceSuffices
<1>. QED  BY <1>1, Invariance, KeepaliveIsHeld, PTL
=============================================================================
