------------------------------- MODULE Session -------------------------------
(***************************************************************************)
(* The session orchestrator (internal/session): the registry of            *)
(* participants, the agents map, and the goroutines that share them under  *)
(* the session mutex.  One step is one critical section of that mutex or   *)
(* one call into an agent, so every interleaving the lock permits is a     *)
(* behaviour.  Notifications of the observers change no session state and  *)
(* are left out.                                                           *)
(*                                                                         *)
(*   exec     the goroutine that calls Execute, one command at a time      *)
(*   start    one per invitation: startInvitedAgent                        *)
(*   reader   one per started agent: readLoop                              *)
(*   sweeper  keepaliveLoop, and one runKeepalive goroutine per candidate  *)
(*                                                                         *)
(* An invitation creates a participant, an agent and a stop channel; the   *)
(* number of the invitation (its incarnation) names all three.  The        *)
(* goroutines look participants up by alias, so an old goroutine can meet  *)
(* a younger participant under its alias.                                  *)
(***************************************************************************)
EXTENDS Participant, Sequences, FiniteSets

CONSTANTS
    Alias,           \* the aliases the user invites
    NoAlias,         \* no alias
    MaxInvites,      \* bound: invitations of one behaviour
    MaxTurns,        \* bound: the turns after which no command delivers work
    MaxPipe,         \* bound: agent messages not yet read
    SendNotices,     \* the send-notices policy is enabled
    Keepalives,      \* the adapters implement Keepaliver
    SlowStartup,     \* a keepalive can fall due before startup is published
    Commands         \* the kinds of commands the user gives

ASSUME SessionAssumption ==
    /\ NoAlias \notin Alias
    /\ MaxInvites \in Nat \ {0}
    /\ MaxTurns \in Nat
    /\ MaxPipe \in Nat \ {0}
    /\ {SendNotices, Keepalives, SlowStartup} \subseteq BOOLEAN
    /\ Commands \subseteq {"invite", "remove", "send", "handoff", "broadcast",
                          "frozenBroadcast", "shutdown"}

Inc  == 1 .. MaxInvites
Inc0 == 0 .. MaxInvites

VARIABLES
    \* session state guarded by s.mu
    registry,    \* alias -> the registered participant, 0 when there is none
    part,        \* incarnation -> its participant record
    runtime,     \* the agents map: alias -> agentRuntime
    closed,      \* the stop channels that are closed
    lastTurnID,
    ctxDone,     \* the lifecycle context is cancelled
    invited,     \* invitations so far
    aliasOf,     \* incarnation -> alias
    \* agents
    proc,        \* the backend process
    task,        \* the turn the backend is running
    pipe,        \* messages emitted and not yet returned by Read
    \* goroutines
    ex, spc, rd, kpc, kruns,
    \* history
    early        \* the anchor flush of the turn came while still preparing

tables  == <<registry, runtime>>
flags   == <<closed, ctxDone>>
ids     == <<lastTurnID, invited, aliasOf>>
agents  == <<proc, task, pipe>>
keepers == <<kpc, kruns>>
vars    == <<tables, part, flags, ids, agents, ex, spc, rd, keepers, early>>

-----------------------------------------------------------------------------
(* State *)

Runtimes  == [present : BOOLEAN, stop : Inc0]
NoRuntime == [present |-> FALSE, stop |-> 0]

Messages ==
    [mode : {"stream", "flush"}, id : Streams]
        \cup [mode : {"keepalive", "fail"}, id : {NoStream}]
NoMessage == [mode |-> "fail", id |-> NoStream]

ExecPCs == {"idle", "reserve", "spawn", "evict", "stop", "next", "acquire",
            "prepare", "recheck", "send", "begin", "track", "abort",
            "awaitSweeper", "cancelAll", "snapshot", "stopAll", "down"}
Execs == [pc     : ExecPCs,
          kind   : {"none", "direct", "broadcast", "notice"},
          alias  : Alias \cup {NoAlias},
          agent  : Inc0,
          mine   : BOOLEAN,              \* this delivery prepared the participant
          anchor : Streams \cup {NoStream},
          todo   : SUBSET Alias,
          stops  : SUBSET Inc]
ExecIdle == [pc |-> "idle", kind |-> "none", alias |-> NoAlias, agent |-> 0,
             mine |-> FALSE, anchor |-> NoStream, todo |-> {}, stops |-> {}]

StartPCs == {"none", "start", "failContext", "failCrash", "attach", "commit",
             "ready", "started", "cleanup", "undo", "stop", "done"}

ReaderPCs == {"none", "read", "dropCheck", "track", "close", "markIdle",
              "finish", "errCheck", "crash", "terminal", "done"}
Readers == [pc : ReaderPCs, msg : Messages]

KeeperRuns == Inc \X {"call", "failed"}

Init ==
    /\ registry = [a \in Alias |-> 0]
    /\ part = [i \in Inc |-> NewStarting]
    /\ runtime = [a \in Alias |-> NoRuntime]
    /\ closed = {}
    /\ lastTurnID = 0
    /\ ctxDone = FALSE
    /\ invited = 0
    /\ aliasOf = [i \in Inc |-> NoAlias]
    /\ proc = [i \in Inc |-> "new"]
    /\ task = [i \in Inc |-> "none"]
    /\ pipe = [i \in Inc |-> <<>>]
    /\ ex = ExecIdle
    /\ spc = [i \in Inc |-> "none"]
    /\ rd = [i \in Inc |-> [pc |-> "none", msg |-> NoMessage]]
    /\ kpc = "wait"
    /\ kruns = {}
    /\ early = [i \in Inc |-> FALSE]

Registered(a) == registry[a] # 0
Holder(a)     == part[registry[a]]

\* Registry.Get and the mutation that follows it under the same lock.
SetHolder(a, p) == part' = [part EXCEPT ![registry[a]] = p]
SetHolderIf(ok, a, p) == IF ok THEN SetHolder(a, p) ELSE UNCHANGED part

\* Registry.Remove.  No goroutine keeps a pointer to the participant, so its
\* record goes back to the value a new one starts from.
Forget(a) ==
    /\ registry' = [registry EXCEPT ![a] = 0]
    /\ part' = [i \in Inc |-> IF i = registry[a] THEN NewStarting ELSE part[i]]

\* cancelAgentContext, and every other deletion from the agents map.
DropRuntime(a) == runtime' = [runtime EXCEPT ![a] = NoRuntime]

-----------------------------------------------------------------------------
(* Backend processes, as agent.Agent describes them and codex.Client        *)
(* behaves: one turn at a time, messages read in the order they were        *)
(* emitted, Stop final.                                                     *)

Emit(i, m) ==
    /\ Len(pipe[i]) < MaxPipe
    /\ pipe' = [pipe EXCEPT ![i] = Append(@, m)]

\* Output of a running turn: an item opens or closes, or text arrives on the
\* anchor stream itself.
AgentOutput(i) ==
    /\ proc[i] = "running"
    /\ task[i] = "turn"
    /\ \E m \in {[mode |-> "stream", id |-> "item"],
                 [mode |-> "flush",  id |-> "item"],
                 [mode |-> "stream", id |-> "turn"]} : Emit(i, m)
    /\ UNCHANGED <<tables, part, flags, ids, proc, task, ex, spc, rd, keepers, early>>

\* The turn completes: its anchor is flushed; a keepalive turn ends with the
\* KeepAlive message instead.
AgentFinish(i) ==
    /\ proc[i] = "running"
    /\ task[i] # "none"
    /\ Emit(i, IF task[i] = "keepalive"
               THEN [mode |-> "keepalive", id |-> NoStream]
               ELSE [mode |-> "flush", id |-> task[i]])
    /\ task' = [task EXCEPT ![i] = "none"]
    /\ UNCHANGED <<tables, part, flags, ids, proc, ex, spc, rd, keepers, early>>

\* A turn of the user fails: Read will return the error.
AgentFailTurn(i) ==
    /\ proc[i] = "running"
    /\ task[i] = "turn"
    /\ Emit(i, [mode |-> "fail", id |-> NoStream])
    /\ task' = [task EXCEPT ![i] = "none"]
    /\ UNCHANGED <<tables, part, flags, ids, proc, ex, spc, rd, keepers, early>>

\* The process dies by itself.
AgentExit(i) ==
    /\ proc[i] = "running"
    /\ proc' = [proc EXCEPT ![i] = "exited"]
    /\ task' = [task EXCEPT ![i] = "none"]
    /\ UNCHANGED <<tables, part, flags, ids, pipe, ex, spc, rd, keepers, early>>

AgentStep(i) ==
    AgentOutput(i) \/ AgentFinish(i) \/ AgentFailTurn(i) \/ AgentExit(i)

\* Send, SendNotice and KeepAlive: accepted only by a running process with no
\* turn in flight (otherwise ErrTurnInProgress or a write error).
Accept(i, t) ==
    /\ proc[i] = "running"
    /\ task[i] = "none"
    /\ task' = [task EXCEPT ![i] = t]

\* A process that died by itself stays "exited".
StopAgent(i) ==
    /\ proc' = [proc EXCEPT ![i] = IF @ = "exited" THEN @ ELSE "stopped"]
    /\ task' = [task EXCEPT ![i] = "none"]

-----------------------------------------------------------------------------
(* Invite *)

\* InviteCommand: build the participant and register it; a taken alias is
\* refused.
InviteAdd(a) ==
    /\ ex.pc = "idle"
    /\ ~ Registered(a)
    /\ invited < MaxInvites
    /\ invited' = invited + 1
    /\ aliasOf' = [aliasOf EXCEPT ![invited + 1] = a]
    /\ registry' = [registry EXCEPT ![a] = invited + 1]
    /\ part' = [part EXCEPT ![invited + 1] = NewStarting]
    /\ ex' = [ExecIdle EXCEPT !.pc = "reserve", !.alias = a, !.agent = invited + 1]
    /\ UNCHANGED <<runtime, flags, lastTurnID, agents, spc, rd, keepers, early>>

\* CreateAgentRuntime keeps an entry that is already there.
InviteReserve ==
    /\ ex.pc = "reserve"
    /\ runtime' = [runtime EXCEPT ![ex.alias].present = TRUE]
    /\ ex' = [ex EXCEPT !.pc = "spawn"]
    /\ UNCHANGED <<registry, part, flags, ids, agents, spc, rd, keepers, early>>

\* The factory's CreateAgentContext writes the entry again, creating it if it
\* is gone, and the start goroutine is spawned.
InviteSpawn ==
    /\ ex.pc = "spawn"
    /\ runtime' = [runtime EXCEPT ![ex.alias].present = TRUE]
    /\ spc' = [spc EXCEPT ![ex.agent] = "start"]
    /\ ex' = ExecIdle
    /\ UNCHANGED <<registry, part, flags, ids, agents, rd, keepers, early>>

-----------------------------------------------------------------------------
(* The start goroutine of incarnation i *)

StartGo(i, from, to) ==
    /\ spc[i] = from
    /\ spc' = [spc EXCEPT ![i] = to]

StartOK(i) ==
    /\ StartGo(i, "start", "attach")
    /\ proc' = [proc EXCEPT ![i] = "running"]
    /\ UNCHANGED <<tables, part, flags, ids, task, pipe, ex, rd, keepers, early>>

StartFail(i) ==
    /\ StartGo(i, "start", "failContext")
    /\ UNCHANGED <<tables, part, flags, ids, agents, ex, rd, keepers, early>>

\* handleInviteStartError: the runtime goes first, then the participant.
StartFailContext(i) ==
    /\ StartGo(i, "failContext", "failCrash")
    /\ DropRuntime(aliasOf[i])
    /\ UNCHANGED <<registry, part, flags, ids, agents, ex, rd, keepers, early>>

\* Faulty variant: the failed participant is not marked crashed.
StartFailCrashSilent(i) ==
    /\ StartGo(i, "failCrash", "done")
    /\ UNCHANGED <<tables, part, flags, ids, agents, ex, rd, keepers, early>>

StartFailCrash(i) ==
    LET a == aliasOf[i] IN
    /\ StartGo(i, "failCrash", "done")
    /\ SetHolderIf(Registered(a), a, Crash(Holder(a)))
    /\ UNCHANGED <<tables, flags, ids, agents, ex, rd, keepers, early>>

\* Faulty variant: a missing runtime is created again.
StartAttachAnyway(i) ==
    LET a  == aliasOf[i]
        ok == Registered(a) /\ CanAttach(Holder(a))
    IN
    /\ StartGo(i, "attach", IF ok THEN "commit" ELSE "undo")
    /\ SetHolderIf(ok, a, AttachAgent(Holder(a), i))
    /\ runtime' = IF ok THEN [runtime EXCEPT ![a] = [present |-> TRUE, stop |-> i]]
                  ELSE runtime
    /\ UNCHANGED <<registry, flags, ids, agents, ex, rd, keepers, early>>

\* attachParticipant.  AttachAgent binds the agent before the runtime entry is
\* looked up, and is not undone when the entry is missing.
StartAttach(i) ==
    LET a  == aliasOf[i]
        ok == Registered(a) /\ CanAttach(Holder(a))
    IN
    /\ StartGo(i, "attach", IF ok /\ runtime[a].present THEN "commit" ELSE "undo")
    /\ SetHolderIf(ok, a, AttachAgent(Holder(a), i))
    /\ IF ok /\ runtime[a].present
       THEN runtime' = [runtime EXCEPT ![a].stop = i]
       ELSE UNCHANGED runtime
    /\ UNCHANGED <<registry, flags, ids, agents, ex, rd, keepers, early>>

\* commitStarted
StartCommit(i) ==
    LET a  == aliasOf[i]
        ok == Registered(a) /\ CanCommitIdle(Holder(a))
    IN
    /\ StartGo(i, "commit", IF ok THEN "ready" ELSE "cleanup")
    /\ SetHolderIf(ok, a, CommitIdle(Holder(a)))
    /\ UNCHANGED <<tables, flags, ids, agents, ex, rd, keepers, early>>

\* SessionReady, then the reader goroutine is launched.
StartReady(i) ==
    LET a  == aliasOf[i]
        ok == Registered(a) /\ CanSessionReady(Holder(a))
    IN
    /\ StartGo(i, "ready", IF ok THEN "started" ELSE "cleanup")
    /\ SetHolderIf(ok, a, SessionReady(Holder(a)))
    /\ IF ok THEN rd' = [rd EXCEPT ![i].pc = "read"] ELSE UNCHANGED rd
    /\ UNCHANGED <<tables, flags, ids, agents, ex, keepers, early>>

\* AgentStarted is dispatched.
StartAnnounce(i) ==
    /\ StartGo(i, "started", "done")
    /\ UNCHANGED <<tables, part, flags, ids, agents, ex, rd, keepers, early>>

\* The invariant-violation branches: drop the agents entry and the
\* registration, cancel the context, stop the agent.
StartCleanup(i) ==
    /\ StartGo(i, "cleanup", "undo")
    /\ DropRuntime(aliasOf[i])
    /\ Forget(aliasOf[i])
    /\ UNCHANGED <<flags, ids, agents, ex, rd, keepers, early>>

\* Faulty variant: the agent is not stopped.
StartUndoNoStop(i) ==
    /\ StartGo(i, "undo", "done")
    /\ DropRuntime(aliasOf[i])
    /\ UNCHANGED <<registry, part, flags, ids, agents, ex, rd, keepers, early>>

StartUndo(i) ==
    /\ StartGo(i, "undo", "stop")
    /\ DropRuntime(aliasOf[i])
    /\ UNCHANGED <<registry, part, flags, ids, agents, ex, rd, keepers, early>>

StartStop(i) ==
    /\ StartGo(i, "stop", "done")
    /\ StopAgent(i)
    /\ UNCHANGED <<tables, part, flags, ids, pipe, ex, rd, keepers, early>>

StartStep(i) ==
    \/ StartOK(i) \/ StartFail(i)
    \/ StartFailContext(i) \/ StartFailCrash(i)
    \/ StartAttach(i) \/ StartCommit(i) \/ StartReady(i) \/ StartAnnounce(i)
    \/ StartCleanup(i) \/ StartUndo(i) \/ StartStop(i)

-----------------------------------------------------------------------------
(* Remove *)

\* detachParticipant: only a runtime with a stop channel, and, when the alias
\* is registered, only after startup was published.
CanDetach(a) ==
    /\ runtime[a].stop # 0
    /\ Registered(a) => Holder(a).ready /\ IsRemovable(Holder(a))

RemoveDetach(a) ==
    /\ ex.pc = "idle"
    /\ CanDetach(a)
    /\ closed' = closed \cup {runtime[a].stop}
    /\ DropRuntime(a)
    /\ Forget(a)
    /\ ex' = IF Registered(a)
             THEN [ExecIdle EXCEPT !.pc = "stop", !.agent = Holder(a).agent]
             ELSE ExecIdle
    /\ UNCHANGED <<ctxDone, ids, agents, spc, rd, keepers, early>>

\* RemoveCommand after the detach: the agent's Stop.
RemoveStop ==
    /\ ex.pc = "stop"
    /\ StopAgent(ex.agent)
    /\ ex' = ExecIdle
    /\ UNCHANGED <<tables, part, flags, ids, pipe, spc, rd, keepers, early>>

\* No stop channel: evictCrashedBeforeStart takes the lock again.
RemoveUnattached(a) ==
    /\ ex.pc = "idle"
    /\ runtime[a].stop = 0
    /\ ex' = [ExecIdle EXCEPT !.pc = "evict", !.alias = a]
    /\ UNCHANGED <<tables, part, flags, ids, agents, spc, rd, keepers, early>>

RemoveEvict ==
    /\ ex.pc = "evict"
    /\ IF Registered(ex.alias) /\ Holder(ex.alias).status = "crashed"
       THEN DropRuntime(ex.alias) /\ Forget(ex.alias)
       ELSE UNCHANGED <<tables, part>>
    /\ ex' = ExecIdle
    /\ UNCHANGED <<flags, ids, agents, spc, rd, keepers, early>>

-----------------------------------------------------------------------------
(* Deliveries: PrivateSend, SharedSend with its listeners, Broadcast and    *)
(* Handoff.  A command is a set of deliveries made one after the other; a   *)
(* direct delivery that fails ends the command, a broadcast or notice       *)
(* delivery that fails is skipped.                                          *)

BeginCommand(pc, kind, a, todo) ==
    /\ ex.pc = "idle"
    /\ lastTurnID < MaxTurns
    /\ ex' = [ExecIdle EXCEPT !.pc = pc, !.kind = kind, !.alias = a, !.todo = todo]
    /\ UNCHANGED <<tables, part, flags, ids, agents, spc, rd, keepers, early>>

SendCommand(a, listeners) ==
    /\ SendNotices \/ listeners = {}
    /\ BeginCommand("prepare", "direct", a, listeners)

\* The recipients were frozen at some earlier time ...
FrozenBroadcast(recipients) ==
    BeginCommand("next", "broadcast", NoAlias, recipients)

\* ... or are selected as routable just before the command executes.
BroadcastCommand(recipients) ==
    /\ \A a \in recipients : Registered(a) /\ IsRoutable(Holder(a))
    /\ BeginCommand("next", "broadcast", NoAlias, recipients)

\* Refused unless every participant of the barrier is idle; without a barrier,
\* every routable one.  The interpreter's barriers include the recipient.
HandoffCommand(to, barrier) ==
    /\ barrier = {} \/ to \in barrier
    /\ \A a \in Alias :
         /\ Registered(a)
         /\ IF barrier = {} THEN IsRoutable(Holder(a)) ELSE a \in barrier
         => Holder(a).status = "idle"
    /\ BeginCommand("next", "notice", NoAlias, {to})

\* What follows a delivery: a direct send that succeeded goes on to its
\* listeners.
Continue(kind) == [ExecIdle EXCEPT !.pc = "next", !.kind = kind, !.todo = ex.todo]
Skipped   == IF ex.kind = "direct" THEN ExecIdle ELSE Continue(ex.kind)
Delivered == Continue(IF ex.kind = "direct" THEN "notice" ELSE ex.kind)

\* A broadcast captures the agent handle before it prepares the participant.
NextDelivery(a) ==
    /\ ex.pc = "next"
    /\ a \in ex.todo
    /\ LET rest == [Continue(ex.kind) EXCEPT !.todo = @ \ {a}] IN
       ex' = IF ex.kind = "notice" THEN [rest EXCEPT !.pc = "acquire", !.alias = a]
             ELSE IF Registered(a)
             THEN [rest EXCEPT !.pc = "prepare", !.alias = a, !.agent = Holder(a).agent]
             ELSE rest
    /\ UNCHANGED <<tables, part, flags, ids, agents, spc, rd, keepers, early>>

CommandDone ==
    /\ ex.pc = "next"
    /\ ex.todo = {}
    /\ ex' = ExecIdle
    /\ UNCHANGED <<tables, part, flags, ids, agents, spc, rd, keepers, early>>

\* acquireParticipantForNotice: a participant with an active turn is used as
\* it is; otherwise it is prepared like a direct one.
AcquireNotice ==
    LET p == Holder(ex.alias) IN
    /\ ex.pc = "acquire"
    /\ ex' = IF ~ Registered(ex.alias) \/ ~ IsSendable(p) THEN Skipped
             ELSE IF HasActiveTurn(p)
                  THEN [ex EXCEPT !.pc = "send", !.agent = p.agent]
                  ELSE [ex EXCEPT !.pc = "prepare"]
    /\ UNCHANGED <<tables, part, flags, ids, agents, spc, rd, keepers, early>>

\* prepareParticipantForWork
Prepare ==
    LET a == ex.alias IN
    /\ ex.pc = "prepare"
    /\ IF Registered(a) /\ IsReadyForWork(Holder(a))
       THEN /\ SetHolder(a, PrepareForWork(Holder(a)))
            /\ early' = [early EXCEPT ![registry[a]] = FALSE]
            /\ ex' = [ex EXCEPT !.pc = IF ex.kind = "broadcast" THEN "send" ELSE "recheck",
                                !.mine = TRUE]
       ELSE /\ ex' = Skipped
            /\ UNCHANGED <<part, early>>
    /\ UNCHANGED <<tables, flags, ids, agents, spc, rd, keepers>>

\* The second lookup of acquireParticipantForDirectSend.
Recheck ==
    LET p == Holder(ex.alias) IN
    /\ ex.pc = "recheck"
    /\ ex' = IF Registered(ex.alias) /\ IsSendable(p)
             THEN [ex EXCEPT !.pc = "send", !.agent = p.agent]
             ELSE Skipped
    /\ UNCHANGED <<tables, part, flags, ids, agents, spc, rd, keepers, early>>

\* Agent.Send or Agent.SendNotice.  A call through the nil handle (0) panics:
\* neither action is enabled.
SendAccepted ==
    LET t == IF ex.kind = "notice" THEN "notice" ELSE "turn" IN
    /\ ex.pc = "send"
    /\ ex.agent # 0
    /\ Accept(ex.agent, t)
    /\ ex' = [ex EXCEPT !.pc = IF ex.mine THEN "begin" ELSE "track",
                        !.anchor = t]
    /\ UNCHANGED <<tables, part, flags, ids, proc, pipe, spc, rd, keepers, early>>

\* Faulty variant: a refused send does not roll the work back.
SendRefusedKept ==
    /\ ex.pc = "send"
    /\ ex.agent # 0
    /\ ex' = Skipped
    /\ UNCHANGED <<tables, part, flags, ids, agents, spc, rd, keepers, early>>

SendRefused ==
    /\ ex.pc = "send"
    /\ ex.agent # 0
    /\ ex' = [ex EXCEPT !.pc = "abort"]
    /\ UNCHANGED <<tables, part, flags, ids, agents, spc, rd, keepers, early>>

\* beginParticipantWorking
Begin ==
    LET a == ex.alias IN
    /\ ex.pc = "begin"
    /\ IF Registered(a) /\ CanBeginWorking(Holder(a))
       THEN /\ SetHolder(a, BeginWorking(Holder(a), ex.anchor, lastTurnID + 1))
            /\ lastTurnID' = lastTurnID + 1
       ELSE UNCHANGED <<part, lastTurnID>>
    /\ ex' = Delivered
    /\ UNCHANGED <<tables, flags, invited, aliasOf, agents, spc, rd, keepers, early>>

\* trackAnchorStream
Track ==
    LET a == ex.alias IN
    /\ ex.pc = "track"
    /\ SetHolderIf(Registered(a) /\ CanTrack(Holder(a)) /\ ex.anchor # NoStream,
                   a, TrackStream(Holder(a), ex.anchor))
    /\ ex' = Delivered
    /\ UNCHANGED <<tables, flags, ids, agents, spc, rd, keepers, early>>

\* abortWork, for whichever turn is active under the alias.
Abort ==
    LET a == ex.alias IN
    /\ ex.pc = "abort"
    /\ SetHolderIf(Registered(a) /\ CanAbort(Holder(a)), a, AbortWork(Holder(a)))
    /\ ex' = Skipped
    /\ UNCHANGED <<tables, flags, ids, agents, spc, rd, keepers, early>>

-----------------------------------------------------------------------------
(* Shutdown *)

ShutdownBegin ==
    /\ ex.pc = "idle"
    /\ ctxDone' = TRUE
    /\ ex' = [ExecIdle EXCEPT !.pc = "awaitSweeper"]
    /\ UNCHANGED <<tables, part, closed, ids, agents, spc, rd, keepers, early>>

\* keepaliveWG.Wait
ShutdownAwait ==
    /\ ex.pc = "awaitSweeper"
    /\ kpc = "done"
    /\ ex' = [ex EXCEPT !.pc = "cancelAll"]
    /\ UNCHANGED <<tables, part, flags, ids, agents, spc, rd, keepers, early>>

\* cancelAllAgentContexts: the agents map is replaced, no stop channel closed.
ShutdownCancelAll ==
    /\ ex.pc = "cancelAll"
    /\ runtime' = [a \in Alias |-> NoRuntime]
    /\ ex' = [ex EXCEPT !.pc = "snapshot"]
    /\ UNCHANGED <<registry, part, flags, ids, agents, spc, rd, keepers, early>>

\* Faulty variant: participants without an agent are not left out.
ShutdownSnapshotNil ==
    /\ ex.pc = "snapshot"
    /\ ex' = [ex EXCEPT !.pc = "stopAll",
                 !.stops = {Holder(a).agent : a \in {b \in Alias : Registered(b)}}]
    /\ UNCHANGED <<tables, part, flags, ids, agents, spc, rd, keepers, early>>

\* snapshotAgentsToStop
ShutdownSnapshot ==
    /\ ex.pc = "snapshot"
    /\ ex' = [ex EXCEPT !.pc = "stopAll",
                 !.stops = {Holder(a).agent : a \in {b \in Alias : Registered(b)}} \ {0}]
    /\ UNCHANGED <<tables, part, flags, ids, agents, spc, rd, keepers, early>>

ShutdownStop(i) ==
    /\ ex.pc = "stopAll"
    /\ i \in ex.stops
    /\ StopAgent(i)
    /\ ex' = [ex EXCEPT !.stops = @ \ {i}]
    /\ UNCHANGED <<tables, part, flags, ids, pipe, spc, rd, keepers, early>>

ShutdownDone ==
    /\ ex.pc = "stopAll"
    /\ ex.stops = {}
    /\ ex' = [ex EXCEPT !.pc = "down"]
    /\ UNCHANGED <<tables, part, flags, ids, agents, spc, rd, keepers, early>>

-----------------------------------------------------------------------------
(* The reader goroutine of incarnation i *)

ReaderGo(i, from, to) ==
    /\ rd[i].pc = from
    /\ rd' = [rd EXCEPT ![i] =
                [pc |-> to, msg |-> IF to = "track" THEN @.msg ELSE NoMessage]]

\* Agent.Read returns the next message ...
Dispatch == [stream |-> "dropCheck", flush |-> "close",
             keepalive |-> "finish", fail |-> "errCheck"]

ReadMessage(i) ==
    /\ rd[i].pc = "read"
    /\ pipe[i] # <<>>
    /\ pipe' = [pipe EXCEPT ![i] = Tail(@)]
    /\ rd' = [rd EXCEPT ![i] = [pc  |-> Dispatch[Head(pipe[i]).mode],
                                msg |-> Head(pipe[i])]]
    /\ UNCHANGED <<tables, part, flags, ids, proc, task, ex, spc, keepers, early>>

\* ... or an error once the process is gone.
ReadEnd(i) ==
    /\ proc[i] # "running"
    /\ ReaderGo(i, "read", "errCheck")
    /\ pipe' = [pipe EXCEPT ![i] = <<>>]
    /\ UNCHANGED <<tables, part, flags, ids, proc, task, ex, spc, keepers, early>>

\* shouldDropIdleStreamFragment
ReaderDropCheck(i) ==
    LET a == aliasOf[i] IN
    /\ ReaderGo(i, "dropCheck", IF Registered(a) /\ Holder(a).status = "idle"
                                THEN "read" ELSE "track")
    /\ UNCHANGED <<tables, part, flags, ids, agents, ex, spc, keepers, early>>

\* noteWorkingStreamMessage for a fragment.
ReaderTrack(i) ==
    LET a == aliasOf[i] IN
    /\ ReaderGo(i, "track", "read")
    /\ SetHolderIf(Registered(a) /\ CanTrack(Holder(a)),
                   a, TrackStream(Holder(a), rd[i].msg.id))
    /\ UNCHANGED <<tables, flags, ids, agents, ex, spc, keepers, early>>

\* noteWorkingStreamMessage for a flush: the first of two critical sections.
ReaderClose(i) ==
    LET a  == aliasOf[i]
        p  == Holder(a)
        id == rd[i].msg.id
        ok == Registered(a) /\ CanClose(p, id)
    IN
    /\ ReaderGo(i, "close", IF ok /\ ShouldIdle(p, id) THEN "markIdle" ELSE "read")
    /\ SetHolderIf(ok, a, CloseStream(p, id))
    /\ IF Registered(a) /\ p.status = "preparing" /\ id # "item"
       THEN early' = [early EXCEPT ![registry[a]] = TRUE]
       ELSE UNCHANGED early
    /\ UNCHANGED <<tables, flags, ids, agents, ex, spc, keepers>>

\* markIdle: the second.
ReaderMarkIdle(i) ==
    LET a == aliasOf[i] IN
    /\ ReaderGo(i, "markIdle", "read")
    /\ SetHolderIf(Registered(a) /\ CanBecomeIdle(Holder(a)), a, BecomeIdle(Holder(a)))
    /\ UNCHANGED <<tables, flags, ids, agents, ex, spc, keepers, early>>

\* finishParticipantKeepalive
FinishHolder(a) ==
    SetHolderIf(Registered(a) /\ CanFinishKeepalive(Holder(a)),
                a, FinishKeepalive(Holder(a)))

\* Faulty variant: the answer to a ping is dropped.
ReaderFinishDropped(i) ==
    /\ ReaderGo(i, "finish", "read")
    /\ UNCHANGED <<tables, part, flags, ids, agents, ex, spc, keepers, early>>

\* A KeepAlive message.
ReaderFinish(i) ==
    /\ ReaderGo(i, "finish", "read")
    /\ FinishHolder(aliasOf[i])
    /\ UNCHANGED <<tables, flags, ids, agents, ex, spc, keepers, early>>

\* handleAgentReadError: isCrashedReadError, the crash, and the terminal event
\* that checks the stop channel once more.
ReaderErrCheck(i) ==
    /\ ReaderGo(i, "errCheck", IF i \in closed THEN "terminal" ELSE "crash")
    /\ UNCHANGED <<tables, part, flags, ids, agents, ex, spc, keepers, early>>

ReaderCrash(i) ==
    LET a == aliasOf[i] IN
    /\ ReaderGo(i, "crash", "terminal")
    /\ SetHolderIf(Registered(a), a, Crash(Holder(a)))
    /\ UNCHANGED <<tables, flags, ids, agents, ex, spc, keepers, early>>

\* The event is AgentStopped when the stop channel is closed by now, and
\* AgentCrashed otherwise.
ReaderTerminal(i) ==
    /\ ReaderGo(i, "terminal", "done")
    /\ UNCHANGED <<tables, part, flags, ids, agents, ex, spc, keepers, early>>

ReaderStep(i) ==
    \/ ReadMessage(i) \/ ReadEnd(i)
    \/ ReaderDropCheck(i) \/ ReaderTrack(i)
    \/ ReaderClose(i) \/ ReaderMarkIdle(i)
    \/ ReaderFinish(i)
    \/ ReaderErrCheck(i) \/ ReaderCrash(i) \/ ReaderTerminal(i)

-----------------------------------------------------------------------------
(* Keepalive *)

\* collectKeepaliveCandidates; which idle participants have waited long enough
\* is arbitrary, but for the ones that became idle during startup.
KeepaliveEligible ==
    {a \in Alias :
        /\ Registered(a)
        /\ CanBeginKeepalive(Holder(a))
        /\ Holder(a).agent # 0
        /\ runtime[a].present
        /\ SlowStartup \/ Holder(a).ready}

Sweep ==
    /\ Keepalives
    /\ kpc = "wait"
    /\ \E due \in SUBSET KeepaliveEligible \ {{}} :
         LET claimed == {registry[a] : a \in due} IN
         /\ part' = [i \in Inc |-> IF i \in claimed THEN BeginKeepalive(part[i])
                                                    ELSE part[i]]
         /\ kruns' = kruns \cup {<<part[i].agent, "call">> : i \in claimed}
    /\ UNCHANGED <<tables, flags, ids, agents, ex, spc, rd, kpc, early>>

SweeperExit ==
    /\ kpc = "wait"
    /\ ctxDone
    /\ kpc' = "done"
    /\ UNCHANGED <<tables, part, flags, ids, agents, ex, spc, rd, kruns, early>>

\* runKeepalive
KeepaliveAccepted(i) ==
    /\ <<i, "call">> \in kruns
    /\ Accept(i, "keepalive")
    /\ kruns' = kruns \ {<<i, "call">>}
    /\ UNCHANGED <<tables, part, flags, ids, proc, pipe, ex, spc, rd, kpc, early>>

KeepaliveFailed(i) ==
    /\ <<i, "call">> \in kruns
    /\ kruns' = (kruns \ {<<i, "call">>}) \cup {<<i, "failed">>}
    /\ UNCHANGED <<tables, part, flags, ids, agents, ex, spc, rd, kpc, early>>

KeepaliveRelease(i) ==
    /\ <<i, "failed">> \in kruns
    /\ kruns' = kruns \ {<<i, "failed">>}
    /\ FinishHolder(aliasOf[i])
    /\ UNCHANGED <<tables, flags, ids, agents, ex, spc, rd, kpc, early>>

KeeperStep(i) ==
    KeepaliveAccepted(i) \/ KeepaliveFailed(i) \/ KeepaliveRelease(i)

-----------------------------------------------------------------------------
(* The specification *)

\* Input from the user, through the single goroutine that calls Execute.
\* CancelCommand interrupts the backend and changes no session state.
UserCommand ==
    \/ "invite" \in Commands /\ \E a \in Alias : InviteAdd(a)
    \/ "remove" \in Commands /\ \E a \in Alias : RemoveDetach(a) \/ RemoveUnattached(a)
    \/ /\ "send" \in Commands
       /\ \E a \in Alias : \E aliases \in SUBSET (Alias \ {a}) : SendCommand(a, aliases)
    \/ /\ "handoff" \in Commands
       /\ \E a \in Alias, aliases \in SUBSET Alias : HandoffCommand(a, aliases)
    \/ "broadcast" \in Commands /\ \E aliases \in SUBSET Alias : BroadcastCommand(aliases)
    \/ "frozenBroadcast" \in Commands /\ \E aliases \in SUBSET Alias : FrozenBroadcast(aliases)
    \/ "shutdown" \in Commands /\ ShutdownBegin

\* The rest of the command that is executing.
ExecStep ==
    \/ InviteReserve \/ InviteSpawn
    \/ RemoveStop \/ RemoveEvict
    \/ \E a \in Alias : NextDelivery(a)
    \/ CommandDone
    \/ AcquireNotice \/ Prepare \/ Recheck
    \/ SendAccepted \/ SendRefused
    \/ Begin \/ Track \/ Abort
    \/ ShutdownAwait \/ ShutdownCancelAll \/ ShutdownSnapshot
    \/ \E i \in Inc : ShutdownStop(i)
    \/ ShutdownDone

Next ==
    \/ UserCommand
    \/ ExecStep
    \/ \E i \in Inc : AgentStep(i) \/ StartStep(i) \/ ReaderStep(i) \/ KeeperStep(i)
    \/ Sweep
    \/ SweeperExit

Spec == Init /\ [][Next]_vars

\* Goroutines that can run do run, Start returns, and a turn the backend
\* accepted ends, however much output comes first.  Nothing obliges the user
\* to type, a sweep to fall due, or an agent to fail.
Fairness ==
    /\ WF_vars(ExecStep)
    /\ WF_vars(SweeperExit)
    /\ \A i \in Inc :
         /\ WF_vars(StartStep(i))
         /\ WF_vars(ReaderStep(i))
         /\ WF_vars(KeeperStep(i))
         /\ SF_vars(AgentFinish(i))

FairSpec == Spec /\ Fairness

-----------------------------------------------------------------------------
(* Properties *)

\* The state has the shape the declarations give it.
TypeOK ==
    /\ registry \in [Alias -> Inc0]
    /\ part \in [Inc -> Participants(Inc0, Nat)]
    /\ runtime \in [Alias -> Runtimes]
    /\ closed \subseteq Inc
    /\ lastTurnID \in Nat
    /\ ctxDone \in BOOLEAN
    /\ invited \in Inc0
    /\ aliasOf \in [Inc -> Alias \cup {NoAlias}]
    /\ proc \in [Inc -> {"new", "running", "exited", "stopped"}]
    /\ task \in [Inc -> {"none", "turn", "notice", "keepalive"}]
    /\ pipe \in [Inc -> Seq(Messages)]
    /\ ex \in Execs
    /\ spc \in [Inc -> StartPCs]
    /\ rd \in [Inc -> Readers]
    /\ kpc \in {"wait", "done"}
    /\ kruns \subseteq KeeperRuns
    /\ early \in [Inc -> BOOLEAN]

\* A turn in progress still has an end in sight: its anchor's flush is being
\* produced, on its way or being handled, or the reader is about to crash the
\* participant.  (session.go: readLoop, noteWorkingStreamMessage, markIdle.)
EndInSight(i) ==
    \/ proc[i] # "running"
    \/ task[i] = part[i].anchor
    \/ \E k \in DOMAIN pipe[i] : \/ pipe[i][k].mode = "fail"
                                 \/ /\ pipe[i][k].mode = "flush"
                                    /\ pipe[i][k].id = part[i].anchor
    \/ rd[i].pc \in {"errCheck", "crash"}
    \/ \E j \in Inc : aliasOf[j] = aliasOf[i] /\ rd[j].pc = "markIdle"
    \/ rd[i].pc = "close" /\ rd[i].msg.id = part[i].anchor

\* Working is never a dead end, unless the turn was over before the
\* participant was marked working.
TurnAccounted ==
    \A a \in Alias :
        /\ Registered(a)
        /\ Holder(a).status = "working"
        /\ ~ early[registry[a]]
        => EndInSight(registry[a])

\* A participant is Preparing only while the command that prepared it is still
\* to begin or abort the work: no path leaves it behind, where every later send
\* would be refused.  (prepareParticipantForWork and its callers.)
PreparingOwned ==
    \A a \in Alias :
        Registered(a) /\ Holder(a).status = "preparing" =>
            /\ ex.alias = a
            /\ ex.mine
            /\ ex.pc \in {"recheck", "send", "begin", "abort"}

\* Outside a turn no stream is open and no anchor is set, whatever arrives late:
\* the next turn starts from nothing.  (TrackStream, resetOpenStreams.)
InactiveIsClean ==
    \A i \in Inc :
        ~ HasActiveTurn(part[i]) => part[i].open = {} /\ part[i].anchor = NoStream

\* A delivery goes through the handle of the participant it prepared or found
\* active, not of an earlier one under the alias, and never through nil.  True of
\* an alias invited up to twice: a start goroutine that outlives the registration
\* of its participant takes its alias for the third one's.
\* (command_send.go, command_handoff.go.)
HandleMatches ==
    ex.pc = "send" => ex.agent # 0 /\ registry[ex.alias] = ex.agent

\* Keepalive is never a dead end either: the ping is still to be sent, running,
\* answered or released, or the reader is about to crash the participant.
\* (sweepKeepalive, runKeepalive, finishParticipantKeepalive.)
KeepaliveHeld ==
    \A a \in Alias :
        LET i == registry[a] IN
        Registered(a) /\ Holder(a).status = "keepalive" =>
            \/ \E step \in {"call", "failed"} : <<i, step>> \in kruns
            \/ task[i] = "keepalive"
            \/ \E k \in DOMAIN pipe[i] : pipe[i][k].mode \in {"keepalive", "fail"}
            \/ rd[i].pc \in {"finish", "errCheck", "crash"}
            \/ proc[i] # "running"

\* An idle participant's backend has no turn in flight, so a send to it is not
\* refused as overlapping.
IdleMeansFree ==
    \A a \in Alias :
        Registered(a) /\ Holder(a).status = "idle" => task[registry[a]] = "none"

\* A participant that finished starting can be removed until shutdown: the
\* agents map holds the stop channel of that very participant.
\* (detachParticipant, attachParticipant.)
ReadyIsRemovable ==
    \A a \in Alias :
        Registered(a) /\ Holder(a).ready /\ ex.pc \notin {"snapshot", "stopAll", "down"}
            => runtime[a].stop = registry[a]

\* Every running backend process has somebody left who will stop it: its start
\* goroutine, the command that removed it, or the registry it is bound in.
NoProcessLeak ==
    \A i \in Inc :
        proc[i] = "running" =>
            \/ spc[i] \in {"attach", "commit", "ready", "cleanup", "undo", "stop"}
            \/ /\ registry[aliasOf[i]] = i
               /\ part[i].agent = i
               /\ ex.pc = "stopAll" => i \in ex.stops
               /\ ex.pc # "down"
            \/ ex.pc = "stop" /\ ex.agent = i

\* The phase a client observes under an alias.
PhaseOf(a) ==
    IF ~ Registered(a) THEN "absent"
    ELSE IF Holder(a).status \in {"idle", "keepalive"} /\ ~ Holder(a).ready
    THEN "opening"
    ELSE Holder(a).status

\* The session is an implementation of Lifecycle: participants move through
\* their phases as it says and turns are numbered one after the other.  True of
\* an alias invited up to twice, as HandleMatches is.
Life == INSTANCE Lifecycle WITH
            life     <- [a \in Alias |-> PhaseOf(a)],
            turn     <- [a \in Alias |-> IF Registered(a) THEN Holder(a).turn ELSE 0],
            lastTurn <- lastTurnID
FollowsLifecycle == Life!LifeSpec

-----------------------------------------------------------------------------
(* Claims of the repository that the code does not keep *)

\* participant.go: BeginWorking tracks the anchor before the adapter can emit
\* any message, closing the race between Send and the first message, so that
\* a turn in progress has its end in sight.
NoLostCompletion ==
    \A a \in Alias :
        Registered(a) /\ Holder(a).status = "working" => EndInSight(registry[a])

\* command_send.go: a notice is layered onto an active turn, which goes on; a
\* notice that is refused does not take the turn away.
LayeredNoticeKeepsTurn ==
    [][ex.pc = "abort" /\ ~ ex.mine /\ ex'.pc # "abort" => part' = part]_vars

\* command_lifecycle.go: removal detaches the reader; session.go: the closed
\* channel tells it that the agent was stopped, not crashed.
DetachedReaderQuiet ==
    [][\A i \in closed : rd'[i] # rd[i] => part' = part]_vars

\* session.go: evictCrashedBeforeStart removes a participant that crashed before
\* its reader was started, not one whose startup completes concurrently.
EvictsOnlyUnstarted ==
    [][\A a \in Alias : ex.pc = "evict" /\ ex'.pc # "evict" /\ runtime'[a] # runtime[a]
            => runtime[a].stop = 0]_vars

\* pkg-participant.md: runtime send guards check that an agent is bound.
SendsThroughHandle == ex.pc = "send" => ex.agent # 0

-----------------------------------------------------------------------------
(* Liveness, under FairSpec *)

\* A turn that did not end too early leaves Working.
TurnEnds ==
    \A i \in Inc :
        (part[i].status = "working" /\ ~ early[i]) ~> (part[i].status # "working")

KeepaliveEnds ==
    \A i \in Inc : (part[i].status = "keepalive") ~> (part[i].status # "keepalive")

\* Startup settles, one way or the other, unless the session shuts down.
Unsettled(a) == Registered(a) /\ Holder(a).status \in {"starting", "attached"}
StartupSettles ==
    \A a \in Alias : Unsettled(a) ~> (~ Unsettled(a) \/ ctxDone)

\* Removing a participant ends its process and its reader.
RemovalEnds ==
    \A i \in Inc : (i \in closed) ~> (proc[i] # "running" /\ rd[i].pc \in {"none", "done"})

\* Shutdown returns, and then no process is left running, the ones that were
\* still starting included.
ShutdownEnds ==
    ctxDone ~> [](ex.pc = "down" /\ \A i \in Inc : proc[i] # "running")
=============================================================================
