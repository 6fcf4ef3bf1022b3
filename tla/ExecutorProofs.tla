---------------------------- MODULE ExecutorProofs ----------------------------
(***************************************************************************)
(* Proofs about the executor for every set of goroutines, every scenario   *)
(* and every bound: type correctness, and the four safety properties, from *)
(* the inductive invariant IInv.                                           *)
(***************************************************************************)
EXTENDS Executor, SequenceTheorems, TLAPS

(***************************************************************************)
(* The inductive invariant                                                 *)
(***************************************************************************)

\* There are never more events than the scenario holds.
Typed ==
    /\ TypeOK
    /\ scene \in [calls : [Users -> Seq(Calls)], events : 0..MaxEvents,
                  signal : BOOLEAN, leaves : BOOLEAN]
    /\ scene.events + inbox + room.events =< MaxEvents

\* Who holds enqueueMu is about to push, and nobody is once closing has begun,
\* but for the one that pushes the shutdown.
GateOK ==
    /\ \A p \in Procs : pc[p] \in {"push", "stop"} <=> mutex = p
    /\ once = "no" <=> ~closed
    /\ \A p \in Procs : /\ pc[p] = "push" => once = "no"
                        /\ pc[p] = "stop" => once = "running"
    /\ once = "running" => \E p \in Procs : pc[p] = "stop"

\* The goroutines that only notify, or run a shell, enqueue nothing else.
CallsOK ==
    /\ \A p \in Procs : pc[p] \in {"enqueue", "push"} =>
           \/ p \in Users /\ call[p].do \in Submissions \cup Asks /\ call[p].by = p
           \/ p \in Notifiers \cup Shells /\ call[p].do \in {"drain", "shellDone"}
    /\ \A u \in Users : pc[u] \in {"once", "stop", "await"} => call[u].do = "close"
    /\ \A p \in Procs : pc[p] = "wait" => p \in Users /\ call[p].do \in Asks /\ call[p].by = p

\* The shutdown is the last operation of all.
ShutdownLast ==
    /\ \A k \in DOMAIN ops.buf :
           ops.buf[k].do = "shutdown" => once = "over" /\ k = Len(ops.buf)
    /\ op.do = "shutdown" =>
           /\ once = "over" /\ ops.buf = <<>>
           /\ pc[Exec] \in {"apply", "shells", "flush", "drained", "end"}
    /\ ops.closed => op.do = "shutdown"

\* Where the executor is, and what it has done by then.
Ending == {"shells", "flush", "drained", "end"}
ExecOK ==
    /\ pc[Exec] \in {"pull", "apply", "after", "complete", "once", "stop", "quitting"} \cup Ending
    /\ pc[Exec] \in Ending => op.do = "shutdown"
    /\ pc[Exec] \in {"once", "stop", "quitting"} => op.do = "quit"
    /\ pc[Exec] = "complete" => op.do = "drain"
    /\ done => pc[Exec] = "end" /\ stopped

\* The shells have ended before the dispatcher is flushed.
ShellsOK ==
    /\ \A s \in Shells : pc[s] \in {"none", "running", "enqueue", "push", "ended"}
    /\ pc[Exec] \in {"flush", "drained", "end"} =>
           \A s \in Shells : pc[s] \in {"none", "ended"}

\* The dispatcher reaches the barrier when it has delivered all the rest.
BarrierLast ==
    /\ \A k \in DOMAIN dispatch.buf :
           dispatch.buf[k].kind = "barrier" => pc[Exec] = "flush" /\ k = Len(dispatch.buf)
    /\ reached => dispatch.buf = <<>> /\ pc[Exec] \in {"flush", "drained", "end"}
    /\ pc[Exec] \in {"drained", "end"} => reached
    /\ stopped => dispatch.closed
    /\ dispatch.closed => pc[Exec] \in {"drained", "end"}

\* A request that is waited for is in the queue, with the executor, or answered.
Handled(o) == op = o /\ pc[Exec] = "apply"
Awaited(o) == /\ o.by \in Users /\ pc[o.by] = "wait"
              /\ call[o.by] = o /\ ~result[o.by].ok
AsksOK ==
    /\ \A u \in Users : pc[u] = "wait" =>
           \/ result[u].ok
           \/ \E k \in DOMAIN ops.buf : ops.buf[k] = call[u]
           \/ Handled(call[u])
    /\ \A k \in DOMAIN ops.buf : ops.buf[k].do \in Asks =>
           /\ Awaited(ops.buf[k])
           /\ ~Handled(ops.buf[k])
           /\ \A j \in DOMAIN ops.buf : ops.buf[j] = ops.buf[k] => j = k
    /\ op.do \in Asks /\ pc[Exec] = "apply" => Awaited(op)

\* A request starts with an empty answer.
FreshOK == \A u \in Users : pc[u] \in {"enqueue", "push"} => ~result[u].ok

\* The submissions not yet applied are in the queue, in their order; f says where.
Base == room.lines + (IF pc[Exec] = "apply" /\ op.do \in Submissions THEN 1 ELSE 0)
Queued(f) ==
    /\ f \in [Base + 1 .. Len(accepted) -> DOMAIN ops.buf]
    /\ \A m \in DOMAIN f : ops.buf[f[m]] = accepted[m]
    /\ \A m, n \in DOMAIN f : m < n => f[m] < f[n]
    /\ \A k \in DOMAIN ops.buf : ops.buf[k].do \in Submissions => \E m \in DOMAIN f : f[m] = k
\* A request is behind the submissions accepted before it.
Behind(f) ==
    \A k \in DOMAIN ops.buf : ops.buf[k].do \in Asks =>
        \A m \in DOMAIN f : m <= seen[ops.buf[k].by].lines => f[m] < k
OrderOK ==
    /\ \A m \in DOMAIN accepted : accepted[m].do \in Submissions
    /\ Base <= Len(accepted)
    /\ pc[Exec] = "apply" /\ op.do \in Submissions => op = accepted[Base]
    /\ \E f : Queued(f) /\ Behind(f)

\* The outcomes published and not yet delivered are in the dispatcher's queue,
\* in their order; g says where.
Published(g) ==
    /\ g \in [Len(answered) + 1 .. room.lines -> DOMAIN dispatch.buf]
    /\ \A m \in DOMAIN g : dispatch.buf[g[m]] = Outcome(accepted[m])
    /\ \A m, n \in DOMAIN g : m < n => g[m] < g[n]
    /\ \A k \in DOMAIN dispatch.buf :
           dispatch.buf[k].kind = "outcome" => \E m \in DOMAIN g : g[m] = k
FlushOK ==
    /\ Len(answered) <= room.lines
    /\ \A m \in DOMAIN answered : answered[m] = accepted[m]
    /\ \E g : Published(g)

\* What anybody was shown is not ahead of the room, nor what a reader expects
\* ahead of what it will be given.
NotAhead(v, w) == v.events <= w.events /\ v.lines <= w.lines
ShownOK ==
    /\ cached = room
    /\ NotAhead(told, room)
    /\ \A k \in DOMAIN dispatch.buf :
           dispatch.buf[k].kind = "state" => NotAhead(dispatch.buf[k].shown, room)
SeenOf(u) ==
    /\ pc[u] \in {"enqueue", "push"} => NotAhead(seen[u], room)
    /\ pc[u] = "wait" =>
           /\ seen[u].events <= room.events + inbox
           /\ seen[u].lines <= Len(accepted)
           /\ result[u].ok => NotAhead(seen[u], result[u].shown) /\ NotAhead(result[u].shown, room)
           /\ Handled(call[u]) => seen[u].lines <= room.lines
SeenOK == \A u \in Users : SeenOf(u)

IInv ==
    /\ Typed /\ GateOK /\ CallsOK /\ ShutdownLast /\ ExecOK /\ ShellsOK /\ BarrierLast
    /\ AsksOK /\ FreshOK /\ OrderOK /\ FlushOK /\ ShownOK /\ SeenOK
    /\ ReadsAreCurrent /\ AcceptedIsResolved

\* What the assumption says of the constants.
LEMMA Constants ==
    /\ Observing \in Users /\ Keepalive \in Notifiers
    /\ Users \cap (Notifiers \cup Shells) = {} /\ Notifiers \cap Shells = {}
    /\ {Main, Watcher, Exec, Disp} \cap (Users \cup Notifiers \cup Shells) = {}
    /\ Nobody \notin Procs
    /\ MaxEvents \in Nat
    /\ Scenarios \subseteq [calls : [Users -> Seq(Calls)], events : 0..MaxEvents,
                            signal : BOOLEAN, leaves : BOOLEAN]
BY ExecutorAssumption DEF ExecutorAssumption

\* What the operations of module Queue do to the buffer.
LEMMA PushedIs ==
    ASSUME NEW S, NEW q \in QueueOf(S), NEW v \in S, NEW r \in Pushed(q, v)
    PROVE  /\ r \in QueueOf(S) /\ r.closed = q.closed
           /\ ~q.closed => r.buf = Append(q.buf, v)
BY DEF Pushed, QueueOf

LEMMA PulledIs ==
    ASSUME NEW S, NEW q \in QueueOf(S), HasValue(q)
    PROVE  /\ Pulled(q) \in QueueOf(S) /\ Pulled(q).closed = q.closed
           /\ Pulled(q).buf = Tail(q.buf)
           /\ Value(q) \in S /\ Value(q) = q.buf[1]
           /\ Len(Tail(q.buf)) = Len(q.buf) - 1
           /\ \A k \in 1 .. Len(q.buf) - 1 : Tail(q.buf)[k] = q.buf[k + 1]
<1>1. q.buf \in Seq(S) /\ q.buf # <<>>
  BY DEF QueueOf, HasValue
<1>2. Head(q.buf) = q.buf[1] /\ Head(q.buf) \in S /\ Tail(q.buf) \in Seq(S)
  BY <1>1
<1>. QED  BY <1>1, <1>2 DEF Pulled, QueueOf, Value

LEMMA ClosedIs ==
    ASSUME NEW S, NEW q \in QueueOf(S)
    PROVE  CloseQueue(q) \in QueueOf(S) /\ CloseQueue(q).closed /\ CloseQueue(q).buf = q.buf
BY DEF CloseQueue, QueueOf

LEMMA PublishedIs ==
    ASSUME NEW S, NEW q \in QueueOf(S), NEW s \in Seq(S)
    PROVE  /\ Publish(q, s) \in QueueOf(S)
           /\ Publish(q, s).buf = q.buf \o s /\ Publish(q, s).closed = q.closed
<1>1. q.buf \o s \in Seq(S)
  BY ConcatProperties DEF QueueOf
<1>. QED  BY <1>1 DEF Publish, QueueOf

\* What type correctness says of each variable.
LEMMA Types ==
    ASSUME Typed
    PROVE  /\ pc \in [Procs -> Pcs] /\ call \in [Procs -> Operations]
           /\ todo \in [Users -> Seq(Calls)]
           /\ ops \in QueueOf(Operations) /\ op \in Operations
           /\ room \in Versions /\ cached \in Versions /\ told \in Versions
           /\ inbox \in Nat /\ room.events \in Nat /\ room.lines \in Nat
           /\ dispatch \in QueueOf(Events) /\ front \in QueueOf(Events)
           /\ result \in [Procs -> Replies] /\ seen \in [Procs -> Versions]
           /\ answer \in [Procs -> [taken : BOOLEAN, reply : Replies]]
           /\ accepted \in Seq(Operations) /\ answered \in Seq(Operations)
<1>1. /\ pc \in [Procs -> Pcs] /\ call \in [Procs -> Operations]
      /\ todo \in [Users -> Seq(Calls)]
      /\ ops \in QueueOf(Operations) /\ op \in Operations
      /\ room \in Versions /\ cached \in Versions /\ told \in Versions
      /\ inbox \in 0..MaxEvents
      /\ dispatch \in QueueOf(Events) /\ front \in QueueOf(Events)
      /\ result \in [Procs -> Replies] /\ seen \in [Procs -> Versions]
      /\ answer \in [Procs -> [taken : BOOLEAN, reply : Replies]]
      /\ accepted \in Seq(Operations) /\ answered \in Seq(Operations)
  BY DEF Typed, TypeOK
<1>2. \A v \in Versions : v.events \in Nat /\ v.lines \in Nat
  BY Constants DEF Versions
<1>. QED  BY <1>1, <1>2, Constants

\* The goroutines are distinct.
LEMMA Goroutines ==
    /\ Exec \in Procs /\ Disp \in Procs /\ Main \in Procs /\ Watcher \in Procs
    /\ Users \subseteq Procs /\ Notifiers \subseteq Procs /\ Shells \subseteq Procs
    /\ Exec \notin Users \cup Notifiers \cup Shells
    /\ Disp \notin Users \cup Notifiers \cup Shells
    /\ Exec # Disp /\ Exec # Main /\ Exec # Watcher
BY Constants DEF Procs, Exec, Disp, Main, Watcher

\* Operations, values and events have their types.
LEMMA RequestsTyped ==
    /\ Drain \in Operations /\ Shutdown \in Operations /\ NoOp \in Operations
    /\ \A s \in Procs : ShellDone(s) \in Operations
    /\ \A do \in Calls, p \in Procs, n \in Nat : Operation(do, p, n) \in Operations
BY DEF Drain, Shutdown, NoOp, ShellDone, Operation, Operations

LEMMA ValuesTyped ==
    /\ Nothing \in Versions /\ NoResult \in Replies
    /\ \A r \in Versions : Reply(r) \in Replies
    /\ \A taken \in BOOLEAN, r \in Replies :
           Return(taken, r) \in [taken : BOOLEAN, reply : Replies]
    /\ \A events \in 0..MaxEvents, lines \in Nat : Shown(events, lines) \in Versions
BY Constants DEF Nothing, NoResult, Shown, Reply, Return, Versions, Replies

LEMMA EventsTyped ==
    /\ \A r \in Versions : StateChanged(r) \in Events
    /\ \A o \in Operations : Outcome(o) \in Events
    /\ ExitRequested \in Events /\ Barrier \in Events
BY RequestsTyped, ValuesTyped
   DEF StateChanged, Outcome, ExitRequested, Barrier, Event, Events

\* The counts stay within their bounds.
LEMMA CountsTyped ==
    ASSUME Typed
    PROVE  /\ [room EXCEPT !.events = @ + inbox] \in Versions
           /\ [room EXCEPT !.lines = @ + 1] \in Versions
           /\ room.events + inbox \in 0..MaxEvents
           /\ room = [events |-> room.events, lines |-> room.lines]
<1>1. /\ scene.events \in Nat /\ scene.events + inbox + room.events =< MaxEvents
      /\ inbox \in Nat /\ room.events \in Nat /\ room.lines \in Nat
  BY Types, Constants DEF Typed
<1>2. room.events + inbox \in 0..MaxEvents /\ room.lines + 1 \in Nat
  BY <1>1, Constants
<1>3. room \in [events : 0..MaxEvents, lines : Nat]
  BY Types DEF Versions
<1>. QED  BY <1>2, <1>3 DEF Versions

LEMMA Programs ==
    ASSUME Typed
    PROVE  /\ pc \in [Procs -> Pcs]
           /\ call \in [Procs -> Operations]
BY DEF Typed, TypeOK

(***************************************************************************)
(* What the steps do to the queues                                         *)
(***************************************************************************)

\* The two queues are sequences.
LEMMA Buffers ==
    ASSUME Typed
    PROVE  /\ ops.buf \in Seq(Operations) /\ Len(ops.buf) \in Nat
           /\ DOMAIN ops.buf = 1 .. Len(ops.buf)
           /\ dispatch.buf \in Seq(Events) /\ Len(dispatch.buf) \in Nat
           /\ DOMAIN dispatch.buf = 1 .. Len(dispatch.buf)
BY Types DEF QueueOf

LEMMA AppendedIs ==
    ASSUME NEW S, NEW s \in Seq(S), NEW v \in S
    PROVE  /\ Len(Append(s, v)) = Len(s) + 1
           /\ DOMAIN Append(s, v) = 1 .. Len(s) + 1
           /\ \A k \in 1 .. Len(s) : Append(s, v)[k] = s[k]
           /\ Append(s, v)[Len(s) + 1] = v
BY AppendProperties

\* The queue grows at its end, by one operation.
Grown(o) ==
    /\ Len(ops'.buf) = Len(ops.buf) + 1
    /\ DOMAIN ops'.buf = 1 .. Len(ops.buf) + 1
    /\ \A k \in 1 .. Len(ops.buf) : ops'.buf[k] = ops.buf[k]
    /\ ops'.buf[Len(ops.buf) + 1] = o
    /\ ops'.closed = ops.closed

\* What a push, and a pull, do to the queue of operations.
LEMMA PushGrows ==
    ASSUME Typed, GateOK, ShutdownLast, NEW p \in Procs, Push(p)
    PROVE  Grown(call[p])
<1>1. pc[p] = "push" /\ ops' \in Pushed(ops, call[p])
  BY DEF Push
<1>2. ~ops.closed
  BY <1>1 DEF GateOK, ShutdownLast
<1>3. ops'.buf = Append(ops.buf, call[p]) /\ ops'.closed = ops.closed
  BY <1>1, <1>2, PushedIs, Types
<1>. QED  BY <1>3, AppendedIs, Buffers, Types DEF Grown

LEMMA ShutdownGrows ==
    ASSUME Typed, GateOK, ShutdownLast, NEW p \in Procs, PushShutdown(p)
    PROVE  Grown(Shutdown)
<1>1. pc[p] = "stop" /\ ops' \in Pushed(ops, Shutdown)
  BY DEF PushShutdown
<1>2. ~ops.closed
  BY <1>1 DEF GateOK, ShutdownLast
<1>3. ops'.buf = Append(ops.buf, Shutdown) /\ ops'.closed = ops.closed
  BY <1>1, <1>2, PushedIs, Types, RequestsTyped
<1>. QED  BY <1>3, AppendedIs, Buffers, RequestsTyped DEF Grown

LEMMA PullShrinks ==
    ASSUME Typed, PullOperation
    PROVE  /\ Len(ops.buf) >= 1 /\ op' = ops.buf[1]
           /\ Len(ops'.buf) = Len(ops.buf) - 1
           /\ DOMAIN ops'.buf = 1 .. Len(ops.buf) - 1
           /\ \A k \in 1 .. Len(ops.buf) - 1 : ops'.buf[k] = ops.buf[k + 1]
           /\ ops'.closed = ops.closed
<1>1. HasValue(ops) /\ op' = Value(ops) /\ ops' = Pulled(ops)
  BY DEF PullOperation
<1>2. /\ op' = ops.buf[1] /\ ops'.buf = Tail(ops.buf) /\ ops'.closed = ops.closed
      /\ ops' \in QueueOf(Operations)
      /\ Len(ops'.buf) = Len(ops.buf) - 1
      /\ \A k \in 1 .. Len(ops.buf) - 1 : ops'.buf[k] = ops.buf[k + 1]
  <2>1. ops \in QueueOf(Operations)
    BY Types
  <2>2. /\ Pulled(ops) \in QueueOf(Operations) /\ Pulled(ops).closed = ops.closed
        /\ Pulled(ops).buf = Tail(ops.buf) /\ Value(ops) = ops.buf[1]
        /\ Len(Tail(ops.buf)) = Len(ops.buf) - 1
        /\ \A k \in 1 .. Len(ops.buf) - 1 : Tail(ops.buf)[k] = ops.buf[k + 1]
    BY <1>1, <2>1, PulledIs, Zenon
  <2>. QED  BY <1>1, <2>2
<1>3. ops.buf # <<>> /\ ops.buf \in Seq(Operations) /\ ops'.buf \in Seq(Operations)
  BY <1>1, <1>2, Buffers DEF HasValue, QueueOf
<1>4. Len(ops.buf) >= 1 /\ DOMAIN ops'.buf = 1 .. Len(ops'.buf)
  BY <1>3
<1>. QED  BY <1>2, <1>4

\* What the executor publishes goes to the end of the dispatcher's queue.
Announced(s) ==
    /\ Len(dispatch'.buf) = Len(dispatch.buf) + Len(s)
    /\ DOMAIN dispatch'.buf = 1 .. Len(dispatch.buf) + Len(s)
    /\ \A k \in 1 .. Len(dispatch.buf) : dispatch'.buf[k] = dispatch.buf[k]
    /\ \A k \in 1 .. Len(s) : dispatch'.buf[Len(dispatch.buf) + k] = s[k]
    /\ dispatch'.closed = dispatch.closed

LEMMA PublishAnnounces ==
    ASSUME Typed, NEW s \in Seq(Events), dispatch' = Publish(dispatch, s)
    PROVE  Announced(s)
<1>1. dispatch'.buf = dispatch.buf \o s /\ dispatch'.closed = dispatch.closed
  BY PublishedIs, Types
<1>2. dispatch.buf \in Seq(Events)
  BY Buffers
<1>3. /\ Len(dispatch.buf \o s) = Len(dispatch.buf) + Len(s)
      /\ DOMAIN (dispatch.buf \o s) = 1 .. Len(dispatch.buf) + Len(s)
      /\ \A k \in 1 .. Len(dispatch.buf) : (dispatch.buf \o s)[k] = dispatch.buf[k]
      /\ \A k \in 1 .. Len(s) : (dispatch.buf \o s)[Len(dispatch.buf) + k] = s[k]
  BY <1>2
<1>. QED  BY <1>1, <1>3 DEF Announced

\* An event in the dispatcher's queue was there, or is one of those published.
LEMMA AnnouncedIs ==
    ASSUME Typed, NEW s \in Seq(Events), Announced(s), NEW k \in DOMAIN dispatch'.buf
    PROVE  \/ k \in DOMAIN dispatch.buf /\ dispatch'.buf[k] = dispatch.buf[k]
           \/ \E j \in 1 .. Len(s) : k = Len(dispatch.buf) + j /\ dispatch'.buf[k] = s[j]
<1>1. Len(s) \in Nat /\ Len(dispatch.buf) \in Nat /\ DOMAIN dispatch.buf = 1 .. Len(dispatch.buf)
  BY Buffers
<1>2. CASE k \in 1 .. Len(dispatch.buf)
  BY <1>1, <1>2 DEF Announced
<1>3. CASE k \notin 1 .. Len(dispatch.buf)
  <2>1. k - Len(dispatch.buf) \in 1 .. Len(s) /\ k = Len(dispatch.buf) + (k - Len(dispatch.buf))
    BY <1>1, <1>3 DEF Announced
  <2>. QED  BY <2>1 DEF Announced
<1>. QED  BY <1>2, <1>3

\* What a delivery does to the dispatcher's queue.
LEMMA DispatchShrinks ==
    ASSUME Typed, Dispatch
    PROVE  /\ Len(dispatch.buf) >= 1 /\ Value(dispatch) = dispatch.buf[1]
           /\ Len(dispatch'.buf) = Len(dispatch.buf) - 1
           /\ DOMAIN dispatch'.buf = 1 .. Len(dispatch.buf) - 1
           /\ \A k \in 1 .. Len(dispatch.buf) - 1 : dispatch'.buf[k] = dispatch.buf[k + 1]
           /\ dispatch'.closed = dispatch.closed
<1>1. HasValue(dispatch) /\ dispatch' = Pulled(dispatch)
  BY DEF Dispatch
<1>2. /\ Value(dispatch) = dispatch.buf[1]
      /\ dispatch'.buf = Tail(dispatch.buf) /\ dispatch'.closed = dispatch.closed
      /\ dispatch' \in QueueOf(Events)
      /\ Len(dispatch'.buf) = Len(dispatch.buf) - 1
      /\ \A k \in 1 .. Len(dispatch.buf) - 1 : dispatch'.buf[k] = dispatch.buf[k + 1]
  <2>1. dispatch \in QueueOf(Events)
    BY Types
  <2>2. /\ Pulled(dispatch) \in QueueOf(Events) /\ Pulled(dispatch).closed = dispatch.closed
        /\ Pulled(dispatch).buf = Tail(dispatch.buf) /\ Value(dispatch) = dispatch.buf[1]
        /\ Len(Tail(dispatch.buf)) = Len(dispatch.buf) - 1
        /\ \A k \in 1 .. Len(dispatch.buf) - 1 : Tail(dispatch.buf)[k] = dispatch.buf[k + 1]
    BY <1>1, <2>1, PulledIs, Zenon
  <2>. QED  BY <1>1, <2>2
<1>3. dispatch.buf # <<>> /\ dispatch.buf \in Seq(Events) /\ dispatch'.buf \in Seq(Events)
  BY <1>1, <1>2, Buffers DEF HasValue, QueueOf
<1>4. Len(dispatch.buf) >= 1 /\ DOMAIN dispatch'.buf = 1 .. Len(dispatch'.buf)
  BY <1>3
<1>. QED  BY <1>2, <1>4

\* Nobody begins or ends a wait, and no answer arrives.
Waiters ==
    \A u \in Users :
        /\ pc'[u] = "wait" <=> pc[u] = "wait"
        /\ pc[u] = "wait" => call'[u] = call[u] /\ result'[u] = result[u]

\* A step that touches no wait and no queue leaves the requests as they are.
LEMMA AsksFrame ==
    ASSUME Typed, CallsOK, AsksOK, Waiters, ops'.buf = ops.buf, op' = op,
           op.do \in Asks => (pc'[Exec] = "apply" <=> pc[Exec] = "apply")
    PROVE  AsksOK'
<1>1. ASSUME NEW u \in Users, pc'[u] = "wait"
      PROVE  \/ result'[u].ok
             \/ \E k \in DOMAIN ops'.buf : ops'.buf[k] = call'[u]
             \/ op' = call'[u] /\ pc'[Exec] = "apply"
  <2>1. pc[u] = "wait" /\ call'[u] = call[u] /\ result'[u] = result[u]
    BY <1>1 DEF Waiters
  <2>2. call[u].do \in Asks
    BY <2>1, Goroutines DEF CallsOK
  <2>. QED  BY <2>1, <2>2 DEF AsksOK, Handled
<1>2. \A o : o.do \in Asks /\ Awaited(o) =>
          o.by \in Users /\ pc'[o.by] = "wait" /\ call'[o.by] = o /\ ~result'[o.by].ok
  BY DEF Waiters, Awaited
<1>3. \A o : o.do \in Asks /\ op' = o /\ pc'[Exec] = "apply" => Handled(o)
  BY DEF Handled
<1>. QED  BY <1>1, <1>2, <1>3 DEF AsksOK, Handled, Awaited

(***************************************************************************)
(* Steps that leave the order of the submissions alone                     *)
(***************************************************************************)

LEMMA OrderFrame ==
    ASSUME Typed, AsksOK, OrderOK, ops'.buf = ops.buf, op' = op, accepted' = accepted,
           room'.lines = room.lines,
           op.do \in Submissions => (pc'[Exec] = "apply" <=> pc[Exec] = "apply"),
           \A u \in Users : pc[u] = "wait" => seen'[u] = seen[u]
    PROVE  OrderOK'
<1>1. Base' = Base
  BY DEF Base
<1>2. PICK f : Queued(f) /\ Behind(f)
  BY DEF OrderOK
<1>3. \A k \in DOMAIN ops.buf : ops.buf[k].do \in Asks => seen'[ops.buf[k].by] = seen[ops.buf[k].by]
  BY DEF AsksOK, Awaited
<1>4. Queued(f)' /\ Behind(f)'
  BY <1>1, <1>2, <1>3 DEF Queued, Behind
<1>. QED  BY <1>1, <1>4 DEF OrderOK

LEMMA FlushFrame ==
    ASSUME Typed, OrderOK, FlushOK, dispatch'.buf = dispatch.buf, answered' = answered,
           room'.lines = room.lines,
           \A m \in 1 .. Len(accepted) : accepted'[m] = accepted[m]
    PROVE  FlushOK'
<1>1. room.lines \in Nat /\ Len(answered) \in Nat /\ Len(accepted) \in Nat
  BY Types
<1>2. room.lines <= Len(accepted)
  BY <1>1 DEF OrderOK, Base
<1>3. DOMAIN answered = 1 .. Len(answered)
  BY Types
<1>4. \A m \in 1 .. room.lines : accepted'[m] = accepted[m]
  BY <1>1, <1>2
<1>5. PICK g : Published(g)
  BY DEF FlushOK
<1>6. \A m \in Len(answered) + 1 .. room.lines : m \in 1 .. room.lines
  BY <1>1
<1>7. Published(g)'
  BY <1>4, <1>5, <1>6 DEF Published
<1>. QED  BY <1>1, <1>3, <1>4, <1>7 DEF FlushOK

\* Events that are no outcome change nothing about the outcomes.
LEMMA FlushAnnounced ==
    ASSUME Typed, FlushOK, NEW s \in Seq(Events), Announced(s),
           \A k \in 1 .. Len(s) : s[k].kind # "outcome",
           answered' = answered, accepted' = accepted, room'.lines = room.lines
    PROVE  FlushOK'
<1>1. PICK g : Published(g)
  BY DEF FlushOK
<1>2. Len(s) \in Nat /\ Len(dispatch.buf) \in Nat /\ DOMAIN dispatch.buf = 1 .. Len(dispatch.buf)
  BY Buffers
<1>3. \A k \in DOMAIN dispatch.buf :
          k \in DOMAIN dispatch'.buf /\ dispatch'.buf[k] = dispatch.buf[k]
  BY <1>2 DEF Announced
<1>4. \A k \in DOMAIN dispatch'.buf : k \notin DOMAIN dispatch.buf =>
          k - Len(dispatch.buf) \in 1 .. Len(s) /\ dispatch'.buf[k] = s[k - Len(dispatch.buf)]
  <2>1. \A k \in DOMAIN dispatch'.buf : k \notin DOMAIN dispatch.buf =>
            k - Len(dispatch.buf) \in 1 .. Len(s) /\ k = Len(dispatch.buf) + (k - Len(dispatch.buf))
    BY <1>2 DEF Announced
  <2>. QED  BY <2>1 DEF Announced
<1>5. Published(g)'
  BY <1>1, <1>3, <1>4 DEF Published
<1>. QED  BY <1>5 DEF FlushOK

LEMMA ShownFrame ==
    ASSUME Typed, ShownOK, dispatch'.buf = dispatch.buf, told' = told,
           cached' = room', room' = room
    PROVE  ShownOK'
BY DEF ShownOK, NotAhead

LEMMA AheadTransitive ==
    ASSUME NEW u \in Versions, NEW v \in Versions, NEW w \in Versions,
           NotAhead(u, v), NotAhead(v, w)
    PROVE  NotAhead(u, w)
BY Constants DEF NotAhead, Versions

LEMMA ShownAnnounced ==
    ASSUME Typed, Typed', ShownOK, NEW s \in Seq(Events), Announced(s),
           \A k \in 1 .. Len(s) : s[k].kind = "state" => s[k].shown = room',
           told' = told, cached' = room', NotAhead(room, room')
    PROVE  ShownOK'
<1>1. /\ Len(s) \in Nat /\ Len(dispatch.buf) \in Nat
      /\ DOMAIN dispatch.buf = 1 .. Len(dispatch.buf)
      /\ dispatch.buf \in Seq(Events)
  BY Buffers
<1>2. room \in Versions /\ room' \in Versions /\ told \in Versions
  BY DEF Typed, TypeOK
<1>3. NotAhead(told', room')
  BY <1>2, AheadTransitive DEF ShownOK
<1>4. NotAhead(room', room')
  BY <1>2, Constants DEF NotAhead, Versions
<1>5. ASSUME NEW k \in DOMAIN dispatch'.buf, dispatch'.buf[k].kind = "state"
      PROVE  NotAhead(dispatch'.buf[k].shown, room')
  <2>1. CASE k \in 1 .. Len(dispatch.buf)
    <3>1. dispatch'.buf[k] = dispatch.buf[k]
      BY <2>1 DEF Announced
    <3>2. dispatch.buf[k] \in Events
      BY <1>1, <2>1
    <3>4. dispatch.buf[k].shown \in Versions
      BY <3>2 DEF Events
    <3>3. NotAhead(dispatch.buf[k].shown, room)
      BY <1>1, <1>5, <2>1, <3>1 DEF ShownOK
    <3>. QED  BY <1>2, <3>1, <3>3, <3>4, AheadTransitive
  <2>2. CASE k \notin 1 .. Len(dispatch.buf)
    <3>1. k - Len(dispatch.buf) \in 1 .. Len(s) /\ k = Len(dispatch.buf) + (k - Len(dispatch.buf))
      BY <1>1, <2>2 DEF Announced
    <3>2. dispatch'.buf[k] = s[k - Len(dispatch.buf)]
      BY <3>1 DEF Announced
    <3>. QED  BY <1>4, <1>5, <3>1, <3>2
  <2>. QED  BY <2>1, <2>2
<1>. QED  BY <1>3, <1>5 DEF ShownOK, NotAhead

\* A step that neither starts nor ends a wait of u, and takes nothing away.
LEMMA SeenFrame ==
    ASSUME Typed, Typed', CallsOK, NEW u \in Users, SeenOf(u),
           pc'[u] = "wait" => /\ pc[u] = "wait" /\ call'[u] = call[u]
                              /\ result'[u] = result[u] /\ seen'[u] = seen[u],
           pc'[u] \in {"enqueue", "push"} =>
               pc[u] \in {"enqueue", "push"} /\ seen'[u] = seen[u],
           NotAhead(room, room'), room.events + inbox <= room'.events + inbox',
           Len(accepted) <= Len(accepted'),
           op' = op, op.do \in Asks => (pc'[Exec] = "apply" => pc[Exec] = "apply")
    PROVE  SeenOf(u)'
<1>1. /\ room \in Versions /\ room' \in Versions /\ seen[u] \in Versions
      /\ result[u] \in Replies /\ result[u].shown \in Versions
  BY Types, Goroutines DEF Typed, TypeOK, Replies
<1>2. pc'[u] \in {"enqueue", "push"} => NotAhead(seen'[u], room')
  BY <1>1, AheadTransitive DEF SeenOf
<1>3. ASSUME pc'[u] = "wait"
      PROVE  /\ seen'[u].events <= room'.events + inbox'
             /\ seen'[u].lines <= Len(accepted')
             /\ result'[u].ok =>
                 NotAhead(seen'[u], result'[u].shown) /\ NotAhead(result'[u].shown, room')
             /\ Handled(call[u])' => seen'[u].lines <= room'.lines
  <2>1. pc[u] = "wait" /\ call'[u] = call[u] /\ result'[u] = result[u] /\ seen'[u] = seen[u]
    BY <1>3
  <2>2. call[u].do \in Asks
    BY <2>1, Goroutines DEF CallsOK
  <2>3. /\ seen[u].events \in Nat /\ seen[u].lines \in Nat
        /\ room.events \in Nat /\ room.lines \in Nat /\ inbox \in Nat
        /\ room'.events \in Nat /\ room'.lines \in Nat
        /\ Len(accepted) \in Nat
    <3>1. \A v \in Versions : v.events \in Nat /\ v.lines \in Nat
      BY Constants DEF Versions
    <3>2. inbox \in Nat /\ accepted \in Seq(Operations)
      BY Types
    <3>. QED  BY <1>1, <3>1, <3>2
  <2>6. inbox' \in Nat /\ Len(accepted') \in Nat
    <3>1. inbox' \in 0..MaxEvents /\ accepted' \in Seq(Operations)
      BY DEF Typed, TypeOK
    <3>. QED  BY <3>1, Constants
  <2>4. result[u].ok => NotAhead(result'[u].shown, room')
    BY <1>1, <2>1, AheadTransitive DEF SeenOf
  <2>5. Handled(call[u])' => Handled(call[u])
    BY <2>1, <2>2 DEF Handled
  <2>7. /\ seen[u].events <= room.events + inbox /\ seen[u].lines <= Len(accepted)
        /\ result[u].ok => NotAhead(seen[u], result[u].shown)
        /\ Handled(call[u]) => seen[u].lines <= room.lines
    BY <2>1 DEF SeenOf
  <2>8. seen'[u].events <= room'.events + inbox' /\ seen'[u].lines <= Len(accepted')
    <3>1. seen[u].events <= room'.events + inbox'
      <4>1. /\ seen[u].events \in Nat /\ room.events + inbox \in Nat
            /\ room'.events + inbox' \in Nat
        BY <2>3, <2>6
      <4>2. seen[u].events <= room.events + inbox
        BY <2>7
      <4>. QED  BY <4>1, <4>2
    <3>2. seen[u].lines <= Len(accepted')
      BY <2>3, <2>6, <2>7
    <3>. QED  BY <2>1, <3>1, <3>2
  <2>9. Handled(call[u])' => seen'[u].lines <= room'.lines
    BY <2>1, <2>3, <2>5, <2>7 DEF NotAhead
  <2>. QED  BY <2>1, <2>4, <2>7, <2>8, <2>9
<1>. QED  BY <1>2, <1>3 DEF SeenOf

\* The room only grows, and each event is in the inbox before it is in the room.
LEMMA RoomGrows ==
    ASSUME Typed, room' = room \/ room' = [room EXCEPT !.lines = @ + 1]
                  \/ room' = [room EXCEPT !.events = @ + inbox]
    PROVE  NotAhead(room, room')
<1>1. room.lines \in Nat /\ room.events \in Nat /\ inbox \in Nat
  BY Types
<1>. QED  BY <1>1, CountsTyped DEF NotAhead

\* Every step keeps the types, and creates no event.
LEMMA TypesKept ==
    ASSUME Typed, [Next]_vars
    PROVE  Typed'
<1>. USE DEF gate, lifetime, mail, model, dispatcher, replies, history, Others, Goto, Pcs
<1>1. ASSUME NEW p \in Procs, Enqueue(p)
      PROVE  Typed'
  <2>1. (IF call[p].do = "snapshot" THEN Reply(cached) ELSE NoResult) \in Replies
    BY Types, ValuesTyped
  <2>2. Return(FALSE, IF call[p].do = "snapshot" THEN Reply(cached) ELSE NoResult)
            \in [taken : BOOLEAN, reply : Replies]
    BY <2>1, ValuesTyped
  <2>3. answer' \in [Procs -> [taken : BOOLEAN, reply : Replies]]
    BY <1>1, Types, <2>2 DEF Enqueue, Refused
  <2>4. mutex' \in Procs \cup {Nobody}
    BY <1>1, Types DEF Enqueue, Refused, Typed, TypeOK
  <2>5. pc' \in [Procs -> Pcs]
    BY <1>1, Types DEF Enqueue, Refused, Returns
  <2>. QED  BY <1>1, <2>1, <2>2, <2>3, <2>4, <2>5, Types, Goroutines, Constants
            DEF Typed, TypeOK, Enqueue, Refused
<1>2. ASSUME NEW p \in Procs, Push(p)
      PROVE  Typed'
  <2>1. Return(TRUE, NoResult) \in [taken : BOOLEAN, reply : Replies]
    BY ValuesTyped
  <2>2. answer' \in [Procs -> [taken : BOOLEAN, reply : Replies]]
    BY <1>2, Types, <2>1 DEF Push
  <2>3. pc' \in [Procs -> Pcs]
    BY <1>2, Types DEF Push, Returns
  <2>4. ops' \in QueueOf(Operations)
    BY <1>2, Types, PushedIs DEF Push
  <2>5. room.events + inbox \in 0..MaxEvents /\ Len(accepted) \in Nat
    BY Types, CountsTyped
  <2>6. seen' \in [Procs -> Versions]
    BY <1>2, Types, <2>5, ValuesTyped DEF Push
  <2>7. accepted' \in Seq(Operations)
    BY <1>2, Types DEF Push
  <2>8. mutex' = Nobody
    BY <1>2, Types DEF Push
  <2>9. UNCHANGED <<call, todo, scene, closed, once, op, lifetime, mail, model,
                   dispatcher, result, answered, told>>
    BY <1>2, Types DEF Push
  <2>. QED  BY <2>1, <2>2, <2>3, <2>4, <2>5, <2>6, <2>7, <2>8, <2>9, Constants DEF Typed, TypeOK
<1>3. ASSUME NEW p \in Procs, BeginClose(p)
      PROVE  Typed'
  BY <1>3, Types, Constants, Goroutines DEF Typed, TypeOK, BeginClose
<1>4. ASSUME NEW p \in Procs, AlreadyClosing(p)
      PROVE  Typed'
  BY <1>4, Types, Constants, Goroutines DEF Typed, TypeOK, AlreadyClosing, Requested
<1>5. ASSUME NEW p \in Procs, PushShutdown(p)
      PROVE  Typed'
  <2>1. pc' \in [Procs -> Pcs]
    BY <1>5, Types DEF PushShutdown, Requested
  <2>2. ops' \in QueueOf(Operations)
    BY <1>5, Types, PushedIs, RequestsTyped DEF PushShutdown
  <2>. QED  BY <1>5, <2>1, <2>2, Types, Goroutines, Constants DEF Typed, TypeOK, PushShutdown
<1>6. ASSUME NEW p \in Procs, Closed(p)
      PROVE  Typed'
  BY <1>6, Types, Constants, Goroutines DEF Typed, TypeOK, Closed
<1>7. ASSUME NEW u \in Users, Answered(u)
      PROVE  Typed'
  <2>1. answer' \in [Procs -> [taken : BOOLEAN, reply : Replies]]
    BY <1>7, Types, ValuesTyped, Goroutines DEF Answered
  <2>2. pc' \in [Procs -> Pcs]
    BY <1>7, Types DEF Answered
  <2>3. UNCHANGED <<call, todo, scene, gate, ops, op, lifetime, mail, model,
                   dispatcher, result, seen, history>>
    BY <1>7, Types DEF Answered
  <2>. QED  BY <2>1, <2>2, <2>3, Constants DEF Typed, TypeOK
<1>8. ASSUME NEW u \in Users, Abandoned(u)
      PROVE  Typed'
  <2>1. answer' \in [Procs -> [taken : BOOLEAN, reply : Replies]]
    BY <1>8, Types, ValuesTyped, Goroutines DEF Abandoned
  <2>2. pc' \in [Procs -> Pcs]
    BY <1>8, Types DEF Abandoned
  <2>3. UNCHANGED <<call, todo, scene, gate, ops, op, lifetime, mail, model,
                   dispatcher, result, seen, history>>
    BY <1>8, Types DEF Abandoned
  <2>. QED  BY <2>1, <2>2, <2>3, Constants DEF Typed, TypeOK
<1>9. ASSUME NEW s \in Shells, NEW killed \in BOOLEAN, ShellEnds(s, killed)
      PROVE  Typed'
  <2>1. call' \in [Procs -> Operations]
    BY <1>9, Types, RequestsTyped, Goroutines DEF ShellEnds
  <2>. QED  BY <1>9, <2>1, Types, Goroutines, Constants DEF Typed, TypeOK, ShellEnds
<1>10. ASSUME Watch
       PROVE  Typed'
  <2>1. pc' \in [Procs -> Pcs]
    BY <1>10, Types DEF Watch
  <2>. QED  BY <1>10, <2>1, Types, Goroutines, Constants DEF Typed, TypeOK, Watch
<1>11. ASSUME ProgramQuits
       PROVE  Typed'
  <2>1. front' \in QueueOf(Events)
    BY <1>11, Types, PulledIs, ClosedIs DEF ProgramQuits, Leave
  <2>. QED  BY <1>11, <2>1, Types, Goroutines, Constants DEF Typed, TypeOK, ProgramQuits, Leave
<1>12. ASSUME Dispatch
       PROVE  Typed'
  <2>1. dispatch' \in QueueOf(Events) /\ Value(dispatch) \in Events
    BY <1>12, Types, PulledIs DEF Dispatch
  <2>2. front' \in QueueOf(Events)
    BY <1>12, Types, PulledIs, PushedIs, <2>1 DEF Dispatch
  <2>3. told' \in Versions
    BY <1>12, Types, <2>1 DEF Dispatch, Events
  <2>4. answered' \in Seq(Operations)
    BY <1>12, Types, <2>1 DEF Dispatch, Events
  <2>5. reached' \in BOOLEAN
    BY <1>12, Types DEF Dispatch, Typed, TypeOK
  <2>6. pc' \in [Procs -> Pcs]
    BY <1>12, Types DEF Dispatch
  <2>. QED  BY <1>12, <2>1, <2>2, <2>3, <2>4, <2>5, <2>6, Types, Goroutines, Constants
            DEF Typed, TypeOK, Dispatch
<1>13. ASSUME Delivered
       PROVE  Typed'
  BY <1>13, Types, Constants, Goroutines DEF Typed, TypeOK, Delivered
<1>14. ASSUME DispatcherStops
       PROVE  Typed'
  BY <1>14, Types, Constants, Goroutines DEF Typed, TypeOK, DispatcherStops
<1>15. ASSUME PullOperation
       PROVE  Typed'
  <2>1. ops' \in QueueOf(Operations) /\ op' \in Operations
    BY <1>15, Types, PulledIs DEF PullOperation
  <2>. QED  BY <1>15, <2>1, Types, Goroutines, Constants DEF Typed, TypeOK, PullOperation
<1>16. ASSUME Settle
       PROVE  Typed'
  <2>1. room' = [room EXCEPT !.events = room.events + inbox] /\ cached' = room' /\ inbox' = 0
    BY <1>16, Types DEF Settle, ApplyBurst
  <2>2. room' \in Versions /\ room'.events = room.events + inbox
    BY <1>16, Types, CountsTyped, <2>1
  <2>3. <<StateChanged(room')>> \in Seq(Events)
    BY <2>2, EventsTyped
  <2>4. dispatch' \in QueueOf(Events)
    BY <1>16, Types, <2>3, PublishedIs DEF Settle, ApplyBurst
  <2>. QED  BY <1>16, <2>1, <2>2, <2>3, <2>4, Types, Goroutines, Constants
            DEF Typed, TypeOK, Settle, ApplyBurst
<1>17. ASSUME Settled
       PROVE  Typed'
  BY <1>17, Types, Constants, Goroutines DEF Typed, TypeOK, Settled
<1>18. ASSUME DrainEvents
       PROVE  Typed'
  BY <1>18, Types, Constants, Goroutines DEF Typed, TypeOK, DrainEvents, At
<1>19. ASSUME CompleteDrain
       PROVE  Typed'
  <2>1. pc' \in [Procs -> Pcs]
    BY <1>19, Types DEF CompleteDrain
  <2>2. drainPending' \in BOOLEAN
    BY <1>19, Types DEF CompleteDrain, Typed, TypeOK
  <2>. QED  BY <1>19, <2>1, <2>2, Types, Goroutines, Constants DEF Typed, TypeOK, CompleteDrain
<1>20. ASSUME ApplySubmission
       PROVE  Typed'
  <2>1. room' \in Versions /\ cached' = room' /\ room'.events = room.events
    BY <1>20, Types, CountsTyped DEF ApplySubmission, Versions
  <2>2. <<StateChanged(room'), Outcome(op)>> \in Seq(Events)
    BY <2>1, Types, EventsTyped
  <2>3. dispatch' \in QueueOf(Events)
    BY <1>20, Types, <2>2, PublishedIs DEF ApplySubmission
  <2>4. \A s \in Shells : [pc EXCEPT ![Exec] = "after", ![s] = "running"] \in [Procs -> Pcs]
    BY Types, Goroutines
  <2>5. \A l \in Pcs : [pc EXCEPT ![Exec] = l] \in [Procs -> Pcs]
    BY Types, Goroutines
  <2>6. pc' \in [Procs -> Pcs]
    BY <1>20, Types, <2>4, <2>5 DEF ApplySubmission, At
  <2>. QED  BY <1>20, <2>1, <2>2, <2>3, <2>4, <2>5, <2>6, Types, Goroutines, Constants
            DEF Typed, TypeOK, ApplySubmission, At
<1>21. ASSUME ApplyRequest
       PROVE  Typed'
  <2>1. <<StateChanged(room)>> \in Seq(Events)
    BY Types, EventsTyped
  <2>2. dispatch' \in QueueOf(Events)
    BY <1>21, Types, <2>1, PublishedIs DEF ApplyRequest
  <2>3. result' \in [Procs -> Replies]
    BY <1>21, Types, ValuesTyped DEF ApplyRequest
  <2>. QED  BY <1>21, <2>1, <2>2, <2>3, Types, Goroutines, Constants
            DEF Typed, TypeOK, ApplyRequest, At
<1>22. ASSUME ApplyShellResult
       PROVE  Typed'
  <2>1. <<StateChanged(room)>> \in Seq(Events)
    BY Types, EventsTyped
  <2>2. dispatch' \in QueueOf(Events)
    BY <1>22, Types, <2>1, PublishedIs DEF ApplyShellResult
  <2>. QED  BY <1>22, <2>1, <2>2, Types, Goroutines, Constants
            DEF Typed, TypeOK, ApplyShellResult, At
<1>23. ASSUME QuitSession
       PROVE  Typed'
  <2>1. room' = [room EXCEPT !.events = room.events + inbox] /\ cached' = room' /\ inbox' = 0
    BY <1>23, Types DEF QuitSession, DownSession
  <2>2. room' \in Versions /\ room'.events = room.events + inbox
    BY <1>23, Types, CountsTyped, <2>1
  <2>3. <<StateChanged(room'), ExitRequested>> \in Seq(Events)
    BY <2>2, EventsTyped
  <2>4. dispatch' \in QueueOf(Events)
    BY <1>23, Types, <2>3, PublishedIs DEF QuitSession, DownSession
  <2>. QED  BY <1>23, <2>1, <2>2, <2>3, <2>4, Types, Goroutines, Constants
            DEF Typed, TypeOK, QuitSession, DownSession
<1>24. ASSUME ShutdownSession
       PROVE  Typed'
  BY <1>24, Types, Constants, Goroutines DEF Typed, TypeOK, ShutdownSession, DownSession, At
<1>25. ASSUME AwaitShells
       PROVE  Typed'
  <2>1. <<Barrier>> \in Seq(Events)
    BY EventsTyped
  <2>2. dispatch' \in QueueOf(Events)
    BY <1>25, Types, <2>1, PublishedIs DEF AwaitShells
  <2>3. ops' \in QueueOf(Operations)
    BY <1>25, Types, ClosedIs DEF AwaitShells
  <2>. QED  BY <1>25, <2>1, <2>2, <2>3, Types, Goroutines, Constants DEF Typed, TypeOK, AwaitShells
<1>26. ASSUME CloseDispatcher
       PROVE  Typed'
  <2>1. dispatch' \in QueueOf(Events)
    BY <1>26, Types, ClosedIs DEF CloseDispatcher
  <2>. QED  BY <1>26, <2>1, Types, Goroutines, Constants DEF Typed, TypeOK, CloseDispatcher
<1>27. ASSUME Finish
       PROVE  Typed'
  BY <1>27, Types, Constants, Goroutines DEF Typed, TypeOK, Finish
<1>28. ASSUME NEW u \in Users, Call(u)
       PROVE  Typed'
  <2>1. todo[u] \in Seq(Calls) /\ todo[u] # <<>> /\ Len(todo[u]) \in Nat
    BY <1>28, Types DEF Call
  <2>2. Head(todo[u]) \in Calls /\ Tail(todo[u]) \in Seq(Calls)
    BY <2>1
  <2>3. call' \in [Procs -> Operations]
    BY <1>28, Types, <2>1, <2>2, RequestsTyped, Goroutines DEF Call
  <2>4. result' \in [Procs -> Replies] /\ seen' \in [Procs -> Versions]
    BY <1>28, Types, ValuesTyped DEF Call
  <2>5. todo' \in [Users -> Seq(Calls)]
    BY <1>28, Types, <2>2 DEF Call
  <2>6. pc' \in [Procs -> Pcs]
    BY <1>28, Types DEF Call
  <2>. QED  BY <1>28, <2>1, <2>2, <2>3, <2>4, <2>5, <2>6, Types, Goroutines DEF Typed, TypeOK, Call
<1>29. ASSUME NEW n \in Notifiers, Record(n)
       PROVE  Typed'
  <2>1. (IF drainPending THEN call ELSE [call EXCEPT ![n] = Drain]) \in [Procs -> Operations]
    BY Types, RequestsTyped, Goroutines
  <2>2. scene' = [scene EXCEPT !.events = scene.events - 1] /\ scene.events > 0
       /\ inbox' = inbox + 1
    BY <1>29, Types DEF Record
  <2>3. /\ scene' \in [calls : [Users -> Seq(Calls)], events : 0..MaxEvents,
                       signal : BOOLEAN, leaves : BOOLEAN]
        /\ scene'.events = scene.events - 1
    BY <2>2, Constants DEF Typed
  <2>4. pc' \in [Procs -> Pcs]
    BY <1>29, Types DEF Record
  <2>5. scene.events \in 0..MaxEvents /\ inbox \in 0..MaxEvents /\ room' = room
    BY <1>29, Types DEF Record, Typed, TypeOK
  <2>6. room.events \in Nat /\ scene.events + inbox + room.events =< MaxEvents
    BY Types DEF Typed
  <2>7. inbox' \in 0..MaxEvents /\ scene'.events + inbox' + room'.events =< MaxEvents
    BY <2>2, <2>3, <2>5, <2>6, Constants
  <2>8. call' \in [Procs -> Operations]
    BY <1>29, Types, <2>1 DEF Record
  <2>9. drainPending' = TRUE
    BY <1>29, Types DEF Record
  <2>10. UNCHANGED <<todo, gate, ops, op, lifetime, model, dispatcher, replies, history>>
    BY <1>29, Types DEF Record
  <2>. QED  BY <2>1, <2>2, <2>3, <2>4, <2>5, <2>6, <2>7, <2>8, <2>9, <2>10, Types, Goroutines
            DEF Typed, TypeOK
<1>30. ASSUME Signal
       PROVE  Typed'
  BY <1>30, Types, Constants, Goroutines DEF Typed, TypeOK, Signal
<1>31. ASSUME ProgramEnds
       PROVE  Typed'
  <2>1. front' \in QueueOf(Events)
    BY <1>31, Types, PulledIs, ClosedIs DEF ProgramEnds, Leave
  <2>. QED  BY <1>31, <2>1, Types, Goroutines, Constants DEF Typed, TypeOK, ProgramEnds, Leave
<1>32. ASSUME UNCHANGED vars
       PROVE  Typed'
  BY <1>32, Types, Constants, Goroutines DEF Typed, TypeOK, vars
<1>. QED  BY <1>1, <1>2, <1>3, <1>4, <1>5, <1>6, <1>7, <1>8, <1>9, <1>10, <1>11, <1>12, <1>13,
             <1>14, <1>15, <1>16, <1>17, <1>18, <1>19, <1>20, <1>21, <1>22, <1>23, <1>24, <1>25,
             <1>26, <1>27, <1>28, <1>29, <1>30, <1>31, <1>32 DEF Next, Step, RequestClose, Executing

\* enqueueMu has one holder, and closing is begun once.
LEMMA GateKept ==
    ASSUME Typed, GateOK, [Next]_vars
    PROVE  GateOK'
<1>. USE DEF Ending, gate, lifetime, mail, model, dispatcher, replies, history, Others, Goto
<1>1. ASSUME NEW p \in Procs, Enqueue(p)
      PROVE  GateOK'
  <2>1. CASE closed
    BY <1>1, <2>1, Programs, Goroutines DEF GateOK, Enqueue, Refused, Returns
  <2>2. CASE ~closed
    BY <1>1, <2>2, Programs, Goroutines, Constants DEF GateOK, Enqueue
  <2>. QED  BY <2>1, <2>2
<1>2. ASSUME NEW p \in Procs, Push(p)
      PROVE  GateOK'
  <2>1. \E l \in {"wait", "idle", "ended"} : pc' = [pc EXCEPT ![p] = l]
    BY <1>2 DEF Push, Returns
  <2>2. pc[p] = "push" /\ mutex' = Nobody /\ once' = once /\ closed' = closed
    BY <1>2 DEF Push
  <2>. QED  BY <2>1, <2>2, Programs, Goroutines, Constants DEF GateOK
<1>3. ASSUME NEW p \in Procs, BeginClose(p) \/ AlreadyClosing(p) \/ PushShutdown(p) \/ Closed(p)
      PROVE  GateOK'
  BY <1>3, Programs, Goroutines, Constants
  DEF GateOK, BeginClose, AlreadyClosing, Requested, PushShutdown, Closed
<1>4. ASSUME NEW u \in Users, Answered(u)
      PROVE  GateOK'
  BY <1>4, Programs, Goroutines, Constants DEF GateOK, Answered
<1>5. ASSUME NEW u \in Users, Abandoned(u)
      PROVE  GateOK'
  BY <1>5, Programs, Goroutines, Constants DEF GateOK, Abandoned
<1>6. ASSUME NEW s \in Shells, NEW killed \in BOOLEAN, ShellEnds(s, killed)
      PROVE  GateOK'
  BY <1>6, Programs, Goroutines, Constants DEF GateOK, ShellEnds
<1>7. ASSUME Watch \/ ProgramQuits \/ Dispatch \/ Delivered \/ DispatcherStops \/ PullOperation
             \/ Settle \/ Settled
      PROVE  GateOK'
  BY <1>7, Programs, Goroutines, Constants
  DEF GateOK, Watch, ProgramQuits, Leave, Dispatch, Delivered, DispatcherStops, PullOperation,
      Settle, ApplyBurst, Settled
<1>8. ASSUME DrainEvents \/ CompleteDrain \/ ApplySubmission \/ ApplyRequest \/ ApplyShellResult
             \/ QuitSession \/ ShutdownSession \/ AwaitShells
      PROVE  GateOK'
  BY <1>8, Programs, Goroutines, Constants
  DEF GateOK, DrainEvents, At, CompleteDrain, ApplySubmission, ApplyRequest, ApplyShellResult,
      QuitSession, DownSession, ShutdownSession, AwaitShells
<1>9. ASSUME CloseDispatcher \/ Finish \/ Signal \/ ProgramEnds \/ UNCHANGED vars
      PROVE  GateOK'
  BY <1>9, Programs, Goroutines, Constants
  DEF GateOK, CloseDispatcher, Finish, Signal, ProgramEnds, Leave, vars
<1>10. ASSUME NEW u \in Users, Call(u)
       PROVE  GateOK'
  BY <1>10, Programs, Goroutines, Constants DEF GateOK, Call
<1>11. ASSUME NEW n \in Notifiers, Record(n)
       PROVE  GateOK'
  BY <1>11, Programs, Goroutines, Constants DEF GateOK, Record
<1>. QED  BY <1>1, <1>2, <1>3, <1>4, <1>5, <1>6, <1>7, <1>8, <1>9, <1>10, <1>11
          DEF Next, Step, RequestClose, Executing

\* Each goroutine enqueues only what is its own to enqueue.
LEMMA CallsKept ==
    ASSUME Typed, GateOK, CallsOK, [Next]_vars
    PROVE  CallsOK'
<1>. USE DEF Ending, gate, lifetime, mail, model, dispatcher, replies, history, Others, Goto
<1>1. ASSUME NEW p \in Procs, Enqueue(p)
      PROVE  CallsOK'
  <2>1. CASE closed
    BY <1>1, <2>1, Programs, Goroutines DEF CallsOK, Enqueue, Refused, Returns
  <2>2. CASE ~closed
    BY <1>1, <2>2, Programs, Goroutines DEF CallsOK, Enqueue
  <2>. QED  BY <2>1, <2>2
<1>2. ASSUME NEW p \in Procs, Push(p)
      PROVE  CallsOK'
  <2>1. pc[p] = "push" /\ call' = call
    BY <1>2 DEF Push
  <2>2. CASE call[p].do \in Asks
    <3>1. pc' = [pc EXCEPT ![p] = "wait"]
      BY <1>2, <2>2 DEF Push
    <3>. QED  BY <2>1, <2>2, <3>1, Programs, Goroutines DEF CallsOK, Asks
  <2>3. CASE call[p].do \notin Asks
    <3>1. pc' = [pc EXCEPT ![p] = "idle"] \/ pc' = [pc EXCEPT ![p] = "ended"]
      BY <1>2, <2>3 DEF Push, Returns
    <3>. QED  BY <2>1, <3>1, Programs, Goroutines DEF CallsOK
  <2>. QED  BY <2>2, <2>3
<1>3. ASSUME NEW p \in Procs, BeginClose(p) \/ AlreadyClosing(p) \/ PushShutdown(p) \/ Closed(p)
      PROVE  CallsOK'
  BY <1>3, Programs, Goroutines, Constants
  DEF CallsOK, BeginClose, AlreadyClosing, Requested, PushShutdown, Closed
<1>4. ASSUME NEW u \in Users, Answered(u)
      PROVE  CallsOK'
  BY <1>4, Programs, Goroutines, Constants DEF CallsOK, Answered
<1>5. ASSUME NEW u \in Users, Abandoned(u)
      PROVE  CallsOK'
  BY <1>5, Programs, Goroutines, Constants DEF CallsOK, Abandoned
<1>6. ASSUME NEW s \in Shells, NEW killed \in BOOLEAN, ShellEnds(s, killed)
      PROVE  CallsOK'
  BY <1>6, Programs, Goroutines, Constants DEF CallsOK, ShellEnds, ShellDone, Operation
<1>7. ASSUME Watch \/ ProgramQuits \/ Dispatch \/ Delivered \/ DispatcherStops \/ PullOperation
             \/ Settle \/ Settled
      PROVE  CallsOK'
  BY <1>7, Programs, Goroutines, Constants
  DEF CallsOK, Watch, ProgramQuits, Leave, Dispatch, Delivered, DispatcherStops, PullOperation,
      Settle, ApplyBurst, Settled
<1>8. ASSUME DrainEvents \/ CompleteDrain \/ ApplySubmission \/ ApplyRequest \/ ApplyShellResult
             \/ QuitSession \/ ShutdownSession \/ AwaitShells
      PROVE  CallsOK'
  BY <1>8, Programs, Goroutines, Constants
  DEF CallsOK, DrainEvents, At, CompleteDrain, ApplySubmission, ApplyRequest, ApplyShellResult,
      QuitSession, DownSession, ShutdownSession, AwaitShells
<1>9. ASSUME CloseDispatcher \/ Finish \/ Signal \/ ProgramEnds \/ UNCHANGED vars
      PROVE  CallsOK'
  BY <1>9, Programs, Goroutines, Constants
  DEF CallsOK, CloseDispatcher, Finish, Signal, ProgramEnds, Leave, vars
<1>10. ASSUME NEW u \in Users, Call(u)
       PROVE  CallsOK'
  <2>1. todo[u] \in Seq(Calls) /\ todo[u] # <<>>
    BY <1>10, Types DEF Call
  <2>2. Head(todo[u]) \in Calls
    BY <2>1
  <2>3. call' = [call EXCEPT ![u] = Operation(Head(todo[u]), u, Len(todo[u]))]
    BY <1>10 DEF Call
  <2>4. pc' = [pc EXCEPT ![u] = IF Head(todo[u]) = "close" THEN "once" ELSE "enqueue"]
    BY <1>10 DEF Call
  <2>5. /\ call' = [call EXCEPT ![u] = call'[u]] /\ call'[u].do = Head(todo[u]) /\ call'[u].by = u
    BY <2>3, Programs, Goroutines DEF Operation
  <2>. QED  BY <2>2, <2>4, <2>5, Programs, Goroutines DEF CallsOK, Calls
<1>11. ASSUME NEW n \in Notifiers, Record(n)
       PROVE  CallsOK'
  BY <1>11, Programs, Goroutines, Constants DEF CallsOK, Record, Drain, Operation
<1>. QED  BY <1>1, <1>2, <1>3, <1>4, <1>5, <1>6, <1>7, <1>8, <1>9, <1>10, <1>11
          DEF Next, Step, RequestClose, Executing

\* The executor's place in its loop goes with the operation it is at.
LEMMA ExecKept ==
    ASSUME Typed, GateOK, CallsOK, ExecOK, [Next]_vars
    PROVE  ExecOK'
<1>. USE DEF Ending, gate, lifetime, mail, model, dispatcher, replies, history, Others, Goto
<1>1. ASSUME NEW p \in Procs, Enqueue(p)
      PROVE  ExecOK'
  BY <1>1, Programs, Goroutines, Constants DEF ExecOK, Enqueue, Refused, Returns
<1>2. ASSUME NEW p \in Procs, Push(p)
      PROVE  ExecOK'
  BY <1>2, Programs, Goroutines, Constants DEF ExecOK, Push, Returns
<1>3. ASSUME NEW p \in Procs, BeginClose(p)
      PROVE  ExecOK'
  BY <1>3, Programs, Goroutines, Constants DEF ExecOK, BeginClose
<1>4. ASSUME NEW p \in Procs, AlreadyClosing(p)
      PROVE  ExecOK'
  BY <1>4, Programs, Goroutines, Constants DEF ExecOK, AlreadyClosing, Requested
<1>5. ASSUME NEW p \in Procs, PushShutdown(p)
      PROVE  ExecOK'
  BY <1>5, Programs, Goroutines, Constants DEF ExecOK, PushShutdown, Requested
<1>6. ASSUME NEW p \in Procs, Closed(p)
      PROVE  ExecOK'
  BY <1>6, Programs, Goroutines, Constants DEF ExecOK, Closed
<1>7. ASSUME NEW u \in Users, Answered(u)
      PROVE  ExecOK'
  BY <1>7, Programs, Goroutines, Constants DEF ExecOK, Answered
<1>8. ASSUME NEW u \in Users, Abandoned(u)
      PROVE  ExecOK'
  BY <1>8, Programs, Goroutines, Constants DEF ExecOK, Abandoned
<1>9. ASSUME NEW s \in Shells, NEW killed \in BOOLEAN, ShellEnds(s, killed)
      PROVE  ExecOK'
  BY <1>9, Programs, Goroutines, Constants DEF ExecOK, ShellEnds
<1>10. ASSUME Watch \/ ProgramQuits \/ Dispatch \/ Delivered \/ DispatcherStops \/ PullOperation
              \/ Settle \/ Settled
       PROVE  ExecOK'
  BY <1>10, Programs, Goroutines, Constants
  DEF ExecOK, Watch, ProgramQuits, Leave, Dispatch, Delivered, DispatcherStops, PullOperation,
      Settle, ApplyBurst, Settled
<1>11. ASSUME DrainEvents \/ CompleteDrain \/ ApplySubmission \/ ApplyRequest
              \/ ApplyShellResult \/ QuitSession \/ ShutdownSession \/ AwaitShells
       PROVE  ExecOK'
  BY <1>11, Programs, Goroutines, Constants
  DEF ExecOK, DrainEvents, At, CompleteDrain, ApplySubmission, ApplyRequest, ApplyShellResult,
      QuitSession, DownSession, ShutdownSession, AwaitShells
<1>12. ASSUME CloseDispatcher \/ Finish \/ Signal \/ ProgramEnds \/ UNCHANGED vars
       PROVE  ExecOK'
  BY <1>12, Programs, Goroutines, Constants
  DEF ExecOK, CloseDispatcher, Finish, Signal, ProgramEnds, Leave, vars
<1>13. ASSUME NEW u \in Users, Call(u)
       PROVE  ExecOK'
  BY <1>13, Programs, Goroutines, Constants DEF ExecOK, Call
<1>14. ASSUME NEW n \in Notifiers, Record(n)
       PROVE  ExecOK'
  BY <1>14, Programs, Goroutines, Constants DEF ExecOK, Record
<1>. QED  BY <1>1, <1>2, <1>3, <1>4, <1>5, <1>6, <1>7, <1>8, <1>9, <1>10, <1>11, <1>12, <1>13, <1>14
          DEF Next, Step, RequestClose, Executing

\* No shell starts once the executor has waited for them.
LEMMA ShellsKept ==
    ASSUME Typed, GateOK, CallsOK, ExecOK, ShellsOK, [Next]_vars
    PROVE  ShellsOK'
<1>. USE DEF Ending, gate, lifetime, mail, model, dispatcher, replies, history, Others, Goto
<1>1. ASSUME NEW p \in Procs, Enqueue(p) \/ BeginClose(p) \/ AlreadyClosing(p)
                              \/ PushShutdown(p) \/ Closed(p)
      PROVE  ShellsOK'
  BY <1>1, Programs, Goroutines, Constants
  DEF ShellsOK, Enqueue, Refused, Returns, BeginClose, AlreadyClosing, Requested, PushShutdown,
      Closed
<1>2. ASSUME NEW p \in Procs, Push(p)
      PROVE  ShellsOK'
  <2>1. pc[p] = "push" /\ (p \in Shells => pc' = [pc EXCEPT ![p] = "ended"])
    BY <1>2, Goroutines, Constants DEF Push, Returns, CallsOK, Asks
  <2>2. \E pcp : pc' = [pc EXCEPT ![p] = pcp] /\ pcp \in {"wait", "idle", "ended"}
    BY <1>2 DEF Push, Returns
  <2>3. p # Exec
    BY <2>1, Goroutines DEF ExecOK
  <2>. QED  BY <2>1, <2>2, <2>3, Programs, Goroutines DEF ShellsOK
<1>3. ASSUME NEW u \in Users, Answered(u)
      PROVE  ShellsOK'
  BY <1>3, Programs, Goroutines, Constants DEF ShellsOK, Answered
<1>4. ASSUME NEW u \in Users, Abandoned(u)
      PROVE  ShellsOK'
  BY <1>4, Programs, Goroutines, Constants DEF ShellsOK, Abandoned
<1>5. ASSUME NEW s \in Shells, NEW killed \in BOOLEAN, ShellEnds(s, killed)
      PROVE  ShellsOK'
  BY <1>5, Programs, Goroutines, Constants DEF ShellsOK, ShellEnds
<1>6. ASSUME Watch \/ ProgramQuits \/ Dispatch \/ Delivered \/ DispatcherStops \/ PullOperation
             \/ Settle \/ Settled
      PROVE  ShellsOK'
  BY <1>6, Programs, Goroutines, Constants
  DEF ShellsOK, Watch, ProgramQuits, Leave, Dispatch, Delivered, DispatcherStops, PullOperation,
      Settle, ApplyBurst, Settled
<1>7. ASSUME DrainEvents \/ CompleteDrain \/ ApplySubmission \/ ApplyRequest \/ ApplyShellResult
             \/ QuitSession \/ ShutdownSession \/ AwaitShells
      PROVE  ShellsOK'
  BY <1>7, Programs, Goroutines, Constants
  DEF ShellsOK, DrainEvents, At, CompleteDrain, ApplySubmission, ApplyRequest, ApplyShellResult,
      QuitSession, DownSession, ShutdownSession, AwaitShells
<1>8. ASSUME CloseDispatcher \/ Finish \/ Signal \/ ProgramEnds \/ UNCHANGED vars
      PROVE  ShellsOK'
  BY <1>8, Programs, Goroutines, Constants
  DEF ShellsOK, CloseDispatcher, Finish, Signal, ProgramEnds, Leave, vars
<1>9. ASSUME NEW u \in Users, Call(u)
      PROVE  ShellsOK'
  BY <1>9, Programs, Goroutines, Constants DEF ShellsOK, Call
<1>10. ASSUME NEW n \in Notifiers, Record(n)
       PROVE  ShellsOK'
  BY <1>10, Programs, Goroutines, Constants DEF ShellsOK, Record
<1>. QED  BY <1>1, <1>2, <1>3, <1>4, <1>5, <1>6, <1>7, <1>8, <1>9, <1>10
          DEF Next, Step, RequestClose, Executing

\* Nothing is enqueued behind the shutdown.
LEMMA ShutdownKept ==
    ASSUME Typed, GateOK, CallsOK, ExecOK, ShutdownLast, [Next]_vars
    PROVE  ShutdownLast'
<1>. USE DEF Ending, gate, lifetime, mail, model, dispatcher, replies, history, Others, Goto
<1>1. ASSUME NEW p \in Procs, Enqueue(p) \/ BeginClose(p) \/ AlreadyClosing(p) \/ Closed(p)
      PROVE  ShutdownLast'
  BY <1>1, Programs, Goroutines, Constants
  DEF ShutdownLast, Enqueue, Refused, Returns, BeginClose, AlreadyClosing, Requested, Closed
<1>2. ASSUME NEW p \in Procs, Push(p)
      PROVE  ShutdownLast'
  <2>1. Grown(call[p]) /\ op' = op /\ once' = once /\ pc[p] = "push"
    BY <1>2, PushGrows DEF Push
  <2>2. once = "no" /\ call[p].do # "shutdown"
    BY <2>1 DEF GateOK, CallsOK, Submissions, Asks
  <2>3. /\ \A k \in DOMAIN ops.buf : ops.buf[k].do # "shutdown"
        /\ op.do # "shutdown" /\ ~ops.closed
    BY <2>2 DEF ShutdownLast
  <2>4. \A k \in DOMAIN ops'.buf : ops'.buf[k].do # "shutdown"
    BY <2>1, <2>2, <2>3, Buffers DEF Grown
  <2>. QED  BY <2>1, <2>3, <2>4 DEF Grown, ShutdownLast
<1>3. ASSUME NEW p \in Procs, PushShutdown(p)
      PROVE  ShutdownLast'
  <2>1. Grown(Shutdown) /\ op' = op /\ once' = "over" /\ once = "running"
    BY <1>3, ShutdownGrows DEF PushShutdown, GateOK
  <2>2. \A k \in DOMAIN ops.buf : ops.buf[k].do # "shutdown"
    BY <2>1 DEF ShutdownLast
  <2>3. \A k \in DOMAIN ops'.buf :
            (k \in DOMAIN ops.buf /\ ops'.buf[k] = ops.buf[k]) \/ k = Len(ops'.buf)
    BY <2>1, Buffers DEF Grown
  <2>4. op.do # "shutdown" /\ ops'.closed = ops.closed
    BY <2>1 DEF ShutdownLast, Grown
  <2>. QED  BY <2>1, <2>2, <2>3, <2>4 DEF ShutdownLast
<1>4. ASSUME NEW u \in Users, Answered(u)
      PROVE  ShutdownLast'
  BY <1>4, Programs, Goroutines, Constants DEF ShutdownLast, Answered
<1>5. ASSUME NEW u \in Users, Abandoned(u)
      PROVE  ShutdownLast'
  BY <1>5, Programs, Goroutines, Constants DEF ShutdownLast, Abandoned
<1>6. ASSUME NEW s \in Shells, NEW killed \in BOOLEAN, ShellEnds(s, killed)
      PROVE  ShutdownLast'
  BY <1>6, Programs, Goroutines, Constants DEF ShutdownLast, ShellEnds
<1>7. ASSUME Watch \/ ProgramQuits \/ Dispatch \/ Delivered \/ DispatcherStops \/ Settle
             \/ Settled \/ DrainEvents
      PROVE  ShutdownLast'
  BY <1>7, Programs, Goroutines, Constants
  DEF ShutdownLast, Watch, ProgramQuits, Leave, Dispatch, Delivered, DispatcherStops, Settle,
      ApplyBurst, Settled, DrainEvents, At
<1>8. ASSUME PullOperation
      PROVE  ShutdownLast'
  <2>1. pc[Exec] = "pull" /\ pc' = [pc EXCEPT ![Exec] = "apply"] /\ once' = once
    BY <1>8 DEF PullOperation
  <2>2. op.do # "shutdown" /\ ~ops.closed
    BY <2>1 DEF ShutdownLast
  <2>3. /\ Len(ops.buf) \in Nat /\ Len(ops.buf) >= 1 /\ op' = ops.buf[1]
        /\ DOMAIN ops.buf = 1 .. Len(ops.buf)
        /\ Len(ops'.buf) = Len(ops.buf) - 1
        /\ DOMAIN ops'.buf = 1 .. Len(ops.buf) - 1
        /\ \A k \in 1 .. Len(ops.buf) - 1 : ops'.buf[k] = ops.buf[k + 1]
        /\ ops'.buf \in Seq(Operations) /\ ops'.closed = ops.closed
    BY <1>8, PullShrinks, Buffers, PulledIs, Types DEF PullOperation, QueueOf
  <2>4. ASSUME op'.do = "shutdown"
        PROVE  once = "over" /\ ops'.buf = <<>>
    <3>0. 1 \in DOMAIN ops.buf /\ ops.buf[1].do = "shutdown"
      BY <2>3, <2>4
    <3>1. once = "over" /\ Len(ops.buf) = 1
      BY <3>0 DEF ShutdownLast
    <3>2. ops'.buf \in Seq(Operations) /\ Len(ops'.buf) = 0
      BY <2>3, <3>1
    <3>. QED  BY <3>1, <3>2, EmptySeq
  <2>5. \A k \in DOMAIN ops'.buf :
            ops'.buf[k].do = "shutdown" => once = "over" /\ k = Len(ops'.buf)
    BY <2>3 DEF ShutdownLast
  <2>. QED  BY <2>1, <2>2, <2>3, <2>4, <2>5, Programs, Goroutines DEF ShutdownLast
<1>9. ASSUME CompleteDrain \/ ApplySubmission \/ ApplyShellResult \/ QuitSession
             \/ ShutdownSession \/ CloseDispatcher \/ Finish \/ Signal
      PROVE  ShutdownLast'
  BY <1>9, Programs, Goroutines, Constants
  DEF ShutdownLast, CompleteDrain, ApplySubmission, At, ApplyShellResult, QuitSession, DownSession,
      ShutdownSession, CloseDispatcher, Finish, Signal
<1>10. ASSUME ApplyRequest
       PROVE  ShutdownLast'
  <2>1. ops' = ops /\ op' = op /\ once' = once /\ op.do # "shutdown"
    BY <1>10 DEF ApplyRequest, At, Asks
  <2>. QED  BY <2>1 DEF ShutdownLast
<1>11. ASSUME AwaitShells
       PROVE  ShutdownLast'
  <2>1. op' = op /\ once' = once /\ pc[Exec] = "shells" /\ pc'[Exec] = "flush"
    BY <1>11, Programs, Goroutines DEF AwaitShells
  <2>2. ops'.buf = ops.buf
    BY <1>11, Types, ClosedIs DEF AwaitShells
  <2>. QED  BY <2>1, <2>2 DEF ShutdownLast, ExecOK
<1>12. ASSUME NEW u \in Users, Call(u)
       PROVE  ShutdownLast'
  BY <1>12, Programs, Goroutines, Constants DEF ShutdownLast, Call
<1>13. ASSUME NEW n \in Notifiers, Record(n)
       PROVE  ShutdownLast'
  BY <1>13, Programs, Goroutines, Constants DEF ShutdownLast, Record
<1>14. ASSUME ProgramEnds \/ UNCHANGED vars
       PROVE  ShutdownLast'
  BY <1>14, Programs, Goroutines, Constants DEF ShutdownLast, ProgramEnds, Leave, vars
<1>. QED  BY <1>1, <1>2, <1>3, <1>4, <1>5, <1>6, <1>7, <1>8, <1>9, <1>10, <1>11, <1>12, <1>13, <1>14
          DEF Next, Step, RequestClose, Executing

\* Nothing is published behind the barrier.
LEMMA BarrierKept ==
    ASSUME Typed, Typed', ExecOK, ShutdownLast, BarrierLast, [Next]_vars
    PROVE  BarrierLast'
<1>. USE DEF Ending, gate, lifetime, mail, model, dispatcher, replies, history, Others, Goto
<1>1. ASSUME NEW p \in Procs, Enqueue(p)
      PROVE  BarrierLast'
  BY <1>1, Programs, Goroutines, Constants, Buffers DEF BarrierLast, Enqueue, Refused, Returns
<1>2. ASSUME NEW p \in Procs, Push(p)
      PROVE  BarrierLast'
  BY <1>2, Programs, Goroutines, Constants, Buffers DEF BarrierLast, Push, Returns
<1>3. ASSUME NEW p \in Procs, BeginClose(p)
      PROVE  BarrierLast'
  BY <1>3, Programs, Goroutines, Constants, Buffers DEF BarrierLast, BeginClose
<1>4. ASSUME NEW p \in Procs, AlreadyClosing(p)
      PROVE  BarrierLast'
  BY <1>4, Programs, Goroutines, Constants, Buffers DEF BarrierLast, AlreadyClosing, Requested
<1>5. ASSUME NEW p \in Procs, PushShutdown(p)
      PROVE  BarrierLast'
  BY <1>5, Programs, Goroutines, Constants, Buffers DEF BarrierLast, PushShutdown, Requested
<1>6. ASSUME NEW p \in Procs, Closed(p)
      PROVE  BarrierLast'
  BY <1>6, Programs, Goroutines, Constants, Buffers DEF BarrierLast, Closed
<1>7. ASSUME NEW u \in Users, Answered(u)
      PROVE  BarrierLast'
  BY <1>7, Programs, Goroutines, Constants, Buffers DEF BarrierLast, Answered
<1>8. ASSUME NEW u \in Users, Abandoned(u)
      PROVE  BarrierLast'
  BY <1>8, Programs, Goroutines, Constants, Buffers DEF BarrierLast, Abandoned
<1>9. ASSUME NEW s \in Shells, NEW killed \in BOOLEAN, ShellEnds(s, killed)
      PROVE  BarrierLast'
  BY <1>9, Programs, Goroutines, Constants, Buffers DEF BarrierLast, ShellEnds
<1>10. ASSUME Watch \/ ProgramQuits \/ Delivered \/ PullOperation \/ Settled \/ DrainEvents
              \/ CompleteDrain \/ ShutdownSession
       PROVE  BarrierLast'
  BY <1>10, Programs, Goroutines, Constants, Buffers
  DEF BarrierLast, Watch, ProgramQuits, Leave, Delivered, PullOperation, Settled, DrainEvents, At,
      CompleteDrain, ShutdownSession, DownSession
<1>11. ASSUME Dispatch
       PROVE  BarrierLast'
  <2>1. /\ pc[Disp] = "pull" /\ stopped' = stopped
        /\ \E l : pc' = [pc EXCEPT ![Disp] = l]
        /\ reached' = (reached \/ dispatch.buf[1].kind = "barrier")
    BY <1>11, DispatchShrinks DEF Dispatch
  <2>2. pc'[Exec] = pc[Exec]
    BY <2>1, Programs, Goroutines
  <2>3. Len(dispatch.buf) \in Nat /\ Len(dispatch'.buf) \in Nat
    BY <1>11, DispatchShrinks, Buffers
  <2>7. Len(dispatch.buf) >= 1 /\ DOMAIN dispatch.buf = 1 .. Len(dispatch.buf)
    BY <1>11, DispatchShrinks, Buffers
  <2>4. ~reached
    BY <2>3, <1>11, DispatchShrinks, EmptySeq DEF BarrierLast
  <2>5. ASSUME dispatch.buf[1].kind = "barrier"
        PROVE  pc[Exec] = "flush" /\ dispatch'.buf = <<>>
    <3>0. 1 \in DOMAIN dispatch.buf
      BY <2>3, <2>7
    <3>1. pc[Exec] = "flush" /\ Len(dispatch.buf) = 1
      BY <2>5, <3>0 DEF BarrierLast
    <3>2. dispatch'.buf \in Seq(Events) /\ Len(dispatch'.buf) = 0
      BY <3>1, DispatchShrinks, <1>11 DEF Typed, TypeOK, QueueOf
    <3>. QED  BY <3>1, <3>2, EmptySeq
  <2>6. \A k \in DOMAIN dispatch'.buf :
            dispatch'.buf[k].kind = "barrier" => pc[Exec] = "flush" /\ k = Len(dispatch'.buf)
    BY <2>3, DispatchShrinks, Buffers, <1>11 DEF BarrierLast
  <2>. QED  BY <2>1, <2>2, <2>4, <2>5, <2>6, DispatchShrinks, <1>11 DEF BarrierLast
<1>12. ASSUME DispatcherStops
       PROVE  BarrierLast'
  <2>1. dispatch' = dispatch /\ dispatch.closed /\ reached' = reached /\ pc'[Exec] = pc[Exec]
    BY <1>12, Programs, Goroutines DEF DispatcherStops, ReportsClosed
  <2>. QED  BY <2>1 DEF BarrierLast
<1>13. ASSUME Settle
       PROVE  BarrierLast'
  <2>. DEFINE s == <<StateChanged(room')>>
  <2>1. s \in Seq(Events) /\ Len(s) = 1
    BY Types, Typed', EventsTyped DEF Typed, TypeOK
  <2>2. Announced(s)
    BY <1>13, <2>1, PublishAnnounces DEF Settle, ApplyBurst
  <2>3. /\ UNCHANGED <<reached, stopped>>
        /\ pc[Exec] \notin Ending \ {"shells"} /\ pc'[Exec] \notin {"drained", "end"}
    BY <1>13, Programs, Goroutines DEF Settle, ApplyBurst
  <2>4. s[1].kind # "barrier"
    BY DEF StateChanged, Outcome, ExitRequested, Barrier, Event
  <2>. HIDE DEF s
  <2>5. /\ ~reached /\ ~dispatch.closed
        /\ \A k \in DOMAIN dispatch.buf : dispatch.buf[k].kind # "barrier"
    BY <2>3 DEF BarrierLast, Ending
  <2>6. ASSUME NEW k \in DOMAIN dispatch'.buf, dispatch'.buf[k].kind = "barrier"
        PROVE  FALSE
    <3>1. \E j \in 1 .. 1 : k = Len(dispatch.buf) + j /\ dispatch'.buf[k] = s[j]
      BY <2>1, <2>2, <2>5, <2>6, AnnouncedIs
    <3>. QED  BY <2>1, <2>2, <2>4, <2>6, <3>1 DEF Announced
  <2>7. dispatch'.closed = dispatch.closed
    BY <2>2 DEF Announced
  <2>. QED  BY <2>3, <2>5, <2>6, <2>7 DEF BarrierLast
<1>14. ASSUME ApplySubmission
       PROVE  BarrierLast'
  <2>. DEFINE s == <<StateChanged(room'), Outcome(op)>>
  <2>1. s \in Seq(Events) /\ Len(s) = 2
    BY Types, Typed', EventsTyped DEF Typed, TypeOK
  <2>2. Announced(s)
    BY <1>14, <2>1, PublishAnnounces DEF ApplySubmission, At
  <2>3. /\ UNCHANGED <<reached, stopped>>
        /\ pc[Exec] \notin Ending \ {"shells"} /\ pc'[Exec] \notin {"drained", "end"}
    BY <1>14, Programs, Goroutines DEF ApplySubmission, At
  <2>4. s[1].kind # "barrier" /\ s[2].kind # "barrier"
    BY DEF StateChanged, Outcome, ExitRequested, Barrier, Event
  <2>. HIDE DEF s
  <2>5. /\ ~reached /\ ~dispatch.closed
        /\ \A k \in DOMAIN dispatch.buf : dispatch.buf[k].kind # "barrier"
    BY <2>3 DEF BarrierLast, Ending
  <2>6. ASSUME NEW k \in DOMAIN dispatch'.buf, dispatch'.buf[k].kind = "barrier"
        PROVE  FALSE
    <3>1. \E j \in 1 .. 2 : k = Len(dispatch.buf) + j /\ dispatch'.buf[k] = s[j]
      BY <2>1, <2>2, <2>5, <2>6, AnnouncedIs
    <3>. QED  BY <2>1, <2>2, <2>4, <2>6, <3>1 DEF Announced
  <2>7. dispatch'.closed = dispatch.closed
    BY <2>2 DEF Announced
  <2>. QED  BY <2>3, <2>5, <2>6, <2>7 DEF BarrierLast
<1>15. ASSUME ApplyRequest
       PROVE  BarrierLast'
  <2>1. CASE op.do = "stage"
  <3>. DEFINE s == <<StateChanged(room)>>
      <3>1. s \in Seq(Events) /\ Len(s) = 1
      BY Types, Typed', EventsTyped DEF Typed, TypeOK
    <3>2. Announced(s)
      BY <1>15, <2>1, <3>1, PublishAnnounces DEF ApplyRequest, At
    <3>3. /\ UNCHANGED <<reached, stopped>>
          /\ pc[Exec] \notin Ending \ {"shells"} /\ pc'[Exec] \notin {"drained", "end"}
      BY <1>15, <2>1, Programs, Goroutines DEF ApplyRequest, At
    <3>4. s[1].kind # "barrier"
      BY DEF StateChanged, Outcome, ExitRequested, Barrier, Event
    <3>. HIDE DEF s
    <3>5. /\ ~reached /\ ~dispatch.closed
          /\ \A k \in DOMAIN dispatch.buf : dispatch.buf[k].kind # "barrier"
      BY <3>3 DEF BarrierLast, Ending
    <3>6. ASSUME NEW k \in DOMAIN dispatch'.buf, dispatch'.buf[k].kind = "barrier"
          PROVE  FALSE
      <4>1. \E j \in 1 .. 1 : k = Len(dispatch.buf) + j /\ dispatch'.buf[k] = s[j]
        BY <3>1, <3>2, <3>5, <3>6, AnnouncedIs
      <4>. QED  BY <3>1, <3>2, <3>4, <3>6, <4>1 DEF Announced
    <3>7. dispatch'.closed = dispatch.closed
      BY <3>2 DEF Announced
    <3>. QED  BY <3>3, <3>5, <3>6, <3>7 DEF BarrierLast
  <2>2. CASE op.do # "stage"
    BY <1>15, <2>2, Programs, Goroutines DEF ApplyRequest, At, BarrierLast
  <2>. QED  BY <2>1, <2>2
<1>16. ASSUME ApplyShellResult
       PROVE  BarrierLast'
  <2>. DEFINE s == <<StateChanged(room)>>
  <2>1. s \in Seq(Events) /\ Len(s) = 1
    BY Types, Typed', EventsTyped DEF Typed, TypeOK
  <2>2. Announced(s)
    BY <1>16, <2>1, PublishAnnounces DEF ApplyShellResult, At
  <2>3. /\ UNCHANGED <<reached, stopped>>
        /\ pc[Exec] \notin Ending \ {"shells"} /\ pc'[Exec] \notin {"drained", "end"}
    BY <1>16, Programs, Goroutines DEF ApplyShellResult, At
  <2>4. s[1].kind # "barrier"
    BY DEF StateChanged, Outcome, ExitRequested, Barrier, Event
  <2>. HIDE DEF s
  <2>5. /\ ~reached /\ ~dispatch.closed
        /\ \A k \in DOMAIN dispatch.buf : dispatch.buf[k].kind # "barrier"
    BY <2>3 DEF BarrierLast, Ending
  <2>6. ASSUME NEW k \in DOMAIN dispatch'.buf, dispatch'.buf[k].kind = "barrier"
        PROVE  FALSE
    <3>1. \E j \in 1 .. 1 : k = Len(dispatch.buf) + j /\ dispatch'.buf[k] = s[j]
      BY <2>1, <2>2, <2>5, <2>6, AnnouncedIs
    <3>. QED  BY <2>1, <2>2, <2>4, <2>6, <3>1 DEF Announced
  <2>7. dispatch'.closed = dispatch.closed
    BY <2>2 DEF Announced
  <2>. QED  BY <2>3, <2>5, <2>6, <2>7 DEF BarrierLast
<1>17. ASSUME QuitSession
       PROVE  BarrierLast'
  <2>. DEFINE s == <<StateChanged(room'), ExitRequested>>
  <2>1. s \in Seq(Events) /\ Len(s) = 2
    BY Types, Typed', EventsTyped DEF Typed, TypeOK
  <2>2. Announced(s)
    BY <1>17, <2>1, PublishAnnounces DEF QuitSession, DownSession
  <2>3. /\ UNCHANGED <<reached, stopped>>
        /\ pc[Exec] \notin Ending \ {"shells"} /\ pc'[Exec] \notin {"drained", "end"}
    BY <1>17, Programs, Goroutines DEF QuitSession, DownSession
  <2>4. s[1].kind # "barrier" /\ s[2].kind # "barrier"
    BY DEF StateChanged, Outcome, ExitRequested, Barrier, Event
  <2>. HIDE DEF s
  <2>5. /\ ~reached /\ ~dispatch.closed
        /\ \A k \in DOMAIN dispatch.buf : dispatch.buf[k].kind # "barrier"
    BY <2>3 DEF BarrierLast, Ending
  <2>6. ASSUME NEW k \in DOMAIN dispatch'.buf, dispatch'.buf[k].kind = "barrier"
        PROVE  FALSE
    <3>1. \E j \in 1 .. 2 : k = Len(dispatch.buf) + j /\ dispatch'.buf[k] = s[j]
      BY <2>1, <2>2, <2>5, <2>6, AnnouncedIs
    <3>. QED  BY <2>1, <2>2, <2>4, <2>6, <3>1 DEF Announced
  <2>7. dispatch'.closed = dispatch.closed
    BY <2>2 DEF Announced
  <2>. QED  BY <2>3, <2>5, <2>6, <2>7 DEF BarrierLast
<1>18. ASSUME AwaitShells
       PROVE  BarrierLast'
  <2>. DEFINE s == <<Barrier>>
  <2>1. s \in Seq(Events) /\ Len(s) = 1
    BY Types, Typed', EventsTyped DEF Typed, TypeOK
  <2>2. Announced(s)
    BY <1>18, <2>1, PublishAnnounces DEF AwaitShells
  <2>3. UNCHANGED <<reached, stopped>> /\ pc[Exec] = "shells" /\ pc'[Exec] = "flush"
    BY <1>18, Programs, Goroutines DEF AwaitShells
  <2>4. s[1].kind = "barrier"
    BY DEF StateChanged, Outcome, ExitRequested, Barrier, Event
  <2>. HIDE DEF s
  <2>5. /\ ~reached /\ ~dispatch.closed
        /\ \A k \in DOMAIN dispatch.buf : dispatch.buf[k].kind # "barrier"
    BY <2>3 DEF BarrierLast, Ending
  <2>6. ASSUME NEW k \in DOMAIN dispatch'.buf, dispatch'.buf[k].kind = "barrier"
        PROVE  k = Len(dispatch'.buf)
    <3>1. \E j \in 1 .. 1 : k = Len(dispatch.buf) + j /\ dispatch'.buf[k] = s[j]
      BY <2>1, <2>2, <2>5, <2>6, AnnouncedIs
    <3>. QED  BY <2>1, <2>2, <2>4, <2>6, <3>1 DEF Announced
  <2>7. dispatch'.closed = dispatch.closed
    BY <2>2 DEF Announced
  <2>. QED  BY <2>3, <2>5, <2>6, <2>7 DEF BarrierLast
<1>19. ASSUME CloseDispatcher
       PROVE  BarrierLast'
  <2>1. /\ dispatch'.buf = dispatch.buf /\ reached' = reached /\ reached
        /\ pc'[Exec] = "drained" /\ stopped' = stopped
    BY <1>19, Types, ClosedIs, Programs, Goroutines DEF CloseDispatcher
  <2>. QED  BY <2>1, <1>19 DEF BarrierLast, CloseDispatcher
<1>20. ASSUME Finish \/ Signal \/ ProgramEnds \/ UNCHANGED vars
       PROVE  BarrierLast'
  BY <1>20, Programs, Goroutines, Constants, Buffers
  DEF BarrierLast, Finish, Signal, ProgramEnds, Leave, vars
<1>21. ASSUME NEW u \in Users, Call(u)
       PROVE  BarrierLast'
  BY <1>21, Programs, Goroutines, Constants, Buffers DEF BarrierLast, Call
<1>22. ASSUME NEW n \in Notifiers, Record(n)
       PROVE  BarrierLast'
  BY <1>22, Programs, Goroutines, Constants, Buffers DEF BarrierLast, Record
<1>. QED  BY <1>1, <1>2, <1>3, <1>4, <1>5, <1>6, <1>7, <1>8, <1>9, <1>10, <1>11, <1>12, <1>13,
             <1>14, <1>15, <1>16, <1>17, <1>18, <1>19, <1>20, <1>21, <1>22
          DEF Next, Step, RequestClose, Executing

\* A request that is waited for is never lost, nor there twice.
LEMMA AsksKept ==
    ASSUME Typed, GateOK, CallsOK, ExecOK, ShutdownLast, AsksOK, FreshOK, [Next]_vars
    PROVE  AsksOK'
<1>. USE DEF Ending, gate, lifetime, mail, model, dispatcher, replies, history, Others, Goto
<1>1. ASSUME NEW p \in Procs, Enqueue(p)
      PROVE  AsksOK'
  <2>1. /\ ops' = ops /\ op' = op /\ call' = call /\ result' = result /\ pc[p] = "enqueue"
        /\ \E l \in {"idle", "ended", "push"} : pc' = [pc EXCEPT ![p] = l]
    BY <1>1 DEF Enqueue, Refused, Returns
  <2>2. p # Exec
    BY <2>1, Goroutines DEF ExecOK, Ending
  <2>. QED  BY <2>1, <2>2, AsksFrame, Programs, Goroutines DEF Waiters
<1>2. ASSUME NEW p \in Procs, Push(p)
      PROVE  AsksOK'
  <2>1. Grown(call[p]) /\ op' = op /\ pc[p] = "push" /\ call' = call /\ result' = result
    BY <1>2, PushGrows DEF Push
  <2>2. p # Exec
    BY <2>1, Goroutines DEF ExecOK, Ending
  <2>3. /\ call[p].do \in Asks => p \in Users /\ call[p].by = p /\ pc' = [pc EXCEPT ![p] = "wait"]
        /\ call[p].do \notin Asks => \E l \in {"idle", "ended"} : pc' = [pc EXCEPT ![p] = l]
    BY <1>2, <2>1, Goroutines, Constants DEF Push, Returns, CallsOK, Asks, Submissions
  <2>4. pc'[Exec] = pc[Exec]
    BY <2>2, <2>3, Programs, Goroutines
  <2>5. \A q \in Procs : q # p => pc'[q] = pc[q]
    BY <2>3, Programs
  <2>6. DOMAIN ops.buf = 1 .. Len(ops.buf) /\ Len(ops.buf) \in Nat
    BY Buffers
  <2>7. \A k \in DOMAIN ops.buf :
            ops.buf[k].do \in Asks => ops.buf[k].by # p /\ ops.buf[k] # call[p]
    BY <2>1, <2>3 DEF AsksOK, Awaited
  <2>8. Handled(op) /\ op.do \in Asks => op.by # p /\ op # call[p]
    BY <2>1, <2>3 DEF AsksOK, Awaited, Handled
  <2>9. ASSUME NEW u \in Users, pc'[u] = "wait"
        PROVE  \/ result'[u].ok
               \/ \E k \in DOMAIN ops'.buf : ops'.buf[k] = call'[u]
               \/ op' = call'[u] /\ pc'[Exec] = "apply"
    <3>1. CASE u = p
      BY <2>1, <2>6, <3>1 DEF Grown
    <3>2. CASE u # p
      BY <2>1, <2>4, <2>5, <2>6, <2>9, <3>2, Goroutines DEF Grown, AsksOK, Handled
    <3>. QED  BY <3>1, <3>2
  <2>10. ASSUME NEW k \in DOMAIN ops'.buf, ops'.buf[k].do \in Asks
         PROVE  /\ Awaited(ops.buf[k])'
                /\ ~Handled(ops.buf[k])'
                /\ \A j \in DOMAIN ops'.buf : ops'.buf[j] = ops'.buf[k] => j = k
    <3>1. CASE k \in DOMAIN ops.buf
      <4>1. ops'.buf[k] = ops.buf[k] /\ ops.buf[k].do \in Asks
        BY <2>1, <2>6, <2>10, <3>1 DEF Grown
      <4>2. Awaited(ops.buf[k]) /\ ~Handled(ops.buf[k]) /\ ops.buf[k].by # p
        BY <2>7, <3>1, <4>1 DEF AsksOK
      <4>3. \A j \in DOMAIN ops'.buf : ops'.buf[j] = ops'.buf[k] => j = k
        BY <2>1, <2>6, <2>7, <3>1, <4>1 DEF Grown, AsksOK
      <4>. QED  BY <2>1, <2>4, <2>5, <4>1, <4>2, <4>3, Goroutines DEF Awaited, Handled
    <3>2. CASE k \notin DOMAIN ops.buf
      <4>1. k = Len(ops.buf) + 1 /\ ops'.buf[k] = call[p]
        BY <2>1, <2>6, <3>2 DEF Grown
      <4>2. p \in Users /\ call[p].by = p /\ pc'[p] = "wait" /\ ~result[p].ok
        BY <2>1, <2>3, <2>10, <4>1, Programs, Goroutines DEF FreshOK
      <4>3. \A j \in DOMAIN ops'.buf : ops'.buf[j] = ops'.buf[k] => j = k
        BY <2>1, <2>6, <2>7, <2>10, <4>1 DEF Grown
      <4>. QED  BY <2>1, <2>4, <2>8, <2>10, <4>1, <4>2, <4>3 DEF Awaited, Handled
    <3>. QED  BY <3>1, <3>2
  <2>11. op'.do \in Asks /\ pc'[Exec] = "apply" => Awaited(op)'
    BY <2>1, <2>4, <2>5, <2>8, Goroutines DEF AsksOK, Awaited, Handled
  <2>. QED  BY <2>9, <2>10, <2>11 DEF AsksOK, Handled, Awaited
<1>3. ASSUME NEW p \in Procs, BeginClose(p) \/ AlreadyClosing(p) \/ Closed(p)
      PROVE  AsksOK'
  BY <1>3, AsksFrame, Programs, Goroutines, Constants
  DEF Waiters, BeginClose, ExecOK, CallsOK, Asks, Submissions, AlreadyClosing, Requested, Closed
<1>4. ASSUME NEW p \in Procs, PushShutdown(p)
      PROVE  AsksOK'
  <2>1. /\ Grown(Shutdown) /\ op' = op /\ call' = call /\ result' = result
        /\ pc[p] = "stop" /\ pc' = [pc EXCEPT ![p] = Requested(p)]
    BY <1>4, ShutdownGrows DEF PushShutdown
  <2>0. Requested(p) \in {"quitting", "end", "await"}
    BY DEF Requested
  <2>2. Waiters /\ (pc'[Exec] = "apply" <=> pc[Exec] = "apply")
    BY <2>0, <2>1, Programs, Goroutines DEF Waiters
  <2>3. Shutdown.do = "shutdown" /\ "shutdown" \notin Asks
    BY DEF Shutdown, Operation, Asks
  <2>4. DOMAIN ops.buf = 1 .. Len(ops.buf) /\ Len(ops.buf) \in Nat
    BY Buffers
  <2>5. \A k \in DOMAIN ops'.buf :
            ops'.buf[k].do \in Asks => k \in DOMAIN ops.buf /\ ops'.buf[k] = ops.buf[k]
    BY <2>1, <2>3, <2>4 DEF Grown
  <2>6. \A k \in DOMAIN ops.buf : k \in DOMAIN ops'.buf /\ ops'.buf[k] = ops.buf[k]
    BY <2>1, <2>4 DEF Grown
  <2>7. \A u \in Users : pc'[u] = "wait" =>
           \/ result'[u].ok
           \/ \E k \in DOMAIN ops'.buf : ops'.buf[k] = call'[u]
           \/ op' = call'[u] /\ pc'[Exec] = "apply"
    BY <2>1, <2>2, <2>6 DEF Waiters, AsksOK, Handled
  <2>8. ASSUME NEW k \in DOMAIN ops'.buf, ops'.buf[k].do \in Asks
        PROVE  /\ Awaited(ops.buf[k])' /\ ~Handled(ops.buf[k])'
               /\ \A j \in DOMAIN ops'.buf : ops'.buf[j] = ops'.buf[k] => j = k
    <3>1. k \in DOMAIN ops.buf /\ ops'.buf[k] = ops.buf[k] /\ ops.buf[k].do \in Asks
      BY <2>5, <2>8
    <3>2. Awaited(ops.buf[k]) /\ ~Handled(ops.buf[k])
      BY <3>1 DEF AsksOK
    <3>3. \A j \in DOMAIN ops'.buf : ops'.buf[j] = ops'.buf[k] => j = k
      BY <2>5, <2>8, <3>1 DEF AsksOK
    <3>. QED  BY <2>1, <2>2, <3>1, <3>2, <3>3 DEF Waiters, Awaited, Handled
  <2>9. op'.do \in Asks /\ pc'[Exec] = "apply" => Awaited(op)'
    BY <2>1, <2>2 DEF Waiters, AsksOK, Awaited
  <2>. QED  BY <2>7, <2>8, <2>9 DEF AsksOK, Handled, Awaited
<1>5. ASSUME NEW u \in Users, Answered(u)
      PROVE  AsksOK'
  <2>1. /\ ops' = ops /\ op' = op /\ call' = call /\ result' = result
        /\ pc[u] = "wait" /\ pc' = [pc EXCEPT ![u] = "idle"]
    BY <1>5 DEF Answered
  <2>2. /\ \A k \in DOMAIN ops.buf : ops.buf[k].do \in Asks => ops.buf[k].by # u
        /\ op.do \in Asks /\ pc[Exec] = "apply" => op.by # u
    BY <1>5 DEF Answered, AsksOK, Awaited
  <2>3. pc'[Exec] = pc[Exec] /\ (\A v \in Users : v # u => pc'[v] = pc[v]) /\ pc'[u] = "idle"
    BY <2>1, Programs, Goroutines
  <2>. QED  BY <2>1, <2>2, <2>3 DEF AsksOK, Handled, Awaited
<1>6. ASSUME NEW u \in Users, Abandoned(u)
      PROVE  AsksOK'
  <2>1. /\ ops' = ops /\ op' = op /\ call' = call /\ result' = result
        /\ pc[u] = "wait" /\ pc' = [pc EXCEPT ![u] = "idle"]
    BY <1>6 DEF Abandoned
  <2>2. /\ \A k \in DOMAIN ops.buf : ops.buf[k].do \in Asks => ops.buf[k].by # u
        /\ op.do \in Asks /\ pc[Exec] = "apply" => op.by # u
    BY <1>6 DEF Abandoned, ExecOK, Ending, ShutdownLast, Asks
  <2>3. pc'[Exec] = pc[Exec] /\ (\A v \in Users : v # u => pc'[v] = pc[v]) /\ pc'[u] = "idle"
    BY <2>1, Programs, Goroutines
  <2>. QED  BY <2>1, <2>2, <2>3 DEF AsksOK, Handled, Awaited
<1>7. ASSUME NEW s \in Shells, NEW killed \in BOOLEAN, ShellEnds(s, killed)
      PROVE  AsksOK'
  BY <1>7, AsksFrame, Programs, Goroutines, Constants
  DEF Waiters, ShellEnds, ExecOK, CallsOK, Asks, Submissions
<1>8. ASSUME Watch \/ ProgramQuits \/ Dispatch \/ Delivered \/ DispatcherStops \/ Settle
             \/ Settled \/ DrainEvents
      PROVE  AsksOK'
  BY <1>8, AsksFrame, Programs, Goroutines, Constants
  DEF Waiters, Watch, ExecOK, CallsOK, Asks, Submissions, ProgramQuits, Leave, Dispatch, Delivered,
      DispatcherStops, Settle, ApplyBurst, Settled, DrainEvents, At
<1>9. ASSUME PullOperation
      PROVE  AsksOK'
  <2>1. /\ pc[Exec] = "pull" /\ pc' = [pc EXCEPT ![Exec] = "apply"]
        /\ call' = call /\ result' = result
    BY <1>9 DEF PullOperation
  <2>2. /\ Len(ops.buf) \in Nat /\ Len(ops.buf) >= 1 /\ op' = ops.buf[1]
        /\ DOMAIN ops.buf = 1 .. Len(ops.buf)
        /\ DOMAIN ops'.buf = 1 .. Len(ops.buf) - 1
        /\ \A k \in 1 .. Len(ops.buf) - 1 : ops'.buf[k] = ops.buf[k + 1]
    BY <1>9, PullShrinks, Buffers
  <2>3. pc'[Exec] = "apply" /\ \A u \in Users : pc'[u] = pc[u]
    BY <2>1, Programs, Goroutines
  <2>4. 1 \in DOMAIN ops.buf /\ \A k \in DOMAIN ops'.buf :
            k + 1 \in DOMAIN ops.buf /\ k + 1 # 1 /\ ops'.buf[k] = ops.buf[k + 1]
    BY <2>2
  <2>5. \A k \in DOMAIN ops.buf :
            k = 1 \/ (k - 1 \in DOMAIN ops'.buf /\ ops'.buf[k - 1] = ops.buf[k])
    BY <2>2
  <2>6. \A u \in Users : pc'[u] = "wait" =>
           \/ result'[u].ok
           \/ \E k \in DOMAIN ops'.buf : ops'.buf[k] = call'[u]
           \/ op' = call'[u] /\ pc'[Exec] = "apply"
    BY <2>1, <2>2, <2>3, <2>5 DEF AsksOK, Handled
  <2>7. ASSUME NEW k \in DOMAIN ops'.buf, ops'.buf[k].do \in Asks
        PROVE  /\ Awaited(ops.buf[k])' /\ ~Handled(ops.buf[k])'
               /\ \A j \in DOMAIN ops'.buf : ops'.buf[j] = ops'.buf[k] => j = k
    <3>1. k + 1 \in DOMAIN ops.buf /\ k + 1 # 1 /\ ops'.buf[k] = ops.buf[k + 1]
      BY <2>4
    <3>2. Awaited(ops.buf[k + 1]) /\ ops.buf[k + 1] # ops.buf[1]
      BY <2>4, <2>7, <3>1 DEF AsksOK
    <3>3. \A j \in DOMAIN ops'.buf : ops'.buf[j] = ops'.buf[k] => j + 1 = k + 1
      BY <2>4, <2>7, <3>1 DEF AsksOK
    <3>4. \A j \in DOMAIN ops'.buf : ops'.buf[j] = ops'.buf[k] => j = k
      BY <2>2, <3>3
    <3>. QED  BY <2>1, <2>2, <2>3, <3>1, <3>2, <3>4 DEF Awaited, Handled
  <2>8. op'.do \in Asks => Awaited(op)'
    BY <2>1, <2>2, <2>3, <2>4 DEF AsksOK, Awaited
  <2>. QED  BY <2>6, <2>7, <2>8 DEF AsksOK, Handled, Awaited
<1>10. ASSUME CompleteDrain \/ ApplySubmission \/ ApplyShellResult \/ QuitSession
              \/ ShutdownSession \/ CloseDispatcher \/ Finish \/ Signal
       PROVE  AsksOK'
  BY <1>10, AsksFrame, Programs, Goroutines, Constants
  DEF Waiters, CompleteDrain, ExecOK, CallsOK, Asks, Submissions, ApplySubmission, At,
      ApplyShellResult, QuitSession, DownSession, ShutdownSession, CloseDispatcher, Finish, Signal
<1>11. ASSUME ApplyRequest
       PROVE  AsksOK'
  <2>1. /\ pc[Exec] = "apply" /\ op.do \in Asks /\ pc' = [pc EXCEPT ![Exec] = "after"]
        /\ ops' = ops /\ op' = op /\ call' = call
        /\ result' = [result EXCEPT ![op.by] = Reply(room)]
    BY <1>11 DEF ApplyRequest, At
  <2>2. Awaited(op)
    BY <2>1 DEF AsksOK
  <2>3. pc'[Exec] = "after" /\ \A u \in Users : pc'[u] = pc[u]
    BY <2>1, Programs, Goroutines
  <2>4. result'[op.by].ok /\ \A u \in Users : u # op.by => result'[u] = result[u]
    BY <2>1, <2>2, Types, Goroutines DEF Awaited, Reply
  <2>5. \A u \in Users : pc'[u] = "wait" =>
           result'[u].ok \/ \E k \in DOMAIN ops'.buf : ops'.buf[k] = call'[u]
    BY <2>1, <2>2, <2>3, <2>4, Goroutines DEF AsksOK, CallsOK, Handled, Awaited
  <2>6. \A k \in DOMAIN ops.buf : ops.buf[k].do \in Asks => ops.buf[k].by # op.by
    BY <2>1, <2>2 DEF AsksOK, Handled, Awaited
  <2>7. \A k \in DOMAIN ops.buf : ops.buf[k].do \in Asks => Awaited(ops.buf[k])'
    BY <2>1, <2>3, <2>4, <2>6 DEF AsksOK, Awaited
  <2>. QED  BY <2>1, <2>3, <2>5, <2>7 DEF AsksOK, Handled, Awaited
<1>12. ASSUME AwaitShells
       PROVE  AsksOK'
  <2>1. ops'.buf = ops.buf
    BY <1>12, Types, ClosedIs DEF AwaitShells
  <2>. QED  BY <1>12, <2>1, AsksFrame, Programs, Goroutines, Constants
            DEF Waiters, AwaitShells, ExecOK, Asks
<1>13. ASSUME NEW u \in Users, Call(u)
       PROVE  AsksOK'
  BY <1>13, AsksFrame, Programs, Goroutines, Constants
  DEF Waiters, Call, ExecOK, CallsOK, Asks, Submissions
<1>14. ASSUME NEW n \in Notifiers, Record(n)
       PROVE  AsksOK'
  BY <1>14, AsksFrame, Programs, Goroutines, Constants
  DEF Waiters, Record, ExecOK, CallsOK, Asks, Submissions
<1>15. ASSUME ProgramEnds \/ UNCHANGED vars
       PROVE  AsksOK'
  BY <1>15, AsksFrame, Programs, Goroutines, Constants
  DEF Waiters, ProgramEnds, Leave, ExecOK, CallsOK, Asks, Submissions, vars
<1>. QED  BY <1>1, <1>2, <1>3, <1>4, <1>5, <1>6, <1>7, <1>8, <1>9, <1>10, <1>11, <1>12, <1>13,
             <1>14, <1>15 DEF Next, Step, RequestClose, Executing

\* No request starts with the answer of the one before.
LEMMA FreshKept ==
    ASSUME Typed, CallsOK, AsksOK, FreshOK, [Next]_vars
    PROVE  FreshOK'
<1>. USE DEF Ending, gate, lifetime, mail, model, dispatcher, replies, history, Others, Goto
<1>1. ASSUME NEW p \in Procs, Enqueue(p)
      PROVE  FreshOK'
  BY <1>1, Programs, Types, Goroutines, Constants DEF FreshOK, Enqueue, Refused, Returns
<1>2. ASSUME NEW p \in Procs, Push(p)
      PROVE  FreshOK'
  BY <1>2, Programs, Types, Goroutines, Constants DEF FreshOK, Push, Returns
<1>3. ASSUME NEW p \in Procs, BeginClose(p)
      PROVE  FreshOK'
  BY <1>3, Programs, Types, Goroutines, Constants DEF FreshOK, BeginClose
<1>4. ASSUME NEW p \in Procs, AlreadyClosing(p)
      PROVE  FreshOK'
  BY <1>4, Programs, Types, Goroutines, Constants DEF FreshOK, AlreadyClosing, Requested
<1>5. ASSUME NEW p \in Procs, PushShutdown(p)
      PROVE  FreshOK'
  BY <1>5, Programs, Types, Goroutines, Constants DEF FreshOK, PushShutdown, Requested
<1>6. ASSUME NEW p \in Procs, Closed(p)
      PROVE  FreshOK'
  BY <1>6, Programs, Types, Goroutines, Constants DEF FreshOK, Closed
<1>7. ASSUME NEW u \in Users, Answered(u)
      PROVE  FreshOK'
  BY <1>7, Programs, Types, Goroutines, Constants DEF FreshOK, Answered
<1>8. ASSUME NEW u \in Users, Abandoned(u)
      PROVE  FreshOK'
  BY <1>8, Programs, Types, Goroutines, Constants DEF FreshOK, Abandoned
<1>9. ASSUME NEW s \in Shells, NEW killed \in BOOLEAN, ShellEnds(s, killed)
      PROVE  FreshOK'
  BY <1>9, Programs, Types, Goroutines, Constants DEF FreshOK, ShellEnds
<1>10. ASSUME Watch \/ ProgramQuits \/ Dispatch \/ Delivered \/ DispatcherStops \/ PullOperation
              \/ Settle \/ Settled
       PROVE  FreshOK'
  BY <1>10, Programs, Types, Goroutines, Constants
  DEF FreshOK, Watch, ProgramQuits, Leave, Dispatch, Delivered, DispatcherStops, PullOperation,
      Settle, ApplyBurst, Settled
<1>11. ASSUME DrainEvents \/ CompleteDrain \/ ApplySubmission \/ ApplyShellResult \/ QuitSession
              \/ ShutdownSession \/ AwaitShells \/ CloseDispatcher
       PROVE  FreshOK'
  BY <1>11, Programs, Types, Goroutines, Constants
  DEF FreshOK, DrainEvents, At, CompleteDrain, ApplySubmission, ApplyShellResult, QuitSession,
      DownSession, ShutdownSession, AwaitShells, CloseDispatcher
<1>12. ASSUME ApplyRequest
       PROVE  FreshOK'
  <2>1. /\ result' = [result EXCEPT ![op.by] = Reply(room)] /\ pc' = [pc EXCEPT ![Exec] = "after"]
        /\ op.do \in Asks /\ pc[Exec] = "apply"
    BY <1>12 DEF ApplyRequest, At
  <2>2. pc[op.by] = "wait" /\ op.by \in Users
    BY <2>1 DEF AsksOK, Awaited
  <2>. QED  BY <2>1, <2>2, Programs, Types, Goroutines DEF FreshOK
<1>13. ASSUME Finish \/ Signal \/ ProgramEnds \/ UNCHANGED vars
       PROVE  FreshOK'
  BY <1>13, Programs, Types, Goroutines, Constants
  DEF FreshOK, Finish, Signal, ProgramEnds, Leave, vars
<1>14. ASSUME NEW u \in Users, Call(u)
       PROVE  FreshOK'
  BY <1>14, Programs, Types, Goroutines, Constants DEF FreshOK, Call, NoResult
<1>15. ASSUME NEW n \in Notifiers, Record(n)
       PROVE  FreshOK'
  BY <1>15, Programs, Types, Goroutines, Constants DEF FreshOK, Record
<1>. QED  BY <1>1, <1>2, <1>3, <1>4, <1>5, <1>6, <1>7, <1>8, <1>9, <1>10, <1>11, <1>12, <1>13,
             <1>14, <1>15 DEF Next, Step, RequestClose, Executing

\* Accepted submissions are applied in their order, none skipped.
LEMMA OrderKept ==
    ASSUME Typed, GateOK, CallsOK, ShutdownLast, ExecOK, AsksOK, OrderOK, SeenOK, [Next]_vars
    PROVE  OrderOK'
<1>. USE DEF Ending, gate, lifetime, mail, model, dispatcher, replies, history, Others, Goto
<1>1. ASSUME NEW p \in Procs, Enqueue(p)
      PROVE  OrderOK'
  <2>1. /\ ops' = ops /\ op' = op /\ accepted' = accepted /\ room' = room /\ seen' = seen
        /\ pc[p] = "enqueue"
        /\ \E l \in {"idle", "ended", "push"} : pc' = [pc EXCEPT ![p] = l]
    BY <1>1 DEF Enqueue, Refused, Returns
  <2>2. p # Exec
    BY <2>1, Goroutines DEF ExecOK, Ending
  <2>. QED  BY <2>1, <2>2, OrderFrame, Programs, Goroutines
<1>2. ASSUME NEW p \in Procs, Push(p)
      PROVE  OrderOK'
  <2>1. /\ Grown(call[p]) /\ op' = op /\ pc[p] = "push" /\ room' = room
        /\ seen' = [seen EXCEPT ![p] = Shown(room.events + inbox, Len(accepted))]
        /\ \E l \in {"wait", "idle", "ended"} : pc' = [pc EXCEPT ![p] = l]
    BY <1>2, PushGrows DEF Push, Returns
  <2>2. p # Exec
    BY <2>1, Goroutines DEF ExecOK, Ending
  <2>3. Base' = Base /\ (pc'[Exec] = "apply" <=> pc[Exec] = "apply")
    BY <2>1, <2>2, Programs, Goroutines DEF Base
  <2>4. /\ DOMAIN ops.buf = 1 .. Len(ops.buf) /\ Len(ops.buf) \in Nat
        /\ accepted \in Seq(Operations) /\ Len(accepted) \in Nat
        /\ DOMAIN accepted = 1 .. Len(accepted) /\ call[p] \in Operations
        /\ room.lines \in Nat /\ Base \in Nat
    BY Buffers, Types DEF Base
  <2>5. \A k \in DOMAIN ops.buf : ops.buf[k].do \in Asks =>
            /\ seen'[ops.buf[k].by] = seen[ops.buf[k].by]
            /\ seen[ops.buf[k].by].lines <= Len(accepted)
            /\ seen[ops.buf[k].by].lines \in Nat
    <3>1. \A k \in DOMAIN ops.buf : ops.buf[k].do \in Asks =>
              /\ ops.buf[k].by # p /\ ops.buf[k].by \in Procs
              /\ seen[ops.buf[k].by].lines <= Len(accepted)
      BY <2>1, Goroutines DEF AsksOK, Awaited, SeenOK, SeenOf
    <3>2. \A q \in Procs : seen[q].lines \in Nat
      BY Types DEF Versions
    <3>. QED  BY <2>1, <3>1, <3>2, Types
  <2>6. PICK f : Queued(f) /\ Behind(f)
    BY DEF OrderOK
  <2>9. /\ f \in [Base + 1 .. Len(accepted) -> DOMAIN ops.buf]
        /\ \A m \in DOMAIN f : ops.buf[f[m]] = accepted[m]
        /\ \A m, n \in DOMAIN f : m < n => f[m] < f[n]
        /\ \A k \in DOMAIN ops.buf : ops.buf[k].do \in Submissions => \E m \in DOMAIN f : f[m] = k
        /\ \A k \in DOMAIN ops.buf : ops.buf[k].do \in Asks =>
               \A m \in DOMAIN f : m <= seen[ops.buf[k].by].lines => f[m] < k
    BY <2>6 DEF Queued, Behind
  <2>10. /\ DOMAIN ops'.buf = 1 .. Len(ops.buf) + 1
         /\ \A k \in DOMAIN ops.buf : ops'.buf[k] = ops.buf[k]
         /\ ops'.buf[Len(ops.buf) + 1] = call[p]
    BY <2>1, <2>4 DEF Grown
  <2>7. CASE call[p].do \in Submissions
    <3>1. /\ accepted' = Append(accepted, call[p]) /\ Len(accepted') = Len(accepted) + 1
          /\ DOMAIN accepted' = 1 .. Len(accepted) + 1
          /\ \A m \in 1 .. Len(accepted) : accepted'[m] = accepted[m]
          /\ accepted'[Len(accepted) + 1] = call[p]
      BY <1>2, <2>4, <2>7, AppendedIs DEF Push
    <3>0. PICK h : h = [m \in Base + 1 .. Len(accepted) + 1 |->
                           IF m = Len(accepted) + 1 THEN Len(ops.buf) + 1 ELSE f[m]]
      OBVIOUS
    <3>2. \A m \in Base + 1 .. Len(accepted) + 1 :
              m = Len(accepted) + 1 \/ (m \in DOMAIN f /\ m \in 1 .. Len(accepted))
      BY <2>4, <2>9
    <3>3. /\ h[Len(accepted) + 1] = Len(ops.buf) + 1
          /\ \A m \in DOMAIN f : h[m] = f[m] /\ f[m] \in 1 .. Len(ops.buf) /\ m <= Len(accepted)
      BY <2>4, <2>9, <3>0 DEF OrderOK
    <3>4. /\ h \in [Base + 1 .. Len(accepted) + 1 -> 1 .. Len(ops.buf) + 1]
          /\ DOMAIN h = Base + 1 .. Len(accepted) + 1
      <4>1. \A m \in Base + 1 .. Len(accepted) + 1 : h[m] \in 1 .. Len(ops.buf) + 1
        BY <2>4, <3>2, <3>3
      <4>. QED  BY <3>0, <4>1
    <3>5. \A m \in DOMAIN h : ops'.buf[h[m]] = accepted'[m]
      <4>1. SUFFICES ASSUME NEW m \in DOMAIN h
            PROVE  ops'.buf[h[m]] = accepted'[m]
        OBVIOUS
      <4>2. CASE m = Len(accepted) + 1
        BY <2>10, <3>1, <3>3, <4>2
      <4>3. CASE m \in DOMAIN f /\ m \in 1 .. Len(accepted)
        BY <2>9, <2>10, <3>1, <3>3, <4>3
      <4>. QED  BY <3>2, <3>4, <4>2, <4>3
    <3>6. \A m, n \in DOMAIN h : m < n => h[m] < h[n]
      <4>1. SUFFICES ASSUME NEW m \in DOMAIN h, NEW n \in DOMAIN h, m < n
            PROVE  h[m] < h[n]
        OBVIOUS
      <4>2. m \in DOMAIN f
        BY <2>4, <3>2, <3>4, <4>1
      <4>3. CASE n = Len(accepted) + 1
        BY <2>4, <3>3, <4>2, <4>3
      <4>4. CASE n \in DOMAIN f
        BY <2>9, <3>3, <4>1, <4>2, <4>4
      <4>. QED  BY <3>2, <3>4, <4>3, <4>4
    <3>7. \A k \in DOMAIN ops'.buf : ops'.buf[k].do \in Submissions => \E m \in DOMAIN h : h[m] = k
      <4>1. Len(accepted) + 1 \in DOMAIN h /\ \A m \in DOMAIN f : m \in DOMAIN h
        BY <2>4, <2>9, <3>4 DEF OrderOK
      <4>. QED  BY <2>4, <2>9, <2>10, <3>3, <4>1
    <3>8. Queued(h)'
      BY <2>3, <2>10, <3>1, <3>4, <3>5, <3>6, <3>7 DEF Queued
    <3>9. \A k \in DOMAIN ops'.buf : ops'.buf[k].do \in Asks =>
              \A m \in DOMAIN h : m <= seen'[ops'.buf[k].by].lines => h[m] < k
      <4>1. SUFFICES ASSUME NEW k \in DOMAIN ops'.buf, ops'.buf[k].do \in Asks,
                            NEW m \in DOMAIN h, m <= seen'[ops'.buf[k].by].lines
                     PROVE  h[m] < k
        OBVIOUS
      <4>2. k \in DOMAIN ops.buf /\ ops'.buf[k] = ops.buf[k]
        BY <2>4, <2>7, <2>10, <4>1 DEF Asks, Submissions
      <4>3. m <= seen[ops.buf[k].by].lines /\ m <= Len(accepted)
        BY <2>4, <2>5, <3>4, <4>1, <4>2
      <4>4. m \in DOMAIN f /\ h[m] = f[m]
        BY <2>4, <3>2, <3>3, <3>4, <4>3
      <4>. QED  BY <2>9, <4>1, <4>2, <4>3, <4>4
    <3>10. Behind(h)'
      BY <3>9 DEF Behind
    <3>11. /\ \A m \in DOMAIN accepted' : accepted'[m].do \in Submissions
           /\ Base' <= Len(accepted')
           /\ pc'[Exec] = "apply" /\ op'.do \in Submissions => op' = accepted'[Base']
      <4>1. pc[Exec] = "apply" /\ op.do \in Submissions => Base \in 1 .. Len(accepted)
        BY <2>4 DEF OrderOK, Base
      <4>. QED  BY <2>1, <2>3, <2>4, <2>7, <3>1, <4>1 DEF OrderOK
    <3>. QED  BY <3>8, <3>10, <3>11 DEF OrderOK
  <2>8. CASE call[p].do \notin Submissions
    <3>1. accepted' = accepted
      BY <1>2, <2>8 DEF Push
    <3>2. Queued(f)'
      <4>1. f \in [Base + 1 .. Len(accepted) -> DOMAIN ops'.buf]
        BY <2>4, <2>9, <2>10
      <4>2. \A m \in DOMAIN f : ops'.buf[f[m]] = accepted[m]
        BY <2>9, <2>10
      <4>3. \A k \in DOMAIN ops'.buf :
                ops'.buf[k].do \in Submissions => \E m \in DOMAIN f : f[m] = k
        <5>1. SUFFICES ASSUME NEW k \in DOMAIN ops'.buf, ops'.buf[k].do \in Submissions
                       PROVE  \E m \in DOMAIN f : f[m] = k
          OBVIOUS
        <5>2. k # Len(ops.buf) + 1
          BY <2>8, <2>10, <5>1
        <5>3. k \in DOMAIN ops.buf
          BY <2>4, <2>10, <5>1, <5>2
        <5>4. ops'.buf[k] = ops.buf[k]
          BY <2>10, <5>3
        <5>. QED  BY <2>9, <5>1, <5>3, <5>4
      <4>. QED  BY <2>3, <2>9, <3>1, <4>1, <4>2, <4>3 DEF Queued
    <3>3. Behind(f)'
      <4>1. \A k \in DOMAIN ops.buf : ops'.buf[k].do \in Asks =>
                \A m \in DOMAIN f : m <= seen'[ops'.buf[k].by].lines => f[m] < k
        BY <2>5, <2>9, <2>10
      <4>2. \A m \in DOMAIN f : f[m] < Len(ops.buf) + 1
        BY <2>4, <2>9
      <4>. QED  BY <2>4, <2>10, <4>1, <4>2 DEF Behind
    <3>. QED  BY <2>1, <2>3, <3>1, <3>2, <3>3 DEF OrderOK
  <2>. QED  BY <2>7, <2>8
<1>3. ASSUME NEW p \in Procs, BeginClose(p) \/ AlreadyClosing(p) \/ Closed(p)
      PROVE  OrderOK'
  BY <1>3, OrderFrame, CountsTyped, Programs, Types, Goroutines, Constants
  DEF BeginClose, ExecOK, Asks, Submissions, AlreadyClosing, Requested, Closed
<1>4. ASSUME NEW p \in Procs, PushShutdown(p)
      PROVE  OrderOK'
  <2>1. /\ Grown(Shutdown) /\ op' = op /\ pc[p] = "stop" /\ room' = room /\ seen' = seen
        /\ accepted' = accepted
        /\ pc' = [pc EXCEPT ![p] = Requested(p)] /\ Requested(p) # "apply"
    BY <1>4, ShutdownGrows DEF PushShutdown, Requested
  <2>2. Base' = Base /\ (pc'[Exec] = "apply" <=> pc[Exec] = "apply")
    BY <2>1, Programs, Goroutines DEF Base
  <2>3. /\ DOMAIN ops.buf = 1 .. Len(ops.buf) /\ Len(ops.buf) \in Nat
        /\ Shutdown.do \notin Asks \cup Submissions
    BY Buffers DEF Shutdown, Operation, Asks, Submissions
  <2>4. PICK f : Queued(f) /\ Behind(f)
    BY DEF OrderOK
  <2>5. /\ DOMAIN ops'.buf = 1 .. Len(ops.buf) + 1
        /\ \A k \in DOMAIN ops.buf : ops'.buf[k] = ops.buf[k]
        /\ ops'.buf[Len(ops.buf) + 1] = Shutdown
    BY <2>1, <2>3 DEF Grown
  <2>6. \A k \in DOMAIN ops'.buf : ops'.buf[k].do \in Asks \cup Submissions => k \in DOMAIN ops.buf
    BY <2>3, <2>5
  <2>7. Queued(f)'
    <3>1. f \in [Base + 1 .. Len(accepted) -> DOMAIN ops'.buf]
      BY <2>3, <2>4, <2>5 DEF Queued
    <3>. QED  BY <2>1, <2>2, <2>4, <2>5, <2>6, <3>1 DEF Queued
  <2>8. Behind(f)'
    BY <2>1, <2>4, <2>5, <2>6 DEF Behind
  <2>. QED  BY <2>1, <2>2, <2>7, <2>8 DEF OrderOK
<1>5. ASSUME NEW u \in Users, Answered(u)
      PROVE  OrderOK'
  BY <1>5, OrderFrame, CountsTyped, Programs, Types, Goroutines, Constants
  DEF Answered, ExecOK, Asks, Submissions
<1>6. ASSUME NEW u \in Users, Abandoned(u)
      PROVE  OrderOK'
  BY <1>6, OrderFrame, CountsTyped, Programs, Types, Goroutines, Constants
  DEF Abandoned, ExecOK, Asks, Submissions
<1>7. ASSUME NEW s \in Shells, NEW killed \in BOOLEAN, ShellEnds(s, killed)
      PROVE  OrderOK'
  BY <1>7, OrderFrame, CountsTyped, Programs, Types, Goroutines, Constants
  DEF ShellEnds, ExecOK, Asks, Submissions
<1>8. ASSUME Watch \/ ProgramQuits \/ Dispatch \/ Delivered \/ DispatcherStops \/ Settle
             \/ Settled \/ DrainEvents
      PROVE  OrderOK'
  BY <1>8, OrderFrame, CountsTyped, Programs, Types, Goroutines, Constants
  DEF Watch, ExecOK, Asks, Submissions, ProgramQuits, Leave, Dispatch, Delivered, DispatcherStops,
      Settle, ApplyBurst, Settled, DrainEvents, At
<1>9. ASSUME PullOperation
      PROVE  OrderOK'
  <2>1. /\ pc[Exec] = "pull" /\ pc' = [pc EXCEPT ![Exec] = "apply"]
        /\ room' = room /\ seen' = seen /\ accepted' = accepted
    BY <1>9 DEF PullOperation
  <2>2. /\ Len(ops.buf) \in Nat /\ Len(ops.buf) >= 1 /\ op' = ops.buf[1]
        /\ DOMAIN ops.buf = 1 .. Len(ops.buf)
        /\ DOMAIN ops'.buf = 1 .. Len(ops.buf) - 1
        /\ \A k \in 1 .. Len(ops.buf) - 1 : ops'.buf[k] = ops.buf[k + 1]
    BY <1>9, PullShrinks, Buffers
  <2>3. pc'[Exec] = "apply"
    BY <2>1, Programs, Goroutines
  <2>4. /\ Base = room.lines /\ Base \in Nat /\ Len(accepted) \in Nat
        /\ Base' = room.lines + (IF op'.do \in Submissions THEN 1 ELSE 0) /\ Base' \in Nat
        /\ DOMAIN accepted = 1 .. Len(accepted) /\ Base <= Len(accepted)
    BY <2>1, <2>3, Types DEF Base, OrderOK
  <2>5. PICK f : Queued(f) /\ Behind(f)
    BY DEF OrderOK
  <2>6. /\ f \in [Base + 1 .. Len(accepted) -> DOMAIN ops.buf]
        /\ DOMAIN f = Base + 1 .. Len(accepted)
        /\ \A m \in DOMAIN f : ops.buf[f[m]] = accepted[m]
        /\ \A m, n \in DOMAIN f : m < n => f[m] < f[n]
        /\ \A k \in DOMAIN ops.buf : ops.buf[k].do \in Submissions => \E m \in DOMAIN f : f[m] = k
        /\ \A k \in DOMAIN ops.buf : ops.buf[k].do \in Asks =>
               \A m \in DOMAIN f : m <= seen[ops.buf[k].by].lines => f[m] < k
    BY <2>5 DEF Queued, Behind
  <2>7. op'.do \in Submissions =>
            Base + 1 <= Len(accepted) /\ f[Base + 1] = 1 /\ op' = accepted[Base + 1]
    <3>1. SUFFICES ASSUME op'.do \in Submissions
          PROVE  Base + 1 <= Len(accepted) /\ f[Base + 1] = 1 /\ op' = accepted[Base + 1]
      OBVIOUS
    <3>2. PICK m \in DOMAIN f : f[m] = 1
      BY <2>2, <2>6, <3>1
    <3>3. Base + 1 \in DOMAIN f /\ Base + 1 <= m /\ m \in Nat
      BY <2>4, <2>6
    <3>4. f[Base + 1] \in 1 .. Len(ops.buf)
      BY <2>2, <2>6, <3>3
    <3>5. Base + 1 = m
      BY <2>2, <2>4, <2>6, <3>2, <3>3, <3>4
    <3>. QED  BY <2>2, <2>4, <2>6, <3>2, <3>3, <3>5
  <2>8. /\ Base' <= Len(accepted)
        /\ op'.do \in Submissions => op' = accepted[Base']
        /\ \A m \in Base' + 1 .. Len(accepted) :
               m \in DOMAIN f /\ f[m] \in 2 .. Len(ops.buf) /\ f[m] # 1
    <3>1. CASE op'.do \in Submissions
      <4>1. Base' = Base + 1 /\ Base + 1 \in DOMAIN f
        BY <2>4, <2>6, <2>7, <3>1
      <4>2. \A m \in Base' + 1 .. Len(accepted) :
                m \in DOMAIN f /\ f[m] \in 1 .. Len(ops.buf) /\ Base + 1 < m
        BY <2>2, <2>4, <2>6, <4>1
      <4>3. \A m \in Base' + 1 .. Len(accepted) : f[m] > 1
        BY <2>6, <2>7, <3>1, <4>1, <4>2
      <4>. QED  BY <2>2, <2>4, <2>7, <3>1, <4>1, <4>2, <4>3
    <3>2. CASE op'.do \notin Submissions
      <4>1. Base' = Base
        BY <2>4, <3>2
      <4>2. \A m \in Base' + 1 .. Len(accepted) :
                m \in DOMAIN f /\ f[m] \in 1 .. Len(ops.buf) /\ m \in DOMAIN accepted
        BY <2>2, <2>4, <2>6, <4>1
      <4>3. \A m \in Base' + 1 .. Len(accepted) : f[m] # 1
        BY <2>2, <2>6, <3>2, <4>2 DEF OrderOK
      <4>. QED  BY <2>2, <2>4, <3>2, <4>1, <4>2, <4>3
    <3>. QED  BY <3>1, <3>2
  <2>12. PICK h : h = [m \in Base' + 1 .. Len(accepted) |-> f[m] - 1]
    OBVIOUS
  <2>9. \A m \in Base' + 1 .. Len(accepted) :
            /\ h[m] = f[m] - 1 /\ h[m] \in 1 .. Len(ops.buf) - 1 /\ h[m] + 1 = f[m]
            /\ ops'.buf[h[m]] = ops.buf[f[m]]
    BY <2>2, <2>8, <2>12
  <2>10. Queued(h)'
    <3>1. h \in [Base' + 1 .. Len(accepted) -> DOMAIN ops'.buf]
      BY <2>2, <2>9, <2>12
    <3>2. \A m \in DOMAIN h : ops'.buf[h[m]] = accepted[m]
      BY <2>6, <2>8, <2>9, <3>1
    <3>3. \A m, n \in DOMAIN h : m < n => h[m] < h[n]
      <4>1. SUFFICES ASSUME NEW m \in Base' + 1 .. Len(accepted),
                            NEW n \in Base' + 1 .. Len(accepted), m < n
            PROVE  h[m] < h[n]
        BY <3>1
      <4>2. f[m] < f[n] /\ f[m] \in 2 .. Len(ops.buf) /\ f[n] \in 2 .. Len(ops.buf)
        BY <2>6, <2>8, <4>1
      <4>. QED  BY <2>2, <2>9, <4>1, <4>2
    <3>4. \A k \in DOMAIN ops'.buf : ops'.buf[k].do \in Submissions => \E m \in DOMAIN h : h[m] = k
      <4>1. SUFFICES ASSUME NEW k \in DOMAIN ops'.buf, ops'.buf[k].do \in Submissions
            PROVE  \E m \in DOMAIN h : h[m] = k
        OBVIOUS
      <4>2. k + 1 \in DOMAIN ops.buf /\ ops'.buf[k] = ops.buf[k + 1] /\ k \in Nat /\ k >= 1
        BY <2>2
      <4>3. PICK m \in DOMAIN f : f[m] = k + 1
        BY <2>6, <4>1, <4>2
      <4>4. m \in Base' + 1 .. Len(accepted)
        <5>1. op'.do \in Submissions => m # Base + 1
          BY <2>7, <4>2, <4>3
        <5>. QED  BY <2>4, <2>6, <4>3, <5>1
      <4>. QED  BY <2>9, <3>1, <4>2, <4>3, <4>4
    <3>. QED  BY <2>1, <3>1, <3>2, <3>3, <3>4 DEF Queued
  <2>11. Behind(h)'
    <3>1. \A k \in DOMAIN ops'.buf : ops'.buf[k].do \in Asks =>
              \A m \in Base' + 1 .. Len(accepted) : m <= seen[ops'.buf[k].by].lines => h[m] < k
      <4>1. SUFFICES ASSUME NEW k \in DOMAIN ops'.buf, ops'.buf[k].do \in Asks,
                            NEW m \in Base' + 1 .. Len(accepted), m <= seen[ops'.buf[k].by].lines
            PROVE  h[m] < k
        OBVIOUS
      <4>2. k + 1 \in DOMAIN ops.buf /\ ops'.buf[k] = ops.buf[k + 1] /\ k \in Nat
        BY <2>2
      <4>3. f[m] < k + 1 /\ f[m] \in 2 .. Len(ops.buf)
        BY <2>6, <2>8, <4>1, <4>2
      <4>. QED  BY <2>2, <2>9, <4>2, <4>3
    <3>2. DOMAIN h = Base' + 1 .. Len(accepted)
      BY <2>12
    <3>. QED  BY <2>1, <3>1, <3>2 DEF Behind
  <2>. QED  BY <2>1, <2>8, <2>10, <2>11 DEF OrderOK
<1>10. ASSUME CompleteDrain \/ ApplyRequest \/ ApplyShellResult \/ QuitSession
              \/ ShutdownSession \/ CloseDispatcher \/ Finish \/ Signal
       PROVE  OrderOK'
  BY <1>10, OrderFrame, CountsTyped, Programs, Types, Goroutines, Constants
  DEF CompleteDrain, ExecOK, Asks, Submissions, ApplyRequest, At, ApplyShellResult, QuitSession,
      DownSession, ShutdownSession, CloseDispatcher, Finish, Signal
<1>11. ASSUME ApplySubmission
       PROVE  OrderOK'
  <2>1. /\ pc[Exec] = "apply" /\ op.do \in Submissions
        /\ ops' = ops /\ op' = op /\ seen' = seen /\ accepted' = accepted
        /\ room'.lines = room.lines + 1
    BY <1>11, CountsTyped DEF ApplySubmission, At
  <2>2. pc'[Exec] # "apply"
    BY <1>11, Programs, Goroutines DEF ApplySubmission
  <2>3. Base' = Base
    BY <2>1, <2>2, Types DEF Base
  <2>. QED  BY <2>1, <2>2, <2>3 DEF OrderOK, Queued, Behind
<1>12. ASSUME AwaitShells
       PROVE  OrderOK'
  <2>1. ops'.buf = ops.buf
    BY <1>12, Types, ClosedIs DEF AwaitShells
  <2>. QED  BY <1>12, <2>1, OrderFrame, Programs, Goroutines DEF AwaitShells
<1>13. ASSUME NEW u \in Users, Call(u)
       PROVE  OrderOK'
  BY <1>13, OrderFrame, CountsTyped, Programs, Types, Goroutines, Constants
  DEF Call, ExecOK, Asks, Submissions
<1>14. ASSUME NEW n \in Notifiers, Record(n)
       PROVE  OrderOK'
  BY <1>14, OrderFrame, CountsTyped, Programs, Types, Goroutines, Constants
  DEF Record, ExecOK, Asks, Submissions
<1>15. ASSUME ProgramEnds \/ UNCHANGED vars
       PROVE  OrderOK'
  BY <1>15, OrderFrame, CountsTyped, Programs, Types, Goroutines, Constants
  DEF ProgramEnds, Leave, ExecOK, Asks, Submissions, vars
<1>. QED  BY <1>1, <1>2, <1>3, <1>4, <1>5, <1>6, <1>7, <1>8, <1>9, <1>10, <1>11, <1>12, <1>13,
             <1>14, <1>15 DEF Next, Step, RequestClose, Executing

\* Outcomes are delivered in the order of acceptance, none skipped.
LEMMA FlushKept ==
    ASSUME Typed, Typed', OrderOK, FlushOK, [Next]_vars
    PROVE  FlushOK'
<1>. USE DEF Ending, gate, lifetime, mail, model, dispatcher, replies, history, Others, Goto
<1>1. ASSUME NEW p \in Procs, Enqueue(p) \/ BeginClose(p) \/ AlreadyClosing(p)
                              \/ PushShutdown(p) \/ Closed(p)
      PROVE  FlushOK'
  BY <1>1, FlushFrame
  DEF Enqueue, Refused, Returns, BeginClose, AlreadyClosing, Requested, PushShutdown, Closed
<1>2. ASSUME NEW p \in Procs, Push(p)
      PROVE  FlushOK'
  <2>1. dispatch' = dispatch /\ answered' = answered /\ room' = room
    BY <1>2 DEF Push
  <2>2. accepted \in Seq(Operations) /\ call[p] \in Operations
    BY Types
  <2>3. \A m \in 1 .. Len(accepted) : accepted'[m] = accepted[m]
    BY <1>2, <2>2, AppendedIs DEF Push
  <2>. QED  BY <2>1, <2>3, FlushFrame
<1>3. ASSUME NEW u \in Users, Answered(u)
      PROVE  FlushOK'
  BY <1>3, FlushFrame DEF Answered
<1>4. ASSUME NEW u \in Users, Abandoned(u)
      PROVE  FlushOK'
  BY <1>4, FlushFrame DEF Abandoned
<1>5. ASSUME NEW s \in Shells, NEW killed \in BOOLEAN, ShellEnds(s, killed)
      PROVE  FlushOK'
  BY <1>5, FlushFrame DEF ShellEnds
<1>6. ASSUME Watch \/ ProgramQuits \/ Delivered \/ DispatcherStops \/ PullOperation \/ Settled
             \/ DrainEvents \/ CompleteDrain
      PROVE  FlushOK'
  BY <1>6, FlushFrame
  DEF Watch, ProgramQuits, Leave, Delivered, DispatcherStops, PullOperation, Settled, DrainEvents,
      At, CompleteDrain
<1>7. ASSUME Dispatch
      PROVE  FlushOK'
  <2>1. /\ Len(dispatch.buf) \in Nat /\ Len(dispatch.buf) >= 1
        /\ DOMAIN dispatch.buf = 1 .. Len(dispatch.buf)
        /\ DOMAIN dispatch'.buf = 1 .. Len(dispatch.buf) - 1
        /\ \A k \in 1 .. Len(dispatch.buf) - 1 : dispatch'.buf[k] = dispatch.buf[k + 1]
    BY <1>7, DispatchShrinks, Buffers
  <2>2. /\ accepted' = accepted /\ room' = room
        /\ answered' = IF dispatch.buf[1].kind = "outcome"
                       THEN Append(answered, dispatch.buf[1].of) ELSE answered
    BY <1>7, DispatchShrinks DEF Dispatch
  <2>3. /\ room.lines \in Nat /\ Len(answered) \in Nat /\ Len(answered) <= room.lines
        /\ answered \in Seq(Operations) /\ DOMAIN answered = 1 .. Len(answered)
    BY Types DEF FlushOK
  <2>4. PICK g : Published(g)
    BY DEF FlushOK
  <2>5. /\ DOMAIN g = Len(answered) + 1 .. room.lines
        /\ \A m \in DOMAIN g : g[m] \in 1 .. Len(dispatch.buf) /\ m \in Nat
        /\ \A m \in DOMAIN g : dispatch.buf[g[m]] = Outcome(accepted[m])
        /\ \A m, n \in DOMAIN g : m < n => g[m] < g[n]
        /\ \A k \in DOMAIN dispatch.buf :
               dispatch.buf[k].kind = "outcome" => \E m \in DOMAIN g : g[m] = k
    BY <2>1, <2>3, <2>4 DEF Published
  <2>. DEFINE a == Len(answered) + 1
  <2>6. dispatch.buf[1].kind = "outcome" =>
            a \in DOMAIN g /\ g[a] = 1 /\ dispatch.buf[1] = Outcome(accepted[a])
    <3>1. SUFFICES ASSUME dispatch.buf[1].kind = "outcome"
          PROVE  a \in DOMAIN g /\ g[a] = 1 /\ dispatch.buf[1] = Outcome(accepted[a])
      OBVIOUS
    <3>2. PICK m \in DOMAIN g : g[m] = 1
      BY <2>1, <2>5, <3>1
    <3>3. a \in DOMAIN g /\ a <= m /\ m \in Nat /\ a \in Nat
      BY <2>3, <2>5
    <3>4. a = m
      BY <2>1, <2>5, <3>2, <3>3
    <3>. QED  BY <2>5, <3>2, <3>4
  <2>7. \A m \in DOMAIN g : dispatch.buf[1].kind # "outcome" => g[m] # 1
    <3>1. \A o : Outcome(o).kind = "outcome"
      BY DEF Outcome, Event
    <3>. QED  BY <2>5, <3>1
  <2>8. /\ Len(answered') \in Nat /\ Len(answered') <= room.lines
        /\ \A m \in DOMAIN answered' : answered'[m] = accepted[m]
        /\ \A m \in Len(answered') + 1 .. room.lines :
               m \in DOMAIN g /\ g[m] \in 2 .. Len(dispatch.buf)
        /\ \A m \in DOMAIN g : g[m] # 1 => m \in Len(answered') + 1 .. room.lines
    <3>1. CASE dispatch.buf[1].kind = "outcome"
      <4>1. dispatch.buf[1] \in Events /\ dispatch.buf[1].of \in Operations
        <5>1. dispatch.buf[1] \in Events
          BY <2>1, Buffers
        <5>. QED  BY <5>1 DEF Events
      <4>2. dispatch.buf[1].of = accepted[a]
        BY <2>6, <3>1 DEF Outcome, Event
      <4>3. /\ Len(answered') = a /\ DOMAIN answered' = 1 .. a
            /\ \A k \in 1 .. Len(answered) : answered'[k] = answered[k]
            /\ answered'[a] = accepted[a]
        BY <2>2, <2>3, <3>1, <4>1, <4>2, AppendedIs
      <4>4. \A m \in DOMAIN answered' : m = a \/ m \in DOMAIN answered
        BY <2>3, <4>3
      <4>5. \A m \in DOMAIN answered' : answered'[m] = accepted[m]
        BY <2>3, <4>3, <4>4 DEF FlushOK
      <4>6. \A m \in Len(answered') + 1 .. room.lines : m \in DOMAIN g /\ a < m
        BY <2>3, <2>5, <4>3
      <4>7. \A m \in Len(answered') + 1 .. room.lines : g[m] \in 2 .. Len(dispatch.buf)
        BY <2>1, <2>5, <2>6, <3>1, <4>6
      <4>8. \A m \in DOMAIN g : g[m] # 1 => m \in Len(answered') + 1 .. room.lines
        BY <2>3, <2>5, <2>6, <3>1, <4>3
      <4>. QED  BY <2>3, <2>5, <2>6, <3>1, <4>3, <4>5, <4>6, <4>7, <4>8
    <3>2. CASE dispatch.buf[1].kind # "outcome"
      <4>1. answered' = answered
        BY <2>2, <3>2
      <4>2. \A m \in DOMAIN g : g[m] \in 2 .. Len(dispatch.buf)
        BY <2>1, <2>5, <2>7, <3>2
      <4>. QED  BY <2>3, <2>5, <4>1, <4>2 DEF FlushOK
    <3>. QED  BY <3>1, <3>2
  <2>9. PICK h : h = [m \in Len(answered') + 1 .. room.lines |-> g[m] - 1]
    OBVIOUS
  <2>10. /\ DOMAIN h = Len(answered') + 1 .. room.lines
         /\ \A m \in DOMAIN h : /\ m \in DOMAIN g /\ h[m] = g[m] - 1
                                /\ h[m] \in 1 .. Len(dispatch.buf) - 1 /\ h[m] + 1 = g[m]
                                /\ dispatch'.buf[h[m]] = dispatch.buf[g[m]]
    BY <2>1, <2>8, <2>9
  <2>11. h \in [Len(answered') + 1 .. room.lines -> DOMAIN dispatch'.buf]
    BY <2>1, <2>9, <2>10
  <2>12. \A m \in DOMAIN h : dispatch'.buf[h[m]] = Outcome(accepted[m])
    BY <2>5, <2>10
  <2>13. \A m, n \in DOMAIN h : m < n => h[m] < h[n]
    <3>1. SUFFICES ASSUME NEW m \in DOMAIN h, NEW n \in DOMAIN h, m < n
          PROVE  h[m] < h[n]
      OBVIOUS
    <3>2. g[m] < g[n] /\ g[m] \in Nat /\ g[n] \in Nat
      BY <2>1, <2>5, <2>10, <3>1
    <3>. QED  BY <2>10, <3>2
  <2>14. \A k \in DOMAIN dispatch'.buf :
             dispatch'.buf[k].kind = "outcome" => \E m \in DOMAIN h : h[m] = k
    <3>1. SUFFICES ASSUME NEW k \in DOMAIN dispatch'.buf, dispatch'.buf[k].kind = "outcome"
          PROVE  \E m \in DOMAIN h : h[m] = k
      OBVIOUS
    <3>2. /\ k + 1 \in DOMAIN dispatch.buf /\ dispatch'.buf[k] = dispatch.buf[k + 1]
          /\ k \in Nat /\ k >= 1
      BY <2>1
    <3>3. PICK m \in DOMAIN g : g[m] = k + 1
      BY <2>5, <3>1, <3>2
    <3>4. m \in DOMAIN h
      BY <2>8, <2>10, <3>2, <3>3
    <3>. QED  BY <2>10, <3>2, <3>3, <3>4
  <2>15. Published(h)'
    BY <2>2, <2>11, <2>12, <2>13, <2>14 DEF Published
  <2>. QED  BY <2>2, <2>8, <2>15 DEF FlushOK
<1>8. ASSUME Settle
      PROVE  FlushOK'
  <2>. DEFINE s == <<StateChanged(room')>>
  <2>1. s \in Seq(Events) /\ Len(s) = 1
    BY Types, Typed', EventsTyped DEF Typed, TypeOK
  <2>2. Announced(s)
    BY <1>8, <2>1, PublishAnnounces DEF Settle, ApplyBurst
  <2>3. answered' = answered /\ accepted' = accepted /\ room'.lines = room.lines
    BY <1>8, CountsTyped DEF Settle, ApplyBurst
  <2>4. \A k \in 1 .. Len(s) : s[k].kind # "outcome"
    BY <2>1 DEF StateChanged, ExitRequested, Barrier, Event
  <2>. HIDE DEF s
  <2>. QED  BY <2>1, <2>2, <2>3, <2>4, FlushAnnounced
<1>9. ASSUME ApplySubmission
      PROVE  FlushOK'
  <2>. DEFINE s == <<StateChanged(room'), Outcome(op)>>
  <2>1. s \in Seq(Events) /\ Len(s) = 2
    BY Types, Typed', EventsTyped DEF Typed, TypeOK
  <2>2. Announced(s)
    BY <1>9, <2>1, PublishAnnounces DEF ApplySubmission, At
  <2>3. /\ answered' = answered /\ accepted' = accepted /\ room'.lines = room.lines + 1
        /\ pc[Exec] = "apply" /\ op.do \in Submissions
    BY <1>9, CountsTyped DEF ApplySubmission, At
  <2>4. s[1].kind # "outcome" /\ s[2] = Outcome(op)
    BY DEF StateChanged, Event
  <2>5. /\ room.lines \in Nat /\ Len(answered) \in Nat /\ Len(dispatch.buf) \in Nat
        /\ DOMAIN dispatch.buf = 1 .. Len(dispatch.buf) /\ Len(answered) <= room.lines
    BY Types, Buffers DEF FlushOK
  <2>6. op = accepted[room.lines + 1]
    BY <2>3 DEF OrderOK, Base
  <2>. HIDE DEF s
  <2>7. /\ DOMAIN dispatch'.buf = 1 .. Len(dispatch.buf) + 2
        /\ \A k \in DOMAIN dispatch.buf : dispatch'.buf[k] = dispatch.buf[k]
        /\ dispatch'.buf[Len(dispatch.buf) + 1].kind # "outcome"
        /\ dispatch'.buf[Len(dispatch.buf) + 2] = Outcome(op)
    BY <2>1, <2>2, <2>4, <2>5 DEF Announced
  <2>8. PICK g : Published(g)
    BY DEF FlushOK
  <2>9. /\ DOMAIN g = Len(answered) + 1 .. room.lines
        /\ \A m \in DOMAIN g :
               g[m] \in 1 .. Len(dispatch.buf) /\ m <= room.lines /\ m # room.lines + 1
        /\ \A m \in DOMAIN g : dispatch.buf[g[m]] = Outcome(accepted[m])
        /\ \A m, n \in DOMAIN g : m < n => g[m] < g[n]
        /\ \A k \in DOMAIN dispatch.buf :
               dispatch.buf[k].kind = "outcome" => \E m \in DOMAIN g : g[m] = k
    BY <2>5, <2>8 DEF Published
  <2>10. PICK h : h = [m \in Len(answered) + 1 .. room.lines + 1 |->
                          IF m = room.lines + 1 THEN Len(dispatch.buf) + 2 ELSE g[m]]
    OBVIOUS
  <2>11. /\ DOMAIN h = Len(answered) + 1 .. room.lines + 1
         /\ \A m \in DOMAIN h : m = room.lines + 1 \/ m \in DOMAIN g
         /\ room.lines + 1 \in DOMAIN h /\ h[room.lines + 1] = Len(dispatch.buf) + 2
         /\ \A m \in DOMAIN g : m \in DOMAIN h /\ h[m] = g[m]
    BY <2>5, <2>9, <2>10
  <2>12. h \in [Len(answered) + 1 .. room.lines + 1 -> DOMAIN dispatch'.buf]
    <3>1. \A m \in DOMAIN h : h[m] \in 1 .. Len(dispatch.buf) + 2
      BY <2>5, <2>9, <2>11
    <3>. QED  BY <2>7, <2>10, <2>11, <3>1
  <2>13. \A m \in DOMAIN h : dispatch'.buf[h[m]] = Outcome(accepted[m])
    <3>1. ASSUME NEW m \in DOMAIN g
          PROVE  dispatch'.buf[h[m]] = Outcome(accepted[m])
      <4>1. h[m] = g[m]
        BY <2>11
      <4>2. g[m] \in DOMAIN dispatch.buf /\ dispatch.buf[g[m]] = Outcome(accepted[m])
        BY <2>5, <2>9
      <4>3. dispatch'.buf[g[m]] = dispatch.buf[g[m]]
        BY <2>7, <4>2
      <4>. QED  BY <4>1, <4>2, <4>3
    <3>2. dispatch'.buf[h[room.lines + 1]] = Outcome(accepted[room.lines + 1])
      BY <2>6, <2>7, <2>11
    <3>. QED  BY <2>11, <3>1, <3>2
  <2>14. \A m, n \in DOMAIN h : m < n => h[m] < h[n]
    <3>1. SUFFICES ASSUME NEW m \in DOMAIN h, NEW n \in DOMAIN h, m < n
          PROVE  h[m] < h[n]
      OBVIOUS
    <3>2. m \in DOMAIN g
      BY <2>5, <2>9, <2>11, <3>1
    <3>3. CASE n = room.lines + 1
      BY <2>5, <2>9, <2>11, <3>2, <3>3
    <3>4. CASE n \in DOMAIN g
      BY <2>9, <2>11, <3>1, <3>2, <3>4
    <3>. QED  BY <2>11, <3>3, <3>4
  <2>15. \A k \in DOMAIN dispatch'.buf :
             dispatch'.buf[k].kind = "outcome" => \E m \in DOMAIN h : h[m] = k
    <3>1. \A k \in DOMAIN dispatch'.buf :
              k \in DOMAIN dispatch.buf \/ k = Len(dispatch.buf) + 1 \/ k = Len(dispatch.buf) + 2
      BY <2>5, <2>7
    <3>. QED  BY <2>7, <2>9, <2>11, <3>1
  <2>16. Published(h)'
    BY <2>3, <2>12, <2>13, <2>14, <2>15 DEF Published
  <2>. QED  BY <2>3, <2>5, <2>16 DEF FlushOK
<1>10. ASSUME ApplyRequest
       PROVE  FlushOK'
  <2>1. CASE op.do = "stage"
  <3>. DEFINE s == <<StateChanged(room)>>
      <3>1. s \in Seq(Events) /\ Len(s) = 1
      BY Types, Typed', EventsTyped DEF Typed, TypeOK
    <3>2. Announced(s)
      BY <1>10, <2>1, <3>1, PublishAnnounces DEF ApplyRequest, At
    <3>3. answered' = answered /\ accepted' = accepted /\ room'.lines = room.lines
      BY <1>10, <2>1, CountsTyped DEF ApplyRequest, At
    <3>4. \A k \in 1 .. Len(s) : s[k].kind # "outcome"
      BY <3>1 DEF StateChanged, ExitRequested, Barrier, Event
    <3>. HIDE DEF s
    <3>. QED  BY <3>1, <3>2, <3>3, <3>4, FlushAnnounced
  <2>2. CASE op.do # "stage"
    BY <1>10, <2>2, FlushFrame DEF ApplyRequest, At
  <2>. QED  BY <2>1, <2>2
<1>11. ASSUME ApplyShellResult
       PROVE  FlushOK'
  <2>. DEFINE s == <<StateChanged(room)>>
  <2>1. s \in Seq(Events) /\ Len(s) = 1
    BY Types, Typed', EventsTyped DEF Typed, TypeOK
  <2>2. Announced(s)
    BY <1>11, <2>1, PublishAnnounces DEF ApplyShellResult, At
  <2>3. answered' = answered /\ accepted' = accepted /\ room'.lines = room.lines
    BY <1>11, CountsTyped DEF ApplyShellResult, At
  <2>4. \A k \in 1 .. Len(s) : s[k].kind # "outcome"
    BY <2>1 DEF StateChanged, ExitRequested, Barrier, Event
  <2>. HIDE DEF s
  <2>. QED  BY <2>1, <2>2, <2>3, <2>4, FlushAnnounced
<1>12. ASSUME QuitSession
       PROVE  FlushOK'
  <2>. DEFINE s == <<StateChanged(room'), ExitRequested>>
  <2>1. s \in Seq(Events) /\ Len(s) = 2
    BY Types, Typed', EventsTyped DEF Typed, TypeOK
  <2>2. Announced(s)
    BY <1>12, <2>1, PublishAnnounces DEF QuitSession, DownSession
  <2>3. answered' = answered /\ accepted' = accepted /\ room'.lines = room.lines
    BY <1>12, CountsTyped DEF QuitSession, DownSession
  <2>4. \A k \in 1 .. Len(s) : s[k].kind # "outcome"
    BY <2>1 DEF StateChanged, ExitRequested, Barrier, Event
  <2>. HIDE DEF s
  <2>. QED  BY <2>1, <2>2, <2>3, <2>4, FlushAnnounced
<1>13. ASSUME ShutdownSession \/ Finish \/ Signal \/ ProgramEnds \/ UNCHANGED vars
       PROVE  FlushOK'
  BY <1>13, FlushFrame
  DEF ShutdownSession, DownSession, At, Finish, Signal, ProgramEnds, Leave, vars
<1>14. ASSUME AwaitShells
       PROVE  FlushOK'
  <2>. DEFINE s == <<Barrier>>
  <2>1. s \in Seq(Events) /\ Len(s) = 1
    BY Types, Typed', EventsTyped DEF Typed, TypeOK
  <2>2. Announced(s)
    BY <1>14, <2>1, PublishAnnounces DEF AwaitShells
  <2>3. answered' = answered /\ accepted' = accepted /\ room'.lines = room.lines
    BY <1>14, CountsTyped DEF AwaitShells
  <2>4. \A k \in 1 .. Len(s) : s[k].kind # "outcome"
    BY <2>1 DEF StateChanged, ExitRequested, Barrier, Event
  <2>. HIDE DEF s
  <2>. QED  BY <2>1, <2>2, <2>3, <2>4, FlushAnnounced
<1>15. ASSUME CloseDispatcher
       PROVE  FlushOK'
  <2>1. dispatch'.buf = dispatch.buf
    BY <1>15, Types, ClosedIs DEF CloseDispatcher
  <2>. QED  BY <1>15, <2>1, FlushFrame DEF CloseDispatcher
<1>16. ASSUME NEW u \in Users, Call(u)
       PROVE  FlushOK'
  BY <1>16, FlushFrame DEF Call
<1>17. ASSUME NEW n \in Notifiers, Record(n)
       PROVE  FlushOK'
  BY <1>17, FlushFrame DEF Record
<1>. QED  BY <1>1, <1>2, <1>3, <1>4, <1>5, <1>6, <1>7, <1>8, <1>9, <1>10, <1>11, <1>12, <1>13,
             <1>14, <1>15, <1>16, <1>17 DEF Next, Step, RequestClose, Executing

\* Nobody is shown more than there is, and the cache is current.
LEMMA ShownKept ==
    ASSUME Typed, Typed', ShownOK, [Next]_vars
    PROVE  ShownOK'
<1>. USE DEF Ending, gate, lifetime, mail, model, dispatcher, replies, history, Others, Goto
<1>1. ASSUME NEW p \in Procs, Enqueue(p) \/ Push(p) \/ BeginClose(p) \/ AlreadyClosing(p)
                              \/ PushShutdown(p) \/ Closed(p)
      PROVE  ShownOK'
  BY <1>1, ShownFrame
  DEF ShownOK, Enqueue, Refused, Returns, Push, BeginClose, AlreadyClosing, Requested, PushShutdown,
      Closed
<1>2. ASSUME NEW u \in Users, Answered(u)
      PROVE  ShownOK'
  BY <1>2, ShownFrame DEF ShownOK, Answered
<1>3. ASSUME NEW u \in Users, Abandoned(u)
      PROVE  ShownOK'
  BY <1>3, ShownFrame DEF ShownOK, Abandoned
<1>4. ASSUME NEW s \in Shells, NEW killed \in BOOLEAN, ShellEnds(s, killed)
      PROVE  ShownOK'
  BY <1>4, ShownFrame DEF ShownOK, ShellEnds
<1>5. ASSUME Watch \/ ProgramQuits \/ Delivered \/ DispatcherStops \/ PullOperation \/ Settled
             \/ DrainEvents \/ CompleteDrain
      PROVE  ShownOK'
  BY <1>5, ShownFrame
  DEF ShownOK, Watch, ProgramQuits, Leave, Delivered, DispatcherStops, PullOperation, Settled,
      DrainEvents, At, CompleteDrain
<1>6. ASSUME Dispatch
      PROVE  ShownOK'
  <2>1. /\ Len(dispatch.buf) \in Nat /\ Len(dispatch.buf) >= 1
        /\ DOMAIN dispatch.buf = 1 .. Len(dispatch.buf)
        /\ DOMAIN dispatch'.buf = 1 .. Len(dispatch.buf) - 1
        /\ \A k \in 1 .. Len(dispatch.buf) - 1 : dispatch'.buf[k] = dispatch.buf[k + 1]
    BY <1>6, DispatchShrinks, Buffers
  <2>2. /\ room' = room /\ cached' = cached
        /\ told' = IF dispatch.buf[1].kind = "state" THEN dispatch.buf[1].shown ELSE told
    BY <1>6, DispatchShrinks DEF Dispatch
  <2>3. \A k \in DOMAIN dispatch'.buf :
            k + 1 \in DOMAIN dispatch.buf /\ dispatch'.buf[k] = dispatch.buf[k + 1]
    BY <2>1
  <2>4. NotAhead(told', room)
    <3>1. 1 \in DOMAIN dispatch.buf
      BY <2>1
    <3>. QED  BY <2>2, <3>1 DEF ShownOK
  <2>. QED  BY <2>2, <2>3, <2>4 DEF ShownOK, NotAhead
<1>7. ASSUME Settle
      PROVE  ShownOK'
  <2>. DEFINE s == <<StateChanged(room')>>
  <2>1. s \in Seq(Events) /\ Len(s) = 1
    BY Types, Typed', EventsTyped DEF Typed, TypeOK
  <2>2. Announced(s)
    BY <1>7, <2>1, PublishAnnounces DEF Settle, ApplyBurst
  <2>3. told' = told /\ cached' = room' /\ NotAhead(room, room')
    BY <1>7, RoomGrows DEF Settle, ApplyBurst
  <2>4. \A k \in 1 .. Len(s) : s[k].kind = "state" => s[k].shown = room'
    BY <1>7, <2>1 DEF Settle, ApplyBurst, StateChanged, ExitRequested, Barrier, Outcome, Event
  <2>. HIDE DEF s
  <2>. QED  BY <2>1, <2>2, <2>3, <2>4, ShownAnnounced
<1>8. ASSUME ApplySubmission
      PROVE  ShownOK'
  <2>. DEFINE s == <<StateChanged(room'), Outcome(op)>>
  <2>1. s \in Seq(Events) /\ Len(s) = 2
    BY Types, Typed', EventsTyped DEF Typed, TypeOK
  <2>2. Announced(s)
    BY <1>8, <2>1, PublishAnnounces DEF ApplySubmission, At
  <2>3. told' = told /\ cached' = room' /\ NotAhead(room, room')
    BY <1>8, RoomGrows DEF ApplySubmission, At
  <2>4. \A k \in 1 .. Len(s) : s[k].kind = "state" => s[k].shown = room'
    BY <1>8, <2>1 DEF ApplySubmission, At, StateChanged, ExitRequested, Barrier, Outcome, Event
  <2>. HIDE DEF s
  <2>. QED  BY <2>1, <2>2, <2>3, <2>4, ShownAnnounced
<1>9. ASSUME ApplyRequest
      PROVE  ShownOK'
  <2>1. CASE op.do = "stage"
  <3>. DEFINE s == <<StateChanged(room)>>
      <3>1. s \in Seq(Events) /\ Len(s) = 1
      BY Types, Typed', EventsTyped DEF Typed, TypeOK
    <3>2. Announced(s)
      BY <1>9, <2>1, <3>1, PublishAnnounces DEF ApplyRequest, At
    <3>3. told' = told /\ cached' = room' /\ NotAhead(room, room')
      BY <1>9, <2>1, RoomGrows DEF ApplyRequest, At
    <3>4. \A k \in 1 .. Len(s) : s[k].kind = "state" => s[k].shown = room'
      BY <1>9, <2>1, <3>1 DEF ApplyRequest, At, StateChanged, ExitRequested, Barrier, Outcome, Event
    <3>. HIDE DEF s
    <3>. QED  BY <3>1, <3>2, <3>3, <3>4, ShownAnnounced
  <2>2. CASE op.do # "stage"
    BY <1>9, <2>2, ShownFrame DEF ApplyRequest, At, ShownOK
  <2>. QED  BY <2>1, <2>2
<1>10. ASSUME ApplyShellResult
       PROVE  ShownOK'
  <2>. DEFINE s == <<StateChanged(room)>>
  <2>1. s \in Seq(Events) /\ Len(s) = 1
    BY Types, Typed', EventsTyped DEF Typed, TypeOK
  <2>2. Announced(s)
    BY <1>10, <2>1, PublishAnnounces DEF ApplyShellResult, At
  <2>3. told' = told /\ cached' = room' /\ NotAhead(room, room')
    BY <1>10, RoomGrows DEF ApplyShellResult, At
  <2>4. \A k \in 1 .. Len(s) : s[k].kind = "state" => s[k].shown = room'
    BY <1>10, <2>1 DEF ApplyShellResult, At, StateChanged, ExitRequested, Barrier, Outcome, Event
  <2>. HIDE DEF s
  <2>. QED  BY <2>1, <2>2, <2>3, <2>4, ShownAnnounced
<1>11. ASSUME QuitSession
       PROVE  ShownOK'
  <2>. DEFINE s == <<StateChanged(room'), ExitRequested>>
  <2>1. s \in Seq(Events) /\ Len(s) = 2
    BY Types, Typed', EventsTyped DEF Typed, TypeOK
  <2>2. Announced(s)
    BY <1>11, <2>1, PublishAnnounces DEF QuitSession, DownSession
  <2>3. told' = told /\ cached' = room' /\ NotAhead(room, room')
    BY <1>11, RoomGrows DEF QuitSession, DownSession
  <2>4. \A k \in 1 .. Len(s) : s[k].kind = "state" => s[k].shown = room'
    BY <1>11, <2>1
    DEF QuitSession, DownSession, StateChanged, ExitRequested, Barrier, Outcome, Event
  <2>. HIDE DEF s
  <2>. QED  BY <2>1, <2>2, <2>3, <2>4, ShownAnnounced
<1>12. ASSUME ShutdownSession \/ Finish \/ Signal \/ ProgramEnds \/ UNCHANGED vars
       PROVE  ShownOK'
  BY <1>12, ShownFrame
  DEF ShownOK, ShutdownSession, DownSession, At, Finish, Signal, ProgramEnds, Leave, vars
<1>13. ASSUME AwaitShells
       PROVE  ShownOK'
  <2>. DEFINE s == <<Barrier>>
  <2>1. s \in Seq(Events) /\ Len(s) = 1
    BY Types, Typed', EventsTyped DEF Typed, TypeOK
  <2>2. Announced(s)
    BY <1>13, <2>1, PublishAnnounces DEF AwaitShells
  <2>3. told' = told /\ cached' = room' /\ NotAhead(room, room')
    BY <1>13, RoomGrows DEF AwaitShells
  <2>4. \A k \in 1 .. Len(s) : s[k].kind = "state" => s[k].shown = room'
    BY <1>13, <2>1 DEF AwaitShells, StateChanged, ExitRequested, Barrier, Outcome, Event
  <2>. HIDE DEF s
  <2>. QED  BY <2>1, <2>2, <2>3, <2>4, ShownAnnounced
<1>14. ASSUME CloseDispatcher
       PROVE  ShownOK'
  <2>1. dispatch'.buf = dispatch.buf
    BY <1>14, Types, ClosedIs DEF CloseDispatcher
  <2>. QED  BY <1>14, <2>1, ShownFrame DEF CloseDispatcher, ShownOK
<1>15. ASSUME NEW u \in Users, Call(u)
       PROVE  ShownOK'
  BY <1>15, ShownFrame DEF ShownOK, Call
<1>16. ASSUME NEW n \in Notifiers, Record(n)
       PROVE  ShownOK'
  BY <1>16, ShownFrame DEF ShownOK, Record
<1>. QED  BY <1>1, <1>2, <1>3, <1>4, <1>5, <1>6, <1>7, <1>8, <1>9, <1>10, <1>11, <1>12, <1>13,
             <1>14, <1>15, <1>16 DEF Next, Step, RequestClose, Executing

\* Nobody is to see more than there will be when the request is applied.
LEMMA SeenKept ==
    ASSUME Typed, Typed', CallsOK, ExecOK, AsksOK, FreshOK, OrderOK, ShownOK, SeenOK, [Next]_vars
    PROVE  SeenOK'
<1>. USE DEF Ending, gate, lifetime, mail, model, dispatcher, replies, history, Others, Goto
<1>1. ASSUME NEW p \in Procs, Enqueue(p)
      PROVE  SeenOK'
  <2>1. /\ NotAhead(room, room') /\ room.events + inbox <= room'.events + inbox'
        /\ accepted' = accepted
    BY <1>1, RoomGrows, Types, CountsTyped DEF Enqueue, Refused
  <2>2. op' = op /\ (op.do \in Asks => (pc'[Exec] = "apply" => pc[Exec] = "apply"))
    <3>1. op' = op /\ \E l \in {"idle", "ended", "push"} : pc' = [pc EXCEPT ![p] = l]
      BY <1>1 DEF Enqueue, Refused, Returns
    <3>. QED  BY <3>1, Programs, Goroutines
  <2>3. ASSUME NEW v \in Users
        PROVE  SeenOf(v)'
    <3>1. /\ pc'[v] = "wait" => /\ pc[v] = "wait" /\ call'[v] = call[v]
                                /\ result'[v] = result[v] /\ seen'[v] = seen[v]
          /\ pc'[v] \in {"enqueue", "push"} => pc[v] \in {"enqueue", "push"} /\ seen'[v] = seen[v]
      BY <1>1, Programs, Goroutines, Constants DEF Enqueue, Refused, Returns
    <3>. QED  BY <2>1, <2>2, <3>1, Types, SeenFrame DEF SeenOK
  <2>. QED  BY <2>3 DEF SeenOK
<1>2. ASSUME NEW p \in Procs, Push(p)
      PROVE  SeenOK'
  <2>1. /\ pc[p] = "push" /\ room' = room /\ inbox' = inbox /\ op' = op
        /\ call' = call /\ result' = result
        /\ seen' = [seen EXCEPT ![p] = Shown(room.events + inbox, Len(accepted))]
        /\ \E l \in {"wait", "idle", "ended"} : pc' = [pc EXCEPT ![p] = l]
        /\ pc' = [pc EXCEPT ![p] = "wait"] => call[p].do \in Asks
    BY <1>2, Programs DEF Push, Returns
  <2>2. Len(accepted) <= Len(accepted') /\ Len(accepted) \in Nat
    BY <1>2, Types, AppendedIs DEF Push
  <2>3. pc'[Exec] = "apply" => pc[Exec] = "apply"
    BY <2>1, Programs, Goroutines
  <2>4. NotAhead(room, room') /\ room.events + inbox <= room'.events + inbox'
    BY <2>1, RoomGrows, Types
  <2>5. ASSUME NEW v \in Users
        PROVE  SeenOf(v)'
    <3>1. CASE v = p
      <4>1. /\ pc'[v] \notin {"enqueue", "push"}
            /\ pc'[v] = "wait" => call[p].do \in Asks /\ call[p].by = p
        <5>1. pc'[v] \in {"wait", "idle", "ended"}
          BY <2>1, <3>1, Programs, Goroutines
        <5>2. pc'[v] = "wait" => pc' = [pc EXCEPT ![p] = "wait"]
          BY <2>1, <3>1, Programs, Goroutines
        <5>3. call[p].do \in Asks => call[p].by = p
          BY <2>1, <3>1, Goroutines, Constants DEF CallsOK, Asks
        <5>. QED  BY <2>1, <5>1, <5>2, <5>3
      <4>2. ~result'[v].ok
        BY <2>1, <3>1 DEF FreshOK
      <4>3. seen'[v].events = room'.events + inbox' /\ seen'[v].lines = Len(accepted)
        BY <2>1, <3>1, Types, Goroutines DEF Shown
      <4>4. pc'[v] = "wait" => ~Handled(call[v])'
        BY <2>1, <2>3, <3>1, <4>1 DEF Handled, AsksOK, Awaited
      <4>5. room'.events + inbox' \in Nat
        BY <2>1, Types
      <4>. QED  BY <2>2, <4>1, <4>2, <4>3, <4>4, <4>5 DEF SeenOf
    <3>2. CASE v # p
      <4>1. pc'[v] = pc[v] /\ seen'[v] = seen[v]
        BY <2>1, <3>2, Programs, Types, Goroutines
      <4>. QED  BY <2>1, <2>2, <2>3, <2>4, <4>1, SeenFrame DEF SeenOK
    <3>. QED  BY <3>1, <3>2
  <2>. QED  BY <2>5 DEF SeenOK
<1>3. ASSUME NEW p \in Procs, BeginClose(p) \/ AlreadyClosing(p) \/ PushShutdown(p) \/ Closed(p)
      PROVE  SeenOK'
  <2>1. /\ NotAhead(room, room') /\ room.events + inbox <= room'.events + inbox'
        /\ accepted' = accepted
    BY <1>3, RoomGrows, Types, CountsTyped DEF BeginClose, AlreadyClosing, PushShutdown, Closed
  <2>2. op' = op /\ (op.do \in Asks => (pc'[Exec] = "apply" => pc[Exec] = "apply"))
    BY <1>3, Programs, Goroutines, Constants
    DEF BeginClose, ExecOK, CallsOK, Asks, AlreadyClosing, Requested, PushShutdown, Closed
  <2>3. ASSUME NEW v \in Users
        PROVE  SeenOf(v)'
    <3>1. /\ pc'[v] = "wait" => /\ pc[v] = "wait" /\ call'[v] = call[v]
                                /\ result'[v] = result[v] /\ seen'[v] = seen[v]
          /\ pc'[v] \in {"enqueue", "push"} => pc[v] \in {"enqueue", "push"} /\ seen'[v] = seen[v]
      BY <1>3, Programs, Goroutines, Constants
      DEF BeginClose, AlreadyClosing, Requested, PushShutdown, Closed
    <3>. QED  BY <2>1, <2>2, <3>1, Types, SeenFrame DEF SeenOK
  <2>. QED  BY <2>3 DEF SeenOK
<1>4. ASSUME NEW u \in Users, Answered(u)
      PROVE  SeenOK'
  <2>1. /\ NotAhead(room, room') /\ room.events + inbox <= room'.events + inbox'
        /\ accepted' = accepted
    BY <1>4, RoomGrows, Types, CountsTyped DEF Answered
  <2>2. op' = op /\ (op.do \in Asks => (pc'[Exec] = "apply" => pc[Exec] = "apply"))
    BY <1>4, Programs, Goroutines, Constants DEF Answered, ExecOK, CallsOK, Asks
  <2>3. ASSUME NEW v \in Users
        PROVE  SeenOf(v)'
    <3>1. /\ pc'[v] = "wait" => /\ pc[v] = "wait" /\ call'[v] = call[v]
                                /\ result'[v] = result[v] /\ seen'[v] = seen[v]
          /\ pc'[v] \in {"enqueue", "push"} => pc[v] \in {"enqueue", "push"} /\ seen'[v] = seen[v]
      BY <1>4, Programs, Goroutines, Constants DEF Answered
    <3>. QED  BY <2>1, <2>2, <3>1, Types, SeenFrame DEF SeenOK
  <2>. QED  BY <2>3 DEF SeenOK
<1>5. ASSUME NEW u \in Users, Abandoned(u)
      PROVE  SeenOK'
  <2>1. /\ NotAhead(room, room') /\ room.events + inbox <= room'.events + inbox'
        /\ accepted' = accepted
    BY <1>5, RoomGrows, Types, CountsTyped DEF Abandoned
  <2>2. op' = op /\ (op.do \in Asks => (pc'[Exec] = "apply" => pc[Exec] = "apply"))
    BY <1>5, Programs, Goroutines, Constants DEF Abandoned, ExecOK, CallsOK, Asks
  <2>3. ASSUME NEW v \in Users
        PROVE  SeenOf(v)'
    <3>1. /\ pc'[v] = "wait" => /\ pc[v] = "wait" /\ call'[v] = call[v]
                                /\ result'[v] = result[v] /\ seen'[v] = seen[v]
          /\ pc'[v] \in {"enqueue", "push"} => pc[v] \in {"enqueue", "push"} /\ seen'[v] = seen[v]
      BY <1>5, Programs, Goroutines, Constants DEF Abandoned
    <3>. QED  BY <2>1, <2>2, <3>1, Types, SeenFrame DEF SeenOK
  <2>. QED  BY <2>3 DEF SeenOK
<1>6. ASSUME NEW s \in Shells, NEW killed \in BOOLEAN, ShellEnds(s, killed)
      PROVE  SeenOK'
  <2>1. /\ NotAhead(room, room') /\ room.events + inbox <= room'.events + inbox'
        /\ accepted' = accepted
    BY <1>6, RoomGrows, Types, CountsTyped DEF ShellEnds
  <2>2. op' = op /\ (op.do \in Asks => (pc'[Exec] = "apply" => pc[Exec] = "apply"))
    BY <1>6, Programs, Goroutines, Constants DEF ShellEnds, ExecOK, CallsOK, Asks
  <2>3. ASSUME NEW v \in Users
        PROVE  SeenOf(v)'
    <3>1. /\ pc'[v] = "wait" => /\ pc[v] = "wait" /\ call'[v] = call[v]
                                /\ result'[v] = result[v] /\ seen'[v] = seen[v]
          /\ pc'[v] \in {"enqueue", "push"} => pc[v] \in {"enqueue", "push"} /\ seen'[v] = seen[v]
      BY <1>6, Programs, Goroutines, Constants DEF ShellEnds
    <3>. QED  BY <2>1, <2>2, <3>1, Types, SeenFrame DEF SeenOK
  <2>. QED  BY <2>3 DEF SeenOK
<1>7. ASSUME Watch \/ ProgramQuits \/ Dispatch \/ Delivered \/ DispatcherStops \/ Settle
             \/ Settled \/ DrainEvents
      PROVE  SeenOK'
  <2>1. /\ NotAhead(room, room') /\ room.events + inbox <= room'.events + inbox'
        /\ accepted' = accepted
    BY <1>7, RoomGrows, Types, CountsTyped
    DEF Watch, ProgramQuits, Leave, Dispatch, Delivered, DispatcherStops, Settle, ApplyBurst,
        Settled, DrainEvents, At
  <2>2. op' = op /\ (op.do \in Asks => (pc'[Exec] = "apply" => pc[Exec] = "apply"))
    BY <1>7, Programs, Goroutines, Constants
    DEF Watch, ExecOK, CallsOK, Asks, ProgramQuits, Leave, Dispatch, Delivered, DispatcherStops,
        Settle, ApplyBurst, Settled, DrainEvents, At
  <2>3. ASSUME NEW v \in Users
        PROVE  SeenOf(v)'
    <3>1. /\ pc'[v] = "wait" => /\ pc[v] = "wait" /\ call'[v] = call[v]
                                /\ result'[v] = result[v] /\ seen'[v] = seen[v]
          /\ pc'[v] \in {"enqueue", "push"} => pc[v] \in {"enqueue", "push"} /\ seen'[v] = seen[v]
      BY <1>7, Programs, Goroutines, Constants
      DEF Watch, ProgramQuits, Leave, Dispatch, Delivered, DispatcherStops, Settle, ApplyBurst,
          Settled, DrainEvents, At
    <3>. QED  BY <2>1, <2>2, <3>1, Types, SeenFrame DEF SeenOK
  <2>. QED  BY <2>3 DEF SeenOK
<1>8. ASSUME PullOperation
      PROVE  SeenOK'
  <2>1. /\ pc[Exec] = "pull" /\ pc' = [pc EXCEPT ![Exec] = "apply"]
        /\ room' = room /\ inbox' = inbox
        /\ seen' = seen /\ accepted' = accepted /\ call' = call /\ result' = result
    BY <1>8 DEF PullOperation
  <2>2. /\ Len(ops.buf) \in Nat /\ Len(ops.buf) >= 1 /\ op' = ops.buf[1]
        /\ DOMAIN ops.buf = 1 .. Len(ops.buf)
    BY <1>8, PullShrinks, Buffers
  <2>3. /\ Base = room.lines /\ room.lines \in Nat /\ Len(accepted) \in Nat
        /\ Base <= Len(accepted)
    BY <2>1, Types DEF Base, OrderOK
  <2>4. PICK f : Queued(f) /\ Behind(f)
    BY DEF OrderOK
  <2>5. ASSUME NEW v \in Users
        PROVE  SeenOf(v)'
    <3>1. pc'[v] = pc[v]
      BY <2>1, Programs, Goroutines
    <3>2. ASSUME pc[v] = "wait", op' = call[v]
          PROVE  seen[v].lines <= room.lines
      <4>1. /\ op'.do \in Asks /\ op'.by = v /\ seen[v].lines <= Len(accepted)
            /\ seen[v].lines \in Nat
        <5>1. seen[v] \in Versions
          BY Types, Goroutines
        <5>. QED  BY <3>2, <5>1, Goroutines DEF CallsOK, SeenOK, SeenOf, Versions
      <4>2. \A m \in DOMAIN f : m <= seen[v].lines => f[m] < 1
        BY <2>2, <2>4, <4>1 DEF Behind
      <4>3. \A m \in room.lines + 1 .. Len(accepted) : m \in DOMAIN f /\ f[m] \in 1 .. Len(ops.buf)
        BY <2>2, <2>3, <2>4 DEF Queued
      <4>. QED  BY <2>2, <2>3, <4>1, <4>2, <4>3
    <3>3. Handled(call[v])' => op' = call[v]
      BY <2>1 DEF Handled
    <3>. QED  BY <2>1, <3>1, <3>2, <3>3 DEF SeenOK, SeenOf
  <2>. QED  BY <2>5 DEF SeenOK
<1>9. ASSUME CompleteDrain \/ ApplySubmission \/ ApplyShellResult \/ QuitSession
             \/ ShutdownSession \/ AwaitShells \/ CloseDispatcher \/ Finish
      PROVE  SeenOK'
  <2>1. /\ NotAhead(room, room') /\ room.events + inbox <= room'.events + inbox'
        /\ accepted' = accepted
    BY <1>9, RoomGrows, Types, CountsTyped
    DEF CompleteDrain, ApplySubmission, At, ApplyShellResult, QuitSession, DownSession,
        ShutdownSession, AwaitShells, CloseDispatcher, Finish
  <2>2. op' = op /\ (op.do \in Asks => (pc'[Exec] = "apply" => pc[Exec] = "apply"))
    BY <1>9, Programs, Goroutines, Constants
    DEF CompleteDrain, ExecOK, CallsOK, Asks, ApplySubmission, At, ApplyShellResult, QuitSession,
        DownSession, ShutdownSession, AwaitShells, CloseDispatcher, Finish
  <2>3. ASSUME NEW v \in Users
        PROVE  SeenOf(v)'
    <3>1. /\ pc'[v] = "wait" => /\ pc[v] = "wait" /\ call'[v] = call[v]
                                /\ result'[v] = result[v] /\ seen'[v] = seen[v]
          /\ pc'[v] \in {"enqueue", "push"} => pc[v] \in {"enqueue", "push"} /\ seen'[v] = seen[v]
      BY <1>9, Programs, Goroutines, Constants
      DEF CompleteDrain, ApplySubmission, At, ApplyShellResult, QuitSession, DownSession,
          ShutdownSession, AwaitShells, CloseDispatcher, Finish
    <3>. QED  BY <2>1, <2>2, <3>1, Types, SeenFrame DEF SeenOK
  <2>. QED  BY <2>3 DEF SeenOK
<1>10. ASSUME ApplyRequest
       PROVE  SeenOK'
  <2>1. /\ pc[Exec] = "apply" /\ op.do \in Asks /\ pc' = [pc EXCEPT ![Exec] = "after"] /\ inbox = 0
        /\ op' = op /\ call' = call /\ room' = room /\ inbox' = inbox
        /\ seen' = seen /\ accepted' = accepted
        /\ result' = [result EXCEPT ![op.by] = Reply(room)]
    BY <1>10 DEF ApplyRequest, At
  <2>2. pc'[Exec] = "after" /\ \A v \in Users : pc'[v] = pc[v]
    BY <2>1, Programs, Goroutines
  <2>3. Awaited(op)
    BY <2>1 DEF AsksOK
  <2>4. ASSUME NEW v \in Users
        PROVE  SeenOf(v)'
    <3>1. CASE v = op.by
      <4>1. /\ pc[v] = "wait" /\ Handled(call[v])
            /\ result'[v] = Reply(room) /\ result'[v].ok /\ result'[v].shown = room
        BY <2>1, <2>3, <3>1, Types, Goroutines DEF Awaited, Handled, Reply
      <4>2. /\ seen[v].events <= room.events /\ seen[v].lines <= room.lines
            /\ seen[v].lines <= Len(accepted) /\ seen[v].events <= room.events + inbox
        <5>1. seen[v].events <= room.events + inbox /\ seen[v].lines <= room.lines
              /\ seen[v].lines <= Len(accepted)
          BY <4>1 DEF SeenOK, SeenOf
        <5>2. room.events \in Nat
          BY Types
        <5>. QED  BY <2>1, <5>1, <5>2
      <4>3. NotAhead(seen'[v], result'[v].shown) /\ NotAhead(result'[v].shown, room')
        BY <2>1, <4>1, <4>2, RoomGrows DEF NotAhead
      <4>. QED  BY <2>1, <2>2, <4>1, <4>2, <4>3 DEF SeenOf, Handled
    <3>2. CASE v # op.by
      <4>1. result'[v] = result[v]
        BY <2>1, <3>2, Types, Goroutines
      <4>2. /\ Len(accepted) <= Len(accepted') /\ room.events + inbox <= room'.events + inbox'
            /\ NotAhead(room, room')
        BY <2>1, Types, RoomGrows
      <4>. QED  BY <2>1, <2>2, <4>1, <4>2, SeenFrame DEF SeenOK
    <3>. QED  BY <3>1, <3>2
  <2>. QED  BY <2>4 DEF SeenOK
<1>11. ASSUME NEW u \in Users, Call(u)
       PROVE  SeenOK'
  <2>1. /\ pc[u] = "idle" /\ room' = room /\ inbox' = inbox /\ op' = op /\ accepted' = accepted
        /\ \E l \in {"once", "enqueue"} : pc' = [pc EXCEPT ![u] = l]
        /\ seen' = [seen EXCEPT ![u] = told]
        /\ \A v \in Users : v # u => call'[v] = call[v] /\ result'[v] = result[v]
    BY <1>11, Types, Goroutines DEF Call
  <2>2. pc'[Exec] = "apply" => pc[Exec] = "apply"
    BY <2>1, Programs, Goroutines
  <2>3. NotAhead(room, room') /\ room.events + inbox <= room'.events + inbox'
    BY <2>1, RoomGrows, Types
  <2>4. ASSUME NEW v \in Users
        PROVE  SeenOf(v)'
    <3>1. CASE v = u
      <4>1. pc'[v] # "wait" /\ seen'[v] = told /\ NotAhead(told, room')
        BY <2>1, <3>1, Programs, Types, Goroutines DEF ShownOK
      <4>. QED  BY <4>1 DEF SeenOf
    <3>2. CASE v # u
      <4>1. pc'[v] = pc[v] /\ seen'[v] = seen[v] /\ call'[v] = call[v] /\ result'[v] = result[v]
        BY <2>1, <3>2, Programs, Types, Goroutines
      <4>2. Len(accepted) <= Len(accepted')
        BY <2>1, Types
      <4>. QED  BY <2>1, <2>2, <2>3, <4>1, <4>2, SeenFrame DEF SeenOK
    <3>. QED  BY <3>1, <3>2
  <2>. QED  BY <2>4 DEF SeenOK
<1>12. ASSUME NEW n \in Notifiers, Record(n)
       PROVE  SeenOK'
  <2>1. /\ NotAhead(room, room') /\ room.events + inbox <= room'.events + inbox'
        /\ accepted' = accepted
    BY <1>12, RoomGrows, Types, CountsTyped DEF Record
  <2>2. op' = op /\ (op.do \in Asks => (pc'[Exec] = "apply" => pc[Exec] = "apply"))
    BY <1>12, Programs, Goroutines, Constants DEF Record, ExecOK, CallsOK, Asks
  <2>3. ASSUME NEW v \in Users
        PROVE  SeenOf(v)'
    <3>1. /\ pc'[v] = "wait" => /\ pc[v] = "wait" /\ call'[v] = call[v]
                                /\ result'[v] = result[v] /\ seen'[v] = seen[v]
          /\ pc'[v] \in {"enqueue", "push"} => pc[v] \in {"enqueue", "push"} /\ seen'[v] = seen[v]
      BY <1>12, Programs, Goroutines, Constants DEF Record
    <3>. QED  BY <2>1, <2>2, <3>1, Types, SeenFrame DEF SeenOK
  <2>. QED  BY <2>3 DEF SeenOK
<1>13. ASSUME Signal \/ ProgramEnds \/ UNCHANGED vars
       PROVE  SeenOK'
  <2>1. /\ NotAhead(room, room') /\ room.events + inbox <= room'.events + inbox'
        /\ accepted' = accepted
    BY <1>13, RoomGrows, Types, CountsTyped DEF Signal, ProgramEnds, Leave, vars
  <2>2. op' = op /\ (op.do \in Asks => (pc'[Exec] = "apply" => pc[Exec] = "apply"))
    BY <1>13, Programs, Goroutines, Constants
    DEF Signal, ExecOK, CallsOK, Asks, ProgramEnds, Leave, vars
  <2>3. ASSUME NEW v \in Users
        PROVE  SeenOf(v)'
    <3>1. /\ pc'[v] = "wait" => /\ pc[v] = "wait" /\ call'[v] = call[v]
                                /\ result'[v] = result[v] /\ seen'[v] = seen[v]
          /\ pc'[v] \in {"enqueue", "push"} => pc[v] \in {"enqueue", "push"} /\ seen'[v] = seen[v]
      BY <1>13, Programs, Goroutines, Constants DEF Signal, ProgramEnds, Leave, vars
    <3>. QED  BY <2>1, <2>2, <3>1, Types, SeenFrame DEF SeenOK
  <2>. QED  BY <2>3 DEF SeenOK
<1>. QED  BY <1>1, <1>2, <1>3, <1>4, <1>5, <1>6, <1>7, <1>8, <1>9, <1>10, <1>11, <1>12, <1>13
          DEF Next, Step, RequestClose, Executing

\* A call that returns is not behind what its caller is to see.
LEMMA ReadsKept ==
    ASSUME Typed, CallsOK, ShutdownLast, ExecOK, AsksOK, ShownOK, SeenOK,
           ReadsAreCurrent, [Next]_vars
    PROVE  ReadsAreCurrent'
<1>. USE DEF Ending, gate, lifetime, mail, model, dispatcher, replies, history, Others, Goto
<1>1. ASSUME NEW p \in Procs, Enqueue(p)
      PROVE  ReadsAreCurrent'
  <2>1. CASE closed
    <3>1. /\ pc[p] = "enqueue" /\ call' = call /\ seen' = seen
          /\ \E l : pc' = [pc EXCEPT ![p] = l]
          /\ answer' = [answer EXCEPT ![p] =
                 Return(FALSE, IF call[p].do = "snapshot" THEN Reply(cached) ELSE NoResult)]
      BY <1>1, <2>1 DEF Enqueue, Refused
    <3>2. \A v \in Users : v # p /\ pc'[v] = "idle" =>
              pc[v] = "idle" /\ answer'[v] = answer[v] /\ call'[v] = call[v] /\ seen'[v] = seen[v]
      BY <3>1, Programs, Types, Goroutines
    <3>3. p \in Users => /\ answer'[p].reply.ok /\ call[p].do = "snapshot" =>
                                answer'[p].reply.shown = room
                         /\ NotAhead(seen[p], room)
      BY <3>1, Types DEF Return, Reply, NoResult, ShownOK, SeenOK, SeenOf
    <3>4. \A v \in Users : /\ seen[v].events \in Nat /\ seen[v].lines \in Nat
                           /\ room.events \in Nat /\ room.lines \in Nat
      <4>1. \A v \in Users : seen[v] \in Versions
        BY Types, Goroutines
      <4>. QED  BY <4>1, Types, Constants DEF Versions
    <3>. QED  BY <3>1, <3>2, <3>3, <3>4 DEF ReadsAreCurrent, NotAhead
  <2>2. CASE ~closed
    <3>1. \A v \in Users : pc'[v] = "idle" =>
              pc[v] = "idle" /\ answer'[v] = answer[v] /\ call'[v] = call[v] /\ seen'[v] = seen[v]
      BY <1>1, <2>2, Programs, Goroutines DEF Enqueue
    <3>. QED  BY <3>1 DEF ReadsAreCurrent
  <2>. QED  BY <2>1, <2>2
<1>2. ASSUME NEW p \in Procs, Push(p)
      PROVE  ReadsAreCurrent'
  <2>1. /\ call' = call /\ \E l : pc' = [pc EXCEPT ![p] = l]
        /\ \A v \in Users : v # p => seen'[v] = seen[v]
    BY <1>2, Types, Goroutines DEF Push
  <2>2. call[p].do \in Asks => \A v \in Users : pc'[v] = "idle" => v # p /\ answer' = answer
    BY <1>2, Programs, Goroutines DEF Push
  <2>3. call[p].do \notin Asks => answer' = [answer EXCEPT ![p] = Return(TRUE, NoResult)]
    BY <1>2 DEF Push
  <2>4. \A v \in Users : v # p /\ pc'[v] = "idle" =>
            pc[v] = "idle" /\ answer'[v] = answer[v] /\ call'[v] = call[v] /\ seen'[v] = seen[v]
    BY <2>1, <2>2, <2>3, Programs, Types, Goroutines
  <2>5. \A v \in Users : v = p /\ pc'[v] = "idle" => call[v].do \notin Asks /\ ~answer'[v].reply.ok
    BY <2>2, <2>3, Types, Goroutines DEF Return, NoResult
  <2>. QED  BY <2>1, <2>4, <2>5 DEF ReadsAreCurrent, Asks
<1>3. ASSUME NEW p \in Procs, BeginClose(p) \/ AlreadyClosing(p) \/ PushShutdown(p)
      PROVE  ReadsAreCurrent'
  <2>1. \A v \in Users : pc'[v] = "idle" =>
            pc[v] = "idle" /\ answer'[v] = answer[v] /\ call'[v] = call[v] /\ seen'[v] = seen[v]
    BY <1>3, Programs, Goroutines, Constants DEF BeginClose, AlreadyClosing, Requested, PushShutdown
  <2>. QED  BY <2>1 DEF ReadsAreCurrent
<1>4. ASSUME NEW p \in Procs, Closed(p)
      PROVE  ReadsAreCurrent'
  <2>1. /\ pc[p] = "await" /\ call' = call /\ answer' = answer /\ seen' = seen
        /\ \E l : pc' = [pc EXCEPT ![p] = l]
    BY <1>4 DEF Closed
  <2>2. p \in Users => call[p].do = "close"
    BY <2>1 DEF CallsOK
  <2>3. \A v \in Users : v # p => pc'[v] = pc[v]
    BY <2>1, Programs, Goroutines
  <2>. QED  BY <2>1, <2>2, <2>3 DEF ReadsAreCurrent, Asks
<1>5. ASSUME NEW u \in Users, Answered(u)
      PROVE  ReadsAreCurrent'
  <2>1. /\ pc[u] = "wait" /\ pc' = [pc EXCEPT ![u] = "idle"] /\ call' = call /\ seen' = seen
        /\ \E r : answer' = [answer EXCEPT ![u] = r]
    BY <1>5 DEF Answered
  <2>2. \A v \in Users : v # u => pc'[v] = pc[v] /\ answer'[v] = answer[v]
    BY <2>1, Programs, Types, Goroutines
  <2>3. result[u].ok
    BY <1>5 DEF Answered
  <2>4. answer'[u] = Return(TRUE, result[u]) 
    BY <1>5, Types, Goroutines DEF Answered
  <2>5. /\ NotAhead(seen[u], result[u].shown) /\ NotAhead(result[u].shown, room) /\ cached = room
    BY <2>1, <2>3 DEF SeenOK, SeenOf, ShownOK
  <2>6. /\ NotAhead(seen[u], room)
        /\ seen[u] \in Versions /\ room \in Versions /\ result[u].shown \in Versions
    <3>1. seen[u] \in Versions /\ room \in Versions /\ result[u] \in Replies
      BY Types, Goroutines
    <3>2. result[u].shown \in Versions
      BY <3>1 DEF Replies
    <3>. QED  BY <2>5, <3>1, <3>2, AheadTransitive
  <2>7. NotAhead(seen[u], answer'[u].reply.shown) /\ answer'[u].reply.shown \in Versions
    BY <2>4, <2>5, <2>6 DEF Return, Reply
  <2>8. /\ answer'[u].reply.shown.events >= seen[u].events
        /\ answer'[u].reply.shown.lines >= seen[u].lines
    BY <2>6, <2>7, Constants DEF NotAhead, Versions
  <2>. QED  BY <2>1, <2>2, <2>8 DEF ReadsAreCurrent
<1>6. ASSUME NEW u \in Users, Abandoned(u)
      PROVE  ReadsAreCurrent'
  <2>1. /\ pc[u] = "wait" /\ pc' = [pc EXCEPT ![u] = "idle"] /\ call' = call /\ seen' = seen
        /\ \E r : answer' = [answer EXCEPT ![u] = r]
    BY <1>6 DEF Abandoned
  <2>2. \A v \in Users : v # u => pc'[v] = pc[v] /\ answer'[v] = answer[v]
    BY <2>1, Programs, Types, Goroutines
  <2>3. result[u].ok
    <3>1. op.do = "shutdown" /\ ops.buf = <<>>
      BY <1>6 DEF Abandoned, ExecOK, Ending, ShutdownLast
    <3>2. call[u].do \in Asks
      BY <2>1, Goroutines DEF CallsOK
    <3>. QED  BY <2>1, <3>1, <3>2 DEF AsksOK, Handled, Asks
  <2>4. answer'[u] = Return(TRUE, result[u]) \/ answer'[u] = Return(TRUE, Reply(cached))
    BY <1>6, Types, Goroutines DEF Abandoned
  <2>5. /\ NotAhead(seen[u], result[u].shown) /\ NotAhead(result[u].shown, room) /\ cached = room
    BY <2>1, <2>3 DEF SeenOK, SeenOf, ShownOK
  <2>6. /\ NotAhead(seen[u], room)
        /\ seen[u] \in Versions /\ room \in Versions /\ result[u].shown \in Versions
    <3>1. seen[u] \in Versions /\ room \in Versions /\ result[u] \in Replies
      BY Types, Goroutines
    <3>2. result[u].shown \in Versions
      BY <3>1 DEF Replies
    <3>. QED  BY <2>5, <3>1, <3>2, AheadTransitive
  <2>7. NotAhead(seen[u], answer'[u].reply.shown) /\ answer'[u].reply.shown \in Versions
    BY <2>4, <2>5, <2>6 DEF Return, Reply
  <2>8. /\ answer'[u].reply.shown.events >= seen[u].events
        /\ answer'[u].reply.shown.lines >= seen[u].lines
    BY <2>6, <2>7, Constants DEF NotAhead, Versions
  <2>. QED  BY <2>1, <2>2, <2>8 DEF ReadsAreCurrent
<1>7. ASSUME NEW s \in Shells, NEW killed \in BOOLEAN, ShellEnds(s, killed)
      PROVE  ReadsAreCurrent'
  <2>1. \A v \in Users : pc'[v] = "idle" =>
            pc[v] = "idle" /\ answer'[v] = answer[v] /\ call'[v] = call[v] /\ seen'[v] = seen[v]
    BY <1>7, Programs, Goroutines, Constants DEF ShellEnds
  <2>. QED  BY <2>1 DEF ReadsAreCurrent
<1>8. ASSUME Watch \/ ProgramQuits \/ Dispatch \/ Delivered \/ DispatcherStops \/ PullOperation
             \/ Settle \/ Settled
      PROVE  ReadsAreCurrent'
  <2>1. \A v \in Users : pc'[v] = "idle" =>
            pc[v] = "idle" /\ answer'[v] = answer[v] /\ call'[v] = call[v] /\ seen'[v] = seen[v]
    BY <1>8, Programs, Goroutines, Constants
    DEF Watch, ProgramQuits, Leave, Dispatch, Delivered, DispatcherStops, PullOperation, Settle,
        ApplyBurst, Settled
  <2>. QED  BY <2>1 DEF ReadsAreCurrent
<1>9. ASSUME DrainEvents \/ CompleteDrain \/ ApplySubmission \/ ApplyRequest \/ ApplyShellResult
             \/ QuitSession \/ ShutdownSession \/ AwaitShells
      PROVE  ReadsAreCurrent'
  <2>1. \A v \in Users : pc'[v] = "idle" =>
            pc[v] = "idle" /\ answer'[v] = answer[v] /\ call'[v] = call[v] /\ seen'[v] = seen[v]
    BY <1>9, Programs, Goroutines, Constants
    DEF DrainEvents, At, CompleteDrain, ApplySubmission, ApplyRequest, ApplyShellResult,
        QuitSession, DownSession, ShutdownSession, AwaitShells
  <2>. QED  BY <2>1 DEF ReadsAreCurrent
<1>10. ASSUME CloseDispatcher \/ Finish \/ Signal \/ ProgramEnds \/ UNCHANGED vars
       PROVE  ReadsAreCurrent'
  <2>1. \A v \in Users : pc'[v] = "idle" =>
            pc[v] = "idle" /\ answer'[v] = answer[v] /\ call'[v] = call[v] /\ seen'[v] = seen[v]
    BY <1>10, Programs, Goroutines, Constants
    DEF CloseDispatcher, Finish, Signal, ProgramEnds, Leave, vars
  <2>. QED  BY <2>1 DEF ReadsAreCurrent
<1>11. ASSUME NEW u \in Users, Call(u)
       PROVE  ReadsAreCurrent'
  <2>1. \A v \in Users : pc'[v] = "idle" =>
            pc[v] = "idle" /\ answer'[v] = answer[v] /\ call'[v] = call[v] /\ seen'[v] = seen[v]
    BY <1>11, Programs, Goroutines, Constants DEF Call
  <2>. QED  BY <2>1 DEF ReadsAreCurrent
<1>12. ASSUME NEW n \in Notifiers, Record(n)
       PROVE  ReadsAreCurrent'
  <2>1. \A v \in Users : pc'[v] = "idle" =>
            pc[v] = "idle" /\ answer'[v] = answer[v] /\ call'[v] = call[v] /\ seen'[v] = seen[v]
    BY <1>12, Programs, Goroutines, Constants DEF Record
  <2>. QED  BY <2>1 DEF ReadsAreCurrent
<1>. QED  BY <1>1, <1>2, <1>3, <1>4, <1>5, <1>6, <1>7, <1>8, <1>9, <1>10, <1>11, <1>12
          DEF Next, Step, RequestClose, Executing

\* An accepted request does not return without its answer.
LEMMA AcceptedKept ==
    ASSUME Typed, CallsOK, ShutdownLast, ExecOK, AsksOK, AcceptedIsResolved, [Next]_vars
    PROVE  AcceptedIsResolved'
<1>. USE DEF Ending, gate, lifetime, mail, model, dispatcher, replies, history, Others, Goto
<1>1. ASSUME NEW p \in Procs, Enqueue(p)
      PROVE  AcceptedIsResolved'
  <2>1. CASE closed
    <3>1. /\ pc[p] = "enqueue" /\ call' = call /\ seen' = seen
          /\ \E l : pc' = [pc EXCEPT ![p] = l]
          /\ answer' = [answer EXCEPT ![p] =
                 Return(FALSE, IF call[p].do = "snapshot" THEN Reply(cached) ELSE NoResult)]
      BY <1>1, <2>1 DEF Enqueue, Refused
    <3>2. \A v \in Users : v # p /\ pc'[v] = "idle" =>
              pc[v] = "idle" /\ answer'[v] = answer[v] /\ call'[v] = call[v]
      BY <3>1, Programs, Types, Goroutines
    <3>3. p \in Users => ~answer'[p].taken
      BY <3>1, Types DEF Return
    <3>. QED  BY <3>1, <3>2, <3>3 DEF AcceptedIsResolved
  <2>2. CASE ~closed
    <3>1. \A v \in Users : pc'[v] = "idle" =>
              pc[v] = "idle" /\ answer'[v] = answer[v] /\ call'[v] = call[v]
      BY <1>1, <2>2, Programs, Goroutines DEF Enqueue
    <3>. QED  BY <3>1 DEF AcceptedIsResolved
  <2>. QED  BY <2>1, <2>2
<1>2. ASSUME NEW p \in Procs, Push(p)
      PROVE  AcceptedIsResolved'
  <2>1. /\ call' = call /\ \E l : pc' = [pc EXCEPT ![p] = l]
        /\ \A v \in Users : v # p => seen'[v] = seen[v]
    BY <1>2, Types, Goroutines DEF Push
  <2>2. call[p].do \in Asks => \A v \in Users : pc'[v] = "idle" => v # p /\ answer' = answer
    BY <1>2, Programs, Goroutines DEF Push
  <2>3. call[p].do \notin Asks => answer' = [answer EXCEPT ![p] = Return(TRUE, NoResult)]
    BY <1>2 DEF Push
  <2>4. \A v \in Users : v # p /\ pc'[v] = "idle" =>
            pc[v] = "idle" /\ answer'[v] = answer[v] /\ call'[v] = call[v]
    BY <2>1, <2>2, <2>3, Programs, Types, Goroutines
  <2>5. \A v \in Users : v = p /\ pc'[v] = "idle" => call[v].do \notin Asks /\ ~answer'[v].reply.ok
    BY <2>2, <2>3, Types, Goroutines DEF Return, NoResult
  <2>. QED  BY <2>1, <2>4, <2>5 DEF AcceptedIsResolved, Asks
<1>3. ASSUME NEW p \in Procs, BeginClose(p) \/ AlreadyClosing(p) \/ PushShutdown(p)
      PROVE  AcceptedIsResolved'
  <2>1. \A v \in Users : pc'[v] = "idle" =>
            pc[v] = "idle" /\ answer'[v] = answer[v] /\ call'[v] = call[v]
    BY <1>3, Programs, Goroutines, Constants DEF BeginClose, AlreadyClosing, Requested, PushShutdown
  <2>. QED  BY <2>1 DEF AcceptedIsResolved
<1>4. ASSUME NEW p \in Procs, Closed(p)
      PROVE  AcceptedIsResolved'
  <2>1. /\ pc[p] = "await" /\ call' = call /\ answer' = answer /\ seen' = seen
        /\ \E l : pc' = [pc EXCEPT ![p] = l]
    BY <1>4 DEF Closed
  <2>2. p \in Users => call[p].do = "close"
    BY <2>1 DEF CallsOK
  <2>3. \A v \in Users : v # p => pc'[v] = pc[v]
    BY <2>1, Programs, Goroutines
  <2>. QED  BY <2>1, <2>2, <2>3 DEF AcceptedIsResolved, Asks
<1>5. ASSUME NEW u \in Users, Answered(u)
      PROVE  AcceptedIsResolved'
  <2>1. /\ pc[u] = "wait" /\ pc' = [pc EXCEPT ![u] = "idle"] /\ call' = call /\ seen' = seen
        /\ \E r : answer' = [answer EXCEPT ![u] = r]
    BY <1>5 DEF Answered
  <2>2. \A v \in Users : v # u => pc'[v] = pc[v] /\ answer'[v] = answer[v]
    BY <2>1, Programs, Types, Goroutines
  <2>3. result[u].ok
    BY <1>5 DEF Answered
  <2>4. answer'[u] = Return(TRUE, result[u]) 
    BY <1>5, Types, Goroutines DEF Answered
  <2>5. answer'[u].reply.ok
    BY <2>3, <2>4 DEF Return, Reply
  <2>. QED  BY <2>1, <2>2, <2>5 DEF AcceptedIsResolved
<1>6. ASSUME NEW u \in Users, Abandoned(u)
      PROVE  AcceptedIsResolved'
  <2>1. /\ pc[u] = "wait" /\ pc' = [pc EXCEPT ![u] = "idle"] /\ call' = call /\ seen' = seen
        /\ \E r : answer' = [answer EXCEPT ![u] = r]
    BY <1>6 DEF Abandoned
  <2>2. \A v \in Users : v # u => pc'[v] = pc[v] /\ answer'[v] = answer[v]
    BY <2>1, Programs, Types, Goroutines
  <2>3. result[u].ok
    <3>1. op.do = "shutdown" /\ ops.buf = <<>>
      BY <1>6 DEF Abandoned, ExecOK, Ending, ShutdownLast
    <3>2. call[u].do \in Asks
      BY <2>1, Goroutines DEF CallsOK
    <3>. QED  BY <2>1, <3>1, <3>2 DEF AsksOK, Handled, Asks
  <2>4. answer'[u] = Return(TRUE, result[u]) \/ answer'[u] = Return(TRUE, Reply(cached))
    BY <1>6, Types, Goroutines DEF Abandoned
  <2>5. answer'[u].reply.ok
    BY <2>3, <2>4 DEF Return, Reply
  <2>. QED  BY <2>1, <2>2, <2>5 DEF AcceptedIsResolved
<1>7. ASSUME NEW s \in Shells, NEW killed \in BOOLEAN, ShellEnds(s, killed)
      PROVE  AcceptedIsResolved'
  <2>1. \A v \in Users : pc'[v] = "idle" =>
            pc[v] = "idle" /\ answer'[v] = answer[v] /\ call'[v] = call[v]
    BY <1>7, Programs, Goroutines, Constants DEF ShellEnds
  <2>. QED  BY <2>1 DEF AcceptedIsResolved
<1>8. ASSUME Watch \/ ProgramQuits \/ Dispatch \/ Delivered \/ DispatcherStops \/ PullOperation
             \/ Settle \/ Settled
      PROVE  AcceptedIsResolved'
  <2>1. \A v \in Users : pc'[v] = "idle" =>
            pc[v] = "idle" /\ answer'[v] = answer[v] /\ call'[v] = call[v]
    BY <1>8, Programs, Goroutines, Constants
    DEF Watch, ProgramQuits, Leave, Dispatch, Delivered, DispatcherStops, PullOperation, Settle,
        ApplyBurst, Settled
  <2>. QED  BY <2>1 DEF AcceptedIsResolved
<1>9. ASSUME DrainEvents \/ CompleteDrain \/ ApplySubmission \/ ApplyRequest \/ ApplyShellResult
             \/ QuitSession \/ ShutdownSession \/ AwaitShells
      PROVE  AcceptedIsResolved'
  <2>1. \A v \in Users : pc'[v] = "idle" =>
            pc[v] = "idle" /\ answer'[v] = answer[v] /\ call'[v] = call[v]
    BY <1>9, Programs, Goroutines, Constants
    DEF DrainEvents, At, CompleteDrain, ApplySubmission, ApplyRequest, ApplyShellResult,
        QuitSession, DownSession, ShutdownSession, AwaitShells
  <2>. QED  BY <2>1 DEF AcceptedIsResolved
<1>10. ASSUME CloseDispatcher \/ Finish \/ Signal \/ ProgramEnds \/ UNCHANGED vars
       PROVE  AcceptedIsResolved'
  <2>1. \A v \in Users : pc'[v] = "idle" =>
            pc[v] = "idle" /\ answer'[v] = answer[v] /\ call'[v] = call[v]
    BY <1>10, Programs, Goroutines, Constants
    DEF CloseDispatcher, Finish, Signal, ProgramEnds, Leave, vars
  <2>. QED  BY <2>1 DEF AcceptedIsResolved
<1>11. ASSUME NEW u \in Users, Call(u)
       PROVE  AcceptedIsResolved'
  <2>1. \A v \in Users : pc'[v] = "idle" =>
            pc[v] = "idle" /\ answer'[v] = answer[v] /\ call'[v] = call[v]
    BY <1>11, Programs, Goroutines, Constants DEF Call
  <2>. QED  BY <2>1 DEF AcceptedIsResolved
<1>12. ASSUME NEW n \in Notifiers, Record(n)
       PROVE  AcceptedIsResolved'
  <2>1. \A v \in Users : pc'[v] = "idle" =>
            pc[v] = "idle" /\ answer'[v] = answer[v] /\ call'[v] = call[v]
    BY <1>12, Programs, Goroutines, Constants DEF Record
  <2>. QED  BY <2>1 DEF AcceptedIsResolved
<1>. QED  BY <1>1, <1>2, <1>3, <1>4, <1>5, <1>6, <1>7, <1>8, <1>9, <1>10, <1>11, <1>12
          DEF Next, Step, RequestClose, Executing

(***************************************************************************)
(* The invariant holds at the start and is kept                            *)
(***************************************************************************)

LEMMA StartsRight == Init => IInv
<1>. SUFFICES ASSUME Init PROVE IInv
  OBVIOUS
<1>. USE DEF Init
<1>1. \A p \in Procs :
          /\ p \in Users \cup Notifiers => pc[p] = "idle"
          /\ p \in Shells => pc[p] = "none"
          /\ p = Main => pc[p] = "program"
          /\ p = Watcher => pc[p] = "watch"
          /\ p = Exec \/ p = Disp => pc[p] = "pull"
  BY Constants DEF Main, Watcher, Exec, Disp
<1>2. \A p \in Procs : pc[p] \in {"idle", "none", "program", "watch", "pull"}
  BY <1>1 DEF Procs
<1>3. room = Nothing /\ room.events = 0 /\ room.lines = 0 /\ Nothing \in Versions
  BY ValuesTyped DEF Nothing, Shown
<1>4. /\ ops.buf = <<>> /\ ops.closed = FALSE /\ op.do = "none"
      /\ dispatch.buf = <<StateChanged(Nothing)>> /\ dispatch.closed = FALSE
      /\ StateChanged(Nothing).kind = "state" /\ StateChanged(Nothing).shown = Nothing
      /\ StateChanged(Nothing) \in Events
  BY EventsTyped, ValuesTyped
  DEF NewQueue, NoOp, Operation, StateChanged, Event
<1>5. Typed
  <2>1. /\ scene \in [calls : [Users -> Seq(Calls)], events : 0..MaxEvents,
                      signal : BOOLEAN, leaves : BOOLEAN]
        /\ todo \in [Users -> Seq(Calls)]
    BY Constants
  <2>2. pc \in [Procs -> Pcs] /\ call \in [Procs -> Operations]
    <3>1. DOMAIN pc = Procs /\ pc = [p \in Procs |-> pc[p]]
      OBVIOUS
    <3>. QED  BY <1>2, <3>1, RequestsTyped DEF Pcs
  <2>3. /\ ops \in QueueOf(Operations) /\ dispatch \in QueueOf(Events)
        /\ front \in QueueOf(Events)
    <3>1. NewQueue \in QueueOf(Operations) /\ NewQueue \in QueueOf(Events)
      BY DEF NewQueue, QueueOf
    <3>2. [NewQueue EXCEPT !.buf = <<StateChanged(Nothing)>>] \in QueueOf(Events)
      <4>1. <<StateChanged(Nothing)>> \in Seq(Events)
        BY <1>4
      <4>. QED  BY <4>1 DEF NewQueue, QueueOf
    <3>. QED  BY <3>1, <3>2
  <2>4. inbox \in 0..MaxEvents /\ scene.events + inbox + room.events <= MaxEvents
    BY <1>3, <2>1, Constants
  <2>5. /\ result \in [Procs -> Replies] /\ seen \in [Procs -> Versions]
        /\ answer \in [Procs -> [taken : BOOLEAN, reply : Replies]]
    BY ValuesTyped
  <2>6. op \in Operations /\ accepted \in Seq(Operations) /\ answered \in Seq(Operations)
    BY RequestsTyped
  <2>. QED  BY <1>3, <2>1, <2>2, <2>3, <2>4, <2>5, <2>6 DEF Typed, TypeOK
<1>6. GateOK /\ CallsOK /\ ExecOK /\ ShellsOK /\ FreshOK
  BY <1>1, <1>2, Goroutines, Constants
  DEF GateOK, CallsOK, ExecOK, ShellsOK, FreshOK, Ending, NoResult
<1>7. ShutdownLast /\ AsksOK
  BY <1>1, <1>4, Goroutines DEF ShutdownLast, AsksOK, Asks
<1>8. BarrierLast /\ ShownOK /\ SeenOK
  <2>1. \A k \in DOMAIN dispatch.buf : dispatch.buf[k] = StateChanged(Nothing)
    BY <1>4
  <2>2. NotAhead(Nothing, Nothing)
    BY DEF NotAhead, Nothing, Shown
  <2>. QED  BY <1>1, <1>3, <1>4, <2>1, <2>2, Goroutines
            DEF BarrierLast, ShownOK, SeenOK, SeenOf
<1>9. OrderOK /\ FlushOK
  <2>1. PICK f : f = [m \in 1 .. 0 |-> m]
    OBVIOUS
  <2>2. DOMAIN f = {} /\ 1 .. 0 = {} /\ \A S : f \in [1 .. 0 -> S]
    BY <2>1
  <2>3. Base = 0 /\ Len(accepted) = 0 /\ Len(answered) = 0
    BY <1>1, <1>3, Goroutines DEF Base
  <2>4. Queued(f) /\ Behind(f)
    BY <1>4, <2>2, <2>3 DEF Queued, Behind
  <2>5. Published(f)
    BY <1>3, <1>4, <2>2, <2>3 DEF Published
  <2>. QED  BY <1>1, <1>3, <2>3, <2>4, <2>5, Goroutines DEF OrderOK, FlushOK
<1>10. ReadsAreCurrent /\ AcceptedIsResolved
  BY Goroutines DEF ReadsAreCurrent, AcceptedIsResolved, Return, NoResult
<1>. QED  BY <1>5, <1>6, <1>7, <1>8, <1>9, <1>10 DEF IInv

LEMMA StepsRight == IInv /\ [Next]_vars => IInv'
<1>. SUFFICES ASSUME IInv, [Next]_vars PROVE IInv'
  OBVIOUS
<1>1. Typed'
  BY TypesKept DEF IInv
<1>2. GateOK' /\ CallsOK' /\ ExecOK' /\ ShellsOK'
  BY GateKept, CallsKept, ExecKept, ShellsKept DEF IInv
<1>3. ShutdownLast' /\ AsksOK' /\ FreshOK'
  BY ShutdownKept, AsksKept, FreshKept DEF IInv
<1>4. BarrierLast' /\ FlushOK' /\ ShownOK'
  BY <1>1, BarrierKept, FlushKept, ShownKept DEF IInv
<1>5. OrderOK' /\ SeenOK'
  BY <1>1, OrderKept, SeenKept DEF IInv
<1>6. ReadsAreCurrent' /\ AcceptedIsResolved'
  BY ReadsKept, AcceptedKept DEF IInv
<1>. QED  BY <1>1, <1>2, <1>3, <1>4, <1>5, <1>6 DEF IInv

-----------------------------------------------------------------------------
(* The theorems *)

\* The inductive invariant holds: what every step relies on of the goroutines'
\* places, the queues and the counts is so in every reachable state.
THEOREM Invariant == Spec => []IInv
BY StartsRight, StepsRight, PTL DEF Spec

\* Every variable keeps its type, however many goroutines, calls and events.
THEOREM TypeCorrect == Spec => []TypeOK
<1>1. IInv => TypeOK
  BY DEF IInv, Typed
<1>. QED  BY <1>1, Invariant, PTL

\* No snapshot is older than its reader has reason to expect, whether it comes
\* from the executor, from the cache after a refusal, or from a channel looked
\* at again when the executor is gone (executor.go snapshot).
THEOREM NoReadIsStale == Spec => []ReadsAreCurrent
<1>1. IInv => ReadsAreCurrent
  BY DEF IInv
<1>. QED  BY <1>1, Invariant, PTL

\* No accepted request returns ErrClosed or an empty result, however it meets a
\* shutdown (executor.go resolveCommand, stage_operations.go runStageOperation).
THEOREM NoRequestIsDropped == Spec => []AcceptedIsResolved
<1>1. IInv => AcceptedIsResolved
  BY DEF IInv
<1>. QED  BY <1>1, Invariant, PTL

\* What is left when the executor is done.
LEMMA Quiet ==
    ASSUME IInv, done
    PROVE  /\ pc[Exec] = "end" /\ op.do = "shutdown" /\ once = "over"
           /\ ops.buf = <<>> /\ dispatch.buf = <<>> /\ stopped
           /\ room.lines = Len(answered) /\ Len(answered) = Len(accepted)
<1>1. /\ pc[Exec] = "end" /\ op.do = "shutdown" /\ once = "over"
      /\ ops.buf = <<>> /\ dispatch.buf = <<>> /\ stopped
  BY DEF IInv, ExecOK, Ending, ShutdownLast, BarrierLast
<1>2. /\ room.lines \in Nat /\ Len(answered) \in Nat /\ Len(accepted) \in Nat
      /\ Len(answered) <= room.lines /\ Base = room.lines /\ Base <= Len(accepted)
  BY <1>1, Types DEF IInv, FlushOK, OrderOK, Base
<1>3. DOMAIN ops.buf = {} /\ DOMAIN dispatch.buf = {}
  BY <1>1
<1>4. room.lines = Len(accepted)
  <2>1. PICK f : Queued(f)
    BY DEF IInv, OrderOK
  <2>2. \A m \in Base + 1 .. Len(accepted) : FALSE
    BY <1>3, <2>1 DEF Queued
  <2>. QED  BY <1>2, <2>2
<1>5. Len(answered) = room.lines
  <2>1. PICK g : Published(g)
    BY DEF IInv, FlushOK
  <2>2. \A m \in Len(answered) + 1 .. room.lines : FALSE
    BY <1>3, <2>1 DEF Published
  <2>. QED  BY <1>2, <2>2
<1>. QED  BY <1>1, <1>4, <1>5

\* Every accepted submission is answered once, in the order of acceptance, and
\* has been by the time the executor is done (event_dispatcher.go Close).
THEOREM NoOutcomeIsLost == Spec => []OutcomesFlushed
<1>1. ASSUME IInv PROVE OutcomesFlushed
  <2>1. /\ accepted \in Seq(Operations) /\ answered \in Seq(Operations)
        /\ room.lines \in Nat /\ Len(answered) \in Nat /\ Len(accepted) \in Nat
    BY <1>1, Types DEF IInv
  <2>2. Len(answered) <= Len(accepted)
    BY <1>1, <2>1 DEF IInv, FlushOK, OrderOK, Base
  <2>3. \A m \in 1 .. Len(answered) : answered[m] = accepted[m]
    BY <1>1, <2>1 DEF IInv, FlushOK
  <2>4. SubSeq(answered, 1, Len(answered)) = SubSeq(accepted, 1, Len(answered))
    BY <2>1, <2>2, <2>3
  <2>5. ASSUME done PROVE answered = accepted
    BY <1>1, <2>1, <2>3, <2>5, Quiet
  <2>. QED  BY <2>2, <2>4, <2>5 DEF OutcomesFlushed, IsPrefix
<1>. QED  BY <1>1, Invariant, PTL

\* When the executor is done, no shell runs, both queues are empty, the mutex is
\* free and the cache is current (executor.go shutdownOperation.apply).
THEOREM DoneLeavesNothing == Spec => []DoneIsQuiet
<1>1. ASSUME IInv PROVE DoneIsQuiet
  <2>. SUFFICES ASSUME done
       PROVE  /\ \A s \in Shells : pc[s] \in {"none", "ended"}
              /\ stopped /\ ~HasValue(dispatch)
              /\ ~HasValue(ops) /\ mutex = Nobody
              /\ cached = room
    BY DEF DoneIsQuiet
  <2>1. /\ pc[Exec] = "end" /\ once = "over" /\ stopped
        /\ ~HasValue(dispatch) /\ ~HasValue(ops)
    BY <1>1, Quiet DEF HasValue
  <2>2. mutex = Nobody
    BY <1>1, <2>1 DEF IInv, GateOK, Typed, TypeOK
  <2>. QED  BY <1>1, <2>1, <2>2 DEF IInv, ShellsOK, ShownOK
<1>. QED  BY <1>1, Invariant, PTL

==============================================================================
