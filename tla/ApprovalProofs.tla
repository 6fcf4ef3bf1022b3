---------------------------- MODULE ApprovalProofs ----------------------------
(***************************************************************************)
(* What holds of Approvals for any number of requests: the types, that the *)
(* interpreter follows the hub, and that the hub keeps the promise of      *)
(* ApprovalDesk.                                                           *)
(***************************************************************************)
EXTENDS Approvals, TLAPS

(***************************************************************************)
(* Sequences                                                               *)
(***************************************************************************)

LEMMA Appended ==
    ASSUME NEW S, NEW s \in Seq(S), NEW e \in S
    PROVE  /\ Append(s, e) \in Seq(S)
           /\ Len(Append(s, e)) = Len(s) + 1
           /\ Append(s, e)[Len(s) + 1] = e
           /\ \A j \in 1 .. Len(s) : Append(s, e)[j] = s[j]
OBVIOUS

LEMMA Split ==
    ASSUME NEW S, NEW s \in Seq(S), s # <<>>
    PROVE  /\ Head(s) \in S
           /\ Head(s) = s[1]
           /\ Len(s) \in Nat \ {0}
           /\ Tail(s) \in Seq(S)
           /\ Len(Tail(s)) = Len(s) - 1
           /\ \A j \in 1 .. Len(s) - 1 : Tail(s)[j] = s[j + 1]
OBVIOUS

LEMMA WithoutOne ==
    ASSUME NEW S, NEW s \in Seq(S), NEW k \in 1 .. Len(s)
    PROVE  /\ Without(s, k) \in Seq(S)
           /\ Len(Without(s, k)) = Len(s) - 1
           /\ \A j \in 1 .. Len(s) - 1 :
                 Without(s, k)[j] = IF j < k THEN s[j] ELSE s[j + 1]
<1>. DEFINE n == Len(s) - 1
            w == [j \in 1 .. n |-> IF j < k THEN s[j] ELSE s[j + 1]]
<1>1. n \in Nat /\ \A j \in 1 .. n : s[j] \in S /\ s[j + 1] \in S
  OBVIOUS
<1>2. w \in [1 .. n -> S]
  BY <1>1
<1>3. w \in Seq(S) /\ Len(w) = n
  BY <1>1, <1>2
<1>. QED  BY <1>3 DEF Without

(***************************************************************************)
(* Types                                                                   *)
(***************************************************************************)

LEMMA Numbers == /\ Requests \subseteq Nat \ {0}
                 /\ IDs = Requests \cup {0}
                 /\ Nobody = 0 /\ Nobody \notin Requests
                 /\ \A r \in Requests : \A n \in Nat \ {0} : n <= r => n \in Requests
BY ApprovalAssumption DEF Requests, IDs, Nobody

LEMMA EventsTyped ==
    /\ \A r \in Requests : Requested(r) \in Events /\ Cleared(r) \in Events
    /\ [kind |-> "other", id |-> Nobody] \in Events
BY DEF Requested, Cleared, Events, IDs

LEMMA OperationsTyped ==
    /\ Drain \in Operation
    /\ \A id \in IDs, c \in Requests, f \in Requests :
          [kind |-> "resolve", id |-> id, choice |-> c, from |-> f] \in Operation
BY DEF Operation

LEMMA NextActiveTyped ==
    ASSUME TypeOK
    PROVE  /\ NextActive \in IDs
           /\ queue # <<>> => NextActive \in Requests
           /\ (IF queue = <<>> THEN queue ELSE Tail(queue)) \in Seq(Requests)
<1>1. CASE queue = <<>>
  BY <1>1 DEF TypeOK, NextActive, IDs
<1>2. CASE queue # <<>>
  BY <1>2, Split DEF TypeOK, NextActive, IDs
<1>. QED  BY <1>1, <1>2

\* The records of the executor.
LEMMA ExecTyped ==
    ASSUME TypeOK
    PROVE  /\ \A pc \in ExecPCs : [ex EXCEPT !.pc = pc] \in [pc : ExecPCs, op : Operation]
           /\ \A pc \in ExecPCs, op \in Operation :
                 [pc |-> pc, op |-> op] \in [pc : ExecPCs, op : Operation]
           /\ ex.pc \in ExecPCs /\ ex.op \in Operation
<1>1. ex \in [pc : ExecPCs, op : Operation]
  BY DEF TypeOK
<1>. QED  BY <1>1

LEMMA InitTyped == Init => TypeOK
<1>1. <<>> \in Seq(Requests) /\ <<>> \in Seq(Events) /\ <<>> \in Seq(Operation)
      /\ <<>> \in Seq(IDs)
  OBVIOUS
<1>2. ASSUME Init
      PROVE  ex \in [pc : ExecPCs, op : Operation]
  BY <1>2, OperationsTyped DEF Init, ExecPCs
<1>3. ASSUME Init
      PROVE  rq \in [Requests -> Calls] /\ resp \in [Requests -> IDs]
  BY <1>3 DEF Init, Calls, IDs
<1>4. ASSUME Init
      PROVE  0 \in IDs /\ others \in 0 .. MaxOthers /\ pending \subseteq KeyMessages \cup Decisions
  BY <1>4, ApprovalAssumption DEF Init, IDs, Nobody
<1>. HIDE DEF IDs
<1>5. ASSUME Init
      PROVE  /\ queue \in Seq(Requests) /\ inbox \in Seq(Events)
             /\ ops \in Seq(Operation) /\ screens \in Seq(IDs)
  BY <1>1, <1>5 DEF Init
<1>. QED  BY <1>2, <1>3, <1>4, <1>5 DEF Init, TypeOK, Nobody

\* What Record leaves behind.
LEMMA RecordTyped ==
    ASSUME TypeOK, NEW e \in Events, NEW who \in {"hub", "other"}, Record(who, e)
    PROVE  /\ inbox' \in Seq(Events)
           /\ drainPending' \in BOOLEAN
           /\ wake' \in {"none", "hub", "other"}
<1>1. inbox' \in Seq(Events)
  BY Appended DEF Record, TypeOK
<1>. QED  BY <1>1 DEF Record, TypeOK

LEMMA HubTypes ==
    ASSUME TypeOK, NEW r \in Requests, Request(r) \/ Cancel(r)
    PROVE  TypeOK'
<1>. USE DEF hub, calls, box, exec, ui
<1>1. CASE Request(r)
  <2>1. lastID' \in IDs /\ active' \in IDs /\ rq' \in [Requests -> Calls]
    <3>1. rq' \in [Requests -> Calls]
      BY <1>1 DEF Request, TypeOK, Calls
    <3>2. lastID' = r /\ active' \in {r, active}
      BY <1>1 DEF Request
    <3>. QED  BY <3>1, <3>2 DEF TypeOK, IDs
  <2>2. queue' \in Seq(Requests)
    <3>1. Append(queue, r) \in Seq(Requests)
      BY Appended DEF TypeOK
    <3>. QED  BY <1>1, <3>1 DEF Request, TypeOK
  <2>3. /\ inbox' \in Seq(Events) /\ drainPending' \in BOOLEAN
        /\ wake' \in {"none", "hub", "other"}
    <3>1. CASE active = Nobody
      BY <1>1, <3>1, EventsTyped, RecordTyped DEF Request
    <3>2. CASE active # Nobody
      BY <1>1, <3>2 DEF Request, TypeOK
    <3>. QED  BY <3>1, <3>2
  <2>. QED  BY <1>1, <2>1, <2>2, <2>3 DEF Request, TypeOK
<1>2. CASE Cancel(r)
  <2>1. rq' \in [Requests -> Calls] /\ active' \in IDs
    BY <1>2, NextActiveTyped DEF Cancel, Pop, TypeOK, Calls
  <2>2. queue' \in Seq(Requests)
    <3>1. CASE active = r
      BY <1>2, <3>1, NextActiveTyped DEF Cancel, Pop
    <3>2. CASE active # r
      <4>1. \A k \in Queued(r) : Without(queue, k) \in Seq(Requests)
        <5>1. queue \in Seq(Requests) /\ DOMAIN queue = 1 .. Len(queue)
          BY DEF TypeOK
        <5>. QED  BY <5>1, WithoutOne DEF Queued
      <4>2. CASE Queued(r) = {}
        BY <1>2, <3>2, <4>2 DEF Cancel, TypeOK
      <4>3. CASE Queued(r) # {}
        BY <1>2, <3>2, <4>1, <4>3 DEF Cancel
      <4>. QED  BY <4>2, <4>3
    <3>. QED  BY <3>1, <3>2
  <2>3. /\ inbox' \in Seq(Events) /\ drainPending' \in BOOLEAN
        /\ wake' \in {"none", "hub", "other"}
    <3>1. CASE active = r
      <4>1. (IF queue = <<>> THEN Cleared(r) ELSE Requested(NextActive)) \in Events
        BY NextActiveTyped, EventsTyped
      <4>. QED  BY <1>2, <3>1, <4>1, RecordTyped DEF Cancel
    <3>2. CASE active # r
      BY <1>2, <3>2 DEF Cancel, TypeOK
    <3>. QED  BY <3>1, <3>2
  <2>. QED  BY <1>2, <2>1, <2>2, <2>3 DEF Cancel, TypeOK
<1>. QED  BY <1>1, <1>2

LEMMA CallTypes ==
    ASSUME TypeOK, NEW r \in Requests, ContextDone(r) \/ Decided(r) \/ Abandon(r)
    PROVE  TypeOK'
BY DEF TypeOK, ContextDone, Decided, Abandon, Calls, hub, box, exec, ui, vars

LEMMA EventTypes ==
    ASSUME TypeOK, Wake \/ OtherEvent
    PROVE  TypeOK'
<1>. USE DEF hub, calls, box, exec, ui
<1>1. CASE Wake
  <2>1. ops' \in Seq(Operation)
    BY <1>1, Appended, OperationsTyped DEF Wake, TypeOK
  <2>. QED  BY <1>1, <2>1 DEF Wake, TypeOK
<1>2. CASE OtherEvent
  <2>1. others' \in 0 .. MaxOthers
    BY <1>2, ApprovalAssumption DEF OtherEvent, TypeOK
  <2>. QED  BY <1>2, <2>1, RecordTyped, EventsTyped DEF OtherEvent, TypeOK
<1>. QED  BY <1>1, <1>2

\* The inbox always has a last request, or none.
Latests(events) == {k \in 0 .. Len(events) : IsLatest(events, k)}
HasLatest == Latests(inbox) # {}

LEMMA LatestIs ==
    ASSUME HasLatest
    PROVE  Latest(inbox) \in 0 .. Len(inbox) /\ IsLatest(inbox, Latest(inbox))
BY DEF HasLatest, Latest, Latests

LEMMA ApplyTyped ==
    ASSUME TypeOK, HasLatest
    PROVE  ApplyEvents(approval, inbox) \in IDs
<1>. DEFINE k == Latest(inbox)
            id == IF k = 0 THEN approval ELSE inbox[k].id
<1>1. k \in 0 .. Len(inbox)
  BY LatestIs
<1>. HIDE DEF k
<1>2. id \in IDs
  <2>1. CASE k = 0
    BY <2>1 DEF TypeOK
  <2>2. CASE k # 0
    <3>1. inbox[k] \in Events
      BY <1>1, <2>2 DEF TypeOK
    <3>. QED  BY <2>2, <3>1 DEF Events
  <2>. QED  BY <2>1, <2>2
<1>3. ApplyEvents(approval, inbox) \in {id, Nobody}
  BY DEF ApplyEvents, k
<1>. QED  BY <1>2, <1>3 DEF IDs

LEMMA ExecTypes ==
    ASSUME TypeOK, HasLatest, ExecStep
    PROVE  TypeOK'
<1>. USE DEF hub, calls, box, exec, ui
<1>x. {"pull", "before", "drain", "complete", "check", "execute", "after"} \subseteq ExecPCs
  BY DEF ExecPCs
<1>1. CASE Pull
  <2>1. ex' \in [pc : ExecPCs, op : Operation] /\ ops' \in Seq(Operation)
    BY <1>1, <1>x, Split DEF Pull, TypeOK
  <2>. QED  BY <1>1, <2>1 DEF Pull, TypeOK
<1>2. CASE TakeEvents
  <2>1. inbox' \in Seq(Events) /\ approval' \in IDs
    BY <1>2, ApplyTyped DEF TakeEvents
  <2>2. screens' \in Seq(IDs)
    BY <1>2, <2>1, Appended DEF TakeEvents, TypeOK
  <2>. QED  BY <1>2, <2>1, <2>2 DEF TakeEvents, TypeOK
<1>3. CASE TakeNothing
  <2>1. ex' \in [pc : ExecPCs, op : Operation]
    BY <1>3, <1>x, ExecTyped DEF TakeNothing, Go
  <2>. QED  BY <1>3, <2>1 DEF TakeNothing, TypeOK
<1>4. CASE CompleteDrain
  <2>1. ex' \in [pc : ExecPCs, op : Operation]
    BY <1>4, <1>x, ExecTyped, OperationsTyped DEF CompleteDrain, Go, Finish
  <2>. QED  BY <1>4, <2>1 DEF CompleteDrain, TypeOK
<1>5. CASE Check
  <2>1. ex' \in [pc : ExecPCs, op : Operation]
    BY <1>5, <1>x, ExecTyped, OperationsTyped DEF Check, Go, Finish
  <2>. QED  BY <1>5, <2>1 DEF Check, TypeOK
<1>6. CASE Resolve
  <2>1. ex' \in [pc : ExecPCs, op : Operation]
    BY <1>6, <1>x, ExecTyped, OperationsTyped DEF Resolve, Finish
  <2>2. active' \in IDs /\ queue' \in Seq(Requests)
    BY <1>6, NextActiveTyped DEF Resolve, Pop
  <2>3. resp' \in [Requests -> IDs]
    <3>1. ex.op.choice \in IDs
      BY ExecTyped DEF Operation, Drain, IDs
    <3>. QED  BY <1>6, <3>1 DEF Resolve, TypeOK
  <2>4. approval' \in IDs /\ screens' \in Seq(IDs)
    <3>1. approval' \in IDs
      BY <1>6 DEF Resolve, TypeOK, IDs
    <3>. QED  BY <1>6, <3>1, Appended DEF Resolve, TypeOK
  <2>5. /\ inbox' \in Seq(Events) /\ drainPending' \in BOOLEAN
        /\ ops' \in Seq(Operation)
    <3>1. CASE queue = <<>>
      BY <1>6, <3>1 DEF Resolve, TypeOK
    <3>2. CASE queue # <<>>
      <4>1. Requested(NextActive) \in Events
        BY <3>2, NextActiveTyped, EventsTyped
      <4>2. /\ inbox' = Append(inbox, Requested(NextActive))
            /\ drainPending' = TRUE
            /\ ops' \in {ops, Append(ops, Drain)}
        BY <1>6, <3>2 DEF Resolve
      <4>3. inbox' \in Seq(Events)
        BY <4>1, <4>2, Appended DEF TypeOK
      <4>4. ops' \in Seq(Operation)
        <5>1. Append(ops, Drain) \in Seq(Operation)
          BY OperationsTyped, Appended DEF TypeOK
        <5>. QED  BY <4>2, <5>1 DEF TypeOK
      <4>. QED  BY <4>2, <4>3, <4>4
    <3>. QED  BY <3>1, <3>2
  <2>. QED  BY <1>6, <2>1, <2>2, <2>3, <2>4, <2>5 DEF Resolve, TypeOK
<1>7. CASE ResolveTooLate
  <2>1. ex' \in [pc : ExecPCs, op : Operation]
    BY <1>7, <1>x, ExecTyped, OperationsTyped DEF ResolveTooLate, Finish
  <2>. QED  BY <1>7, <2>1 DEF ResolveTooLate, TypeOK
<1>. QED  BY <1>1, <1>2, <1>3, <1>4, <1>5, <1>6, <1>7 DEF ExecStep

LEMMA UITypes ==
    ASSUME TypeOK, UIStep \/ PressKey \/ PressCancel
    PROVE  TypeOK'
<1>. USE DEF hub, calls, box, exec, ui
<1>t. shown # Nobody => shown \in Requests
  BY DEF TypeOK, IDs
<1>m. \A c, f \in Requests : /\ [kind |-> "key", choice |-> c] \in KeyMessages
                             /\ [kind |-> "decision", choice |-> c, from |-> f] \in Decisions
  BY DEF KeyMessages, Decisions
<1>d. \A c \in Requests : shown \in Requests =>
          Take(c) \subseteq KeyMessages \cup Decisions
  <2>1. pending \subseteq KeyMessages \cup Decisions
    BY DEF TypeOK
  <2>. QED  BY <2>1, <1>m DEF Take
<1>1. CASE Present
  <2>1. screens' \in Seq(IDs) /\ Head(screens) \in IDs
    BY <1>1, Split DEF Present, TypeOK
  <2>. QED  BY <1>1, <2>1 DEF Present, TypeOK
<1>2. CASE PressKey
  <2>1. [kind |-> "key", choice |-> shown] \in KeyMessages
    BY <1>2, <1>t, <1>m DEF PressKey
  <2>. QED  BY <1>2, <2>1 DEF PressKey, TypeOK
<1>3. CASE PressCancel
  <2>1. Take(shown) \subseteq KeyMessages \cup Decisions
    BY <1>3, <1>t, <1>d DEF PressCancel
  <2>. QED  BY <1>3, <2>1 DEF PressCancel, TypeOK, IDs
<1>4. ASSUME NEW m \in pending, HandleKey(m)
      PROVE  TypeOK'
  <2>0. m.choice \in Requests
    BY <1>4 DEF HandleKey, KeyMessages
  <2>1. shown # Nobody => Take(m.choice) \subseteq KeyMessages \cup Decisions
    BY <2>0, <1>t, <1>d
  <2>. QED  BY <1>4, <2>1 DEF HandleKey, TypeOK, IDs
<1>5. ASSUME NEW m \in pending, SendDecision(m)
      PROVE  TypeOK'
  <2>0. m.choice \in Requests /\ m.from \in Requests
    BY <1>5 DEF SendDecision, Decisions
  <2>1. ops' \in Seq(Operation)
    BY <1>5, <2>0, Appended, OperationsTyped DEF SendDecision, TypeOK
  <2>. QED  BY <1>5, <2>1 DEF SendDecision, TypeOK, IDs
<1>. QED  BY <1>1, <1>2, <1>3, <1>4, <1>5 DEF UIStep

(***************************************************************************)
(* The line of the hub                                                     *)
(***************************************************************************)

\* The line is in the order of the ids, which are given out one after the
\* other; nothing in it, and nothing not yet asked, is decided.
Ordered ==
    /\ active <= lastID
    /\ \A k \in 1 .. Len(queue) :
          active # Nobody /\ active < queue[k] /\ queue[k] <= lastID
    /\ \A j, k \in 1 .. Len(queue) : j < k => queue[j] < queue[k]
Undone ==
    /\ \A r \in Requests : r > lastID => rq[r] = "none" /\ resp[r] = Nobody
    /\ \A r \in Undecided : resp[r] = Nobody
HubOrder == Ordered /\ Undone

\* The set of the line, without DOMAIN.
LEMMA UndecidedIs ==
    ASSUME TypeOK
    PROVE  /\ \A r : r \in Undecided <=> \/ r = active /\ active # Nobody
                                       \/ \E k \in 1 .. Len(queue) : r = queue[k]
           /\ Undecided \subseteq Requests
<1>1. queue \in Seq(Requests) /\ DOMAIN queue = 1 .. Len(queue) /\ active \in IDs
  BY DEF TypeOK
<1>2. \A k \in 1 .. Len(queue) : queue[k] \in Requests
  BY <1>1
<1>. QED  BY <1>1, <1>2 DEF Undecided, IDs

LEMMA HubNats ==
    ASSUME TypeOK
    PROVE  /\ queue \in Seq(Requests) /\ Len(queue) \in Nat
           /\ DOMAIN queue = 1 .. Len(queue)
           /\ active \in Nat /\ lastID \in Nat /\ approval \in Nat
           /\ \A k \in 1 .. Len(queue) : queue[k] \in Requests /\ queue[k] \in Nat
           /\ Requests \subseteq Nat \ {0} /\ Nobody = 0
<1>1. IDs \subseteq Nat /\ Requests \subseteq Nat \ {0} /\ Nobody = 0
  BY Numbers
<1>2. active \in IDs /\ lastID \in IDs /\ approval \in IDs
  BY DEF TypeOK
<1>3. queue \in Seq(Requests)
  BY DEF TypeOK
<1>4. \A k \in 1 .. Len(queue) : queue[k] \in Requests
  BY <1>3
<1>5. Len(queue) \in Nat /\ DOMAIN queue = 1 .. Len(queue)
  BY <1>3
<1>6. active \in Nat /\ lastID \in Nat /\ approval \in Nat
  BY <1>1, <1>2
<1>7. \A k \in 1 .. Len(queue) : queue[k] \in Nat
  BY <1>1, <1>4
<1>. QED  BY <1>1, <1>3, <1>4, <1>5, <1>6, <1>7

\* Popping takes the active request out of the line, and leaves it ordered.
LEMMA PopKeeps ==
    ASSUME TypeOK, TypeOK', Ordered, active # Nobody, Pop, lastID' = lastID
    PROVE  /\ Ordered'
           /\ Undecided' = Undecided \ {active}
           /\ active' # Nobody => active < active'
<1>t. /\ queue \in Seq(Requests) /\ active \in Nat /\ lastID \in Nat
      /\ \A k \in 1 .. Len(queue) : queue[k] \in Requests /\ queue[k] \in Nat
      /\ Requests \subseteq Nat \ {0} /\ Nobody = 0
  BY HubNats
<1>1. CASE queue = <<>>
  <2>1. active' = Nobody /\ queue' = <<>>
    BY <1>1 DEF Pop, NextActive
  <2>2. Ordered'
    BY <2>1, <1>t DEF Ordered
  <2>3. Undecided = {active} /\ Undecided' = {}
    <3>1. DOMAIN queue = {} /\ DOMAIN queue' = {}
      BY <1>1, <2>1
    <3>. QED  BY <2>1, <3>1 DEF Undecided
  <2>. QED  BY <2>1, <2>2, <2>3
<1>2. CASE queue # <<>>
  <2>1. /\ active' = queue[1] /\ queue' = Tail(queue)
        /\ Len(queue) \in Nat \ {0} /\ Len(queue') = Len(queue) - 1
        /\ \A j \in 1 .. Len(queue) - 1 : queue'[j] = queue[j + 1]
    BY <1>2, <1>t, Split DEF Pop, NextActive
  <2>2. Ordered'
    <3>1. active' <= lastID'
      BY <2>1 DEF Ordered
    <3>2. \A k \in 1 .. Len(queue') :
             active' # Nobody /\ active' < queue'[k] /\ queue'[k] <= lastID'
      BY <2>1, <1>t DEF Ordered
    <3>3. \A j, k \in 1 .. Len(queue') : j < k => queue'[j] < queue'[k]
      BY <2>1, <1>t DEF Ordered
    <3>. QED  BY <3>1, <3>2, <3>3 DEF Ordered
  <2>3. active < active' /\ active' # Nobody
    BY <2>1, <1>t DEF Ordered
  <2>4. ASSUME NEW r
        PROVE  r \in Undecided' <=> r \in Undecided /\ r # active
    <3>1. r \in Undecided' <=> \/ r = queue[1]
                               \/ \E k \in 1 .. Len(queue) - 1 : r = queue[k + 1]
      <4>1. DOMAIN queue' = 1 .. Len(queue')
        BY DEF TypeOK
      <4>. QED  BY <2>1, <2>3, <4>1 DEF Undecided
    <3>2. (r = queue[1] \/ \E k \in 1 .. Len(queue) - 1 : r = queue[k + 1])
             <=> \E k \in 1 .. Len(queue) : r = queue[k]
      <4>1. \A k \in 1 .. Len(queue) : k = 1 \/ (k - 1 \in 1 .. Len(queue) - 1 /\ (k - 1) + 1 = k)
        BY <2>1
      <4>2. 1 \in 1 .. Len(queue) /\ \A k \in 1 .. Len(queue) - 1 : k + 1 \in 1 .. Len(queue)
        BY <2>1
      <4>. QED  BY <4>1, <4>2
    <3>3. \A k \in 1 .. Len(queue) : queue[k] # active
      BY <1>t DEF Ordered
    <3>. QED  BY <3>1, <3>2, <3>3, UndecidedIs
  <2>. QED  BY <2>2, <2>3, <2>4
<1>. QED  BY <1>1, <1>2

\* So does taking out one that waits.
LEMMA WithoutKeeps ==
    ASSUME TypeOK, TypeOK', Ordered, NEW k \in 1 .. Len(queue),
           queue' = Without(queue, k), active' = active, lastID' = lastID
    PROVE  Ordered' /\ Undecided' = Undecided \ {queue[k]}
<1>t. /\ queue \in Seq(Requests) /\ active \in Nat /\ lastID \in Nat
      /\ \A j \in 1 .. Len(queue) : queue[j] \in Requests /\ queue[j] \in Nat
      /\ Len(queue) \in Nat
  BY HubNats
<1>1. /\ Len(queue') = Len(queue) - 1
      /\ \A j \in 1 .. Len(queue) - 1 :
            queue'[j] = IF j < k THEN queue[j] ELSE queue[j + 1]
  <2>1. /\ Len(Without(queue, k)) = Len(queue) - 1
        /\ \A j \in 1 .. Len(queue) - 1 :
              Without(queue, k)[j] = IF j < k THEN queue[j] ELSE queue[j + 1]
    BY <1>t, WithoutOne
  <2>. QED  BY <2>1
<1>2. Ordered'
  <2>0. \A j \in 1 .. Len(queue') :
           /\ j \in 1 .. Len(queue) /\ j + 1 \in 1 .. Len(queue)
           /\ j < k => queue'[j] = queue[j]
           /\ ~ j < k => queue'[j] = queue[j + 1]
    BY <1>1, <1>t
  <2>1. \A j \in 1 .. Len(queue') :
           active' # Nobody /\ active' < queue'[j] /\ queue'[j] <= lastID'
    BY <2>0 DEF Ordered
  <2>2. ASSUME NEW i \in 1 .. Len(queue'), NEW j \in 1 .. Len(queue'), i < j
        PROVE  queue'[i] < queue'[j]
    <3>1. i + 1 < j + 1 /\ i < j + 1
      BY <2>2, <1>1, <1>t
    <3>2. ~ i < k => ~ j < k
      BY <2>2, <1>1, <1>t
    <3>. QED  BY <2>0, <2>2, <3>1, <3>2 DEF Ordered
  <2>. QED  BY <2>1, <2>2 DEF Ordered
<1>3. ASSUME NEW r
      PROVE  (\E j \in 1 .. Len(queue') : r = queue'[j])
                <=> (\E j \in 1 .. Len(queue) : r = queue[j]) /\ r # queue[k]
  <2>1. ASSUME NEW j \in 1 .. Len(queue')
        PROVE  queue'[j] # queue[k] /\ \E i \in 1 .. Len(queue) : queue'[j] = queue[i]
    <3>1. CASE j < k
      <4>1. j \in 1 .. Len(queue) /\ queue'[j] = queue[j] /\ queue[j] < queue[k]
        BY <3>1, <1>1, <1>t DEF Ordered
      <4>2. queue[j] # queue[k]
        BY <4>1, <1>t
      <4>. QED  BY <4>1, <4>2
    <3>2. CASE ~ j < k
      <4>1. /\ j + 1 \in 1 .. Len(queue) /\ queue'[j] = queue[j + 1]
            /\ k < j + 1 /\ queue[k] < queue[j + 1]
        BY <3>2, <1>1, <1>t DEF Ordered
      <4>2. queue[j + 1] # queue[k]
        BY <4>1, <1>t
      <4>. QED  BY <4>1, <4>2
    <3>. QED  BY <3>1, <3>2
  <2>2. ASSUME NEW j \in 1 .. Len(queue), queue[j] # queue[k]
        PROVE  \E i \in 1 .. Len(queue') : queue[j] = queue'[i]
    <3>1. CASE j < k
      <4>1. j \in 1 .. Len(queue') /\ queue'[j] = queue[j]
        BY <3>1, <1>1, <1>t
      <4>. QED  BY <4>1
    <3>2. CASE j > k
      <4>1. j - 1 \in 1 .. Len(queue') /\ queue'[j - 1] = queue[j]
        BY <3>2, <1>1, <1>t
      <4>. QED  BY <4>1
    <3>3. j # k
      BY <2>2
    <3>. QED  BY <3>1, <3>2, <3>3
  <2>. QED  BY <2>1, <2>2
<1>4. queue[k] # active
  BY <1>t DEF Ordered
<1>5. DOMAIN queue' = 1 .. Len(queue')
  BY DEF TypeOK
<1>6. ASSUME NEW r
      PROVE  r \in Undecided' <=> \/ r = active /\ active # Nobody
                                  \/ \E j \in 1 .. Len(queue') : r = queue'[j]
  BY <1>5 DEF Undecided
<1>7. \A r : r \in Undecided' <=> r \in Undecided /\ r # queue[k]
  BY <1>3, <1>4, <1>6, UndecidedIs
<1>. QED  BY <1>2, <1>7

(***************************************************************************)
(* The events of the inbox                                                 *)
(***************************************************************************)

LEMMA LatestUnique ==
    ASSUME NEW s \in Seq(Events), NEW k \in Latests(s)
    PROVE  Latest(s) = k
<1>1. Latest(s) \in Latests(s)
  BY DEF Latest, Latests
<1>2. ASSUME NEW i \in Latests(s), NEW j \in Latests(s), i < j
      PROVE  FALSE
  <2>1. j \in i + 1 .. Len(s) /\ j # 0
    BY <1>2 DEF Latests
  <2>. QED  BY <1>2, <2>1 DEF Latests, IsLatest
<1>3. Latest(s) \in Nat /\ k \in Nat
  BY <1>1 DEF Latests
<1>. QED  BY <1>1, <1>2, <1>3

\* What one more event does to what the interpreter will know.
LEMMA OneMore ==
    ASSUME NEW s \in Seq(Events), Latests(s) # {}, NEW e \in Events, NEW known
    PROVE  /\ Latests(Append(s, e)) # {}
           /\ e.kind = "requested" => ApplyEvents(known, Append(s, e)) = e.id
           /\ e.kind = "other" => ApplyEvents(known, Append(s, e)) = ApplyEvents(known, s)
           /\ /\ e.kind = "cleared"
              /\ ApplyEvents(known, s) = e.id
              => ApplyEvents(known, Append(s, e)) = Nobody
<1>. DEFINE t == Append(s, e)
            n == Len(s)
            k == Latest(s)
<1>1. /\ t \in Seq(Events) /\ n \in Nat /\ Len(t) = n + 1 /\ t[n + 1] = e
      /\ \A j \in 1 .. n : t[j] = s[j]
  BY Appended
<1>2. k \in 0 .. n /\ IsLatest(s, k)
  <2>1. k \in Latests(s)
    BY DEF Latest, Latests
  <2>. QED  BY <2>1 DEF Latests
<1>. HIDE DEF t, n, k
<1>n. n = Len(s)
  BY DEF n
<1>3. CASE e.kind = "requested"
  <2>1. n + 1 \in Latests(t)
    BY <1>1, <1>3 DEF Latests, IsLatest
  <2>2. Latest(t) = n + 1
    BY <1>1, <2>1, LatestUnique
  <2>3. ApplyEvents(known, t) = e.id
    BY <1>1, <2>2 DEF ApplyEvents
  <2>. QED  BY <1>3, <2>1, <2>3 DEF t
<1>4. CASE e.kind # "requested"
  <2>1. k \in Latests(t)
    <3>1. k \in 0 .. Len(t)
      BY <1>1, <1>2
    <3>2. k # 0 => t[k].kind = "requested"
      BY <1>1, <1>2 DEF IsLatest
    <3>3. \A j \in k + 1 .. Len(t) : t[j].kind # "requested"
      <4>1. \A j \in k + 1 .. n : t[j].kind # "requested"
        BY <1>1, <1>2, <1>n DEF IsLatest
      <4>. QED  BY <1>1, <1>2, <1>4, <4>1
    <3>. QED  BY <3>1, <3>2, <3>3 DEF Latests, IsLatest
  <2>2. Latest(t) = k /\ Latest(s) = k
    BY <1>1, <2>1, LatestUnique DEF k
  <2>. DEFINE id == IF k = 0 THEN known ELSE s[k].id
  <2>3. (IF k = 0 THEN known ELSE t[k].id) = id
    BY <1>1, <1>2
  <2>4. ApplyEvents(known, t) = IF \E j \in k + 1 .. n + 1 : t[j] = Cleared(id)
                                THEN Nobody ELSE id
    BY <1>1, <2>2, <2>3 DEF ApplyEvents
  <2>5. ApplyEvents(known, s) = IF \E j \in k + 1 .. n : s[j] = Cleared(id)
                                THEN Nobody ELSE id
    BY <2>2, <1>n DEF ApplyEvents
  <2>. HIDE DEF id
  <2>6. (\E j \in k + 1 .. n + 1 : t[j] = Cleared(id))
           <=> (\E j \in k + 1 .. n : s[j] = Cleared(id)) \/ e = Cleared(id)
    BY <1>1, <1>2
  <2>7. CASE e.kind = "other"
    <3>1. e # Cleared(id)
      BY <2>7 DEF Cleared
    <3>. QED  BY <1>4, <2>1, <2>4, <2>5, <2>6, <2>7, <3>1 DEF t
  <2>8. CASE e.kind = "cleared"
    <3>1. ASSUME ApplyEvents(known, s) = e.id
          PROVE  ApplyEvents(known, t) = Nobody
      <4>1. CASE \E j \in k + 1 .. n : s[j] = Cleared(id)
        BY <4>1, <2>4, <2>6
      <4>2. CASE ~ \E j \in k + 1 .. n : s[j] = Cleared(id)
        <5>1. id = e.id
          BY <3>1, <4>2, <2>5
        <5>2. e = Cleared(id)
          BY <5>1, <2>8 DEF Cleared, Events
        <5>. QED  BY <5>2, <2>4, <2>6
      <4>. QED  BY <4>1, <4>2
    <3>. QED  BY <1>4, <2>1, <2>8, <3>1 DEF t
  <2>9. e.kind \in {"requested", "cleared", "other"}
    BY DEF Events
  <2>. QED  BY <1>4, <2>7, <2>8, <2>9
<1>. QED  BY <1>3, <1>4

\* Without a request in it, the inbox can only clear what is known.
LEMMA NoneRequested ==
    ASSUME NEW s \in Seq(Events), \A k \in 1 .. Len(s) : s[k].kind # "requested",
           NEW known
    PROVE  /\ 0 \in Latests(s)
           /\ ApplyEvents(known, s) \in {known, Nobody}
           /\ ApplyEvents(Nobody, s) = Nobody
<1>1. 0 \in Latests(s)
  BY DEF Latests, IsLatest
<1>2. Latest(s) = 0
  BY <1>1, LatestUnique
<1>. QED  BY <1>1, <1>2 DEF ApplyEvents

(***************************************************************************)
(* Steps of the hub                                                        *)
(***************************************************************************)

\* The interpreter knows no request ahead of the hub, and every request still
\* in the inbox is a later one than it knows.
Behind ==
    /\ approval <= lastID
    /\ active # Nobody => approval <= active
    /\ \A k \in 1 .. Len(inbox) :
          inbox[k].kind = "requested" =>
             /\ approval < inbox[k].id /\ inbox[k].id <= lastID
             /\ active # Nobody => inbox[k].id <= active

\* The executor checks and executes answers only, and executes the answer to
\* the request it knows.
Executing ==
    /\ ex.pc \in {"check", "execute"} => ex.op.kind = "resolve"
    /\ ex.pc = "execute" => ex.op.id = approval /\ approval # Nobody

Follows == HasLatest /\ InterpreterFollowsHub /\ Behind /\ Executing

IInv == TypeOK /\ HubOrder /\ Follows

LEMMA HubUnchanged ==
    ASSUME HubOrder, UNCHANGED <<hub, resp>>,
           \A r \in Requests : rq[r] = "none" => rq'[r] = "none"
    PROVE  HubOrder'
<1>1. Ordered'
  BY DEF HubOrder, Ordered, hub
<1>2. Undecided' = Undecided
  BY DEF Undecided, hub
<1>. QED  BY <1>1, <1>2 DEF HubOrder, Undone, hub

\* Nothing the interpreter depends on changes, the position of the executor
\* aside.
LEMMA FollowsUnchanged ==
    ASSUME Follows, UNCHANGED <<active, lastID, inbox, approval>>, Executing'
    PROVE  Follows'
<1>1. HasLatest' /\ InterpreterFollowsHub'
  BY DEF Follows, HasLatest, InterpreterFollowsHub
<1>2. Behind'
  BY DEF Follows, Behind
<1>. QED  BY <1>1, <1>2 DEF Follows

LEMMA InboxNats ==
    ASSUME TypeOK
    PROVE  \A k \in 1 .. Len(inbox) : inbox[k].id \in Nat
<1>1. IDs \subseteq Nat
  BY Numbers
<1>2. \A k \in 1 .. Len(inbox) : inbox[k] \in Events
  BY DEF TypeOK
<1>. QED  BY <1>1, <1>2 DEF Events

\* A step of the hub that announces its new active request.
LEMMA Announced ==
    ASSUME TypeOK, TypeOK', Follows, Executing',
           NEW r \in Requests, active' = r,
           inbox' = Append(inbox, Requested(r)),
           approval' \in {approval, Nobody},
           lastID <= lastID', r <= lastID', approval < r,
           \A k \in 1 .. Len(inbox) : inbox[k].kind = "requested" => inbox[k].id <= r
    PROVE  Follows'
<1>1. /\ inbox \in Seq(Events) /\ Requested(r) \in Events /\ Latests(inbox) # {}
      /\ Requested(r).kind = "requested" /\ Requested(r).id = r
  <2>1. inbox \in Seq(Events) /\ Latests(inbox) # {}
    BY DEF TypeOK, Follows, HasLatest
  <2>2. Requested(r).kind = "requested" /\ Requested(r).id = r
    BY DEF Requested
  <2>. QED  BY <2>1, <2>2, EventsTyped
<1>2. HasLatest' /\ InterpreterFollowsHub'
  <2>1. Latests(inbox') # {} /\ ApplyEvents(approval', inbox') = r
    BY <1>1, OneMore
  <2>. QED  BY <2>1 DEF HasLatest, InterpreterFollowsHub, Latests, ApplyEvents, Latest, IsLatest
<1>3. Behind'
  <2>1. /\ Len(inbox') = Len(inbox) + 1 /\ Len(inbox) \in Nat
        /\ inbox'[Len(inbox) + 1] = Requested(r)
        /\ \A k \in 1 .. Len(inbox) : inbox'[k] = inbox[k]
    BY <1>1, Appended
  <2>2. /\ approval \in Nat /\ approval' \in Nat /\ lastID \in Nat /\ lastID' \in Nat
        /\ r \in Nat \ {0} /\ Nobody = 0 /\ approval' <= approval
        /\ \A k \in 1 .. Len(inbox) : inbox[k].id \in Nat
    <3>0. IDs \subseteq Nat /\ Nobody = 0 /\ r \in Nat \ {0}
      BY Numbers
    <3>1. \A k \in 1 .. Len(inbox) : inbox[k].id \in Nat
      BY InboxNats
    <3>2. approval \in Nat /\ lastID \in Nat /\ lastID' \in Nat
      BY <3>0 DEF TypeOK
    <3>. QED  BY <3>0, <3>1, <3>2
  <2>3. approval' <= lastID' /\ approval' <= active'
    BY <2>2
  <2>4. ASSUME NEW k \in 1 .. Len(inbox'), inbox'[k].kind = "requested"
        PROVE  /\ approval' < inbox'[k].id /\ inbox'[k].id <= lastID'
               /\ inbox'[k].id <= active'
    <3>1. CASE k \in 1 .. Len(inbox)
      <4>1. inbox[k].kind = "requested" /\ inbox'[k].id = inbox[k].id
        BY <2>1, <2>4, <3>1
      <4>2. approval < inbox[k].id /\ inbox[k].id <= lastID /\ inbox[k].id <= r
        BY <3>1, <4>1 DEF Follows, Behind
      <4>. QED  BY <2>2, <3>1, <4>1, <4>2
    <3>2. CASE k = Len(inbox) + 1
      BY <1>1, <2>1, <2>2, <3>2
    <3>. QED  BY <2>1, <3>1, <3>2
  <2>. QED  BY <2>3, <2>4 DEF Behind
<1>. QED  BY <1>2, <1>3 DEF Follows

\* The promise of the desk.
LEMMA DeskInit == Init => Desk!DeskInit
<1>1. ASSUME Init
      PROVE  Undecided = {} /\ \A r \in Requests : Told(r) = "nothing"
  BY <1>1 DEF Init, Undecided, Told
<1>. QED  BY <1>1 DEF Desk!DeskInit, Init

LEMMA DeskUnchanged ==
    ASSUME UNCHANGED <<hub, resp>>, \A r \in Requests : Told(r)' = Told(r)
    PROVE  UNCHANGED Desk!desk
<1>1. Undecided' = Undecided
  BY DEF Undecided, hub
<1>. QED  BY <1>1 DEF Desk!desk, hub

\* Request(r): the newest request joins the line.
LEMMA RequestKeeps ==
    ASSUME TypeOK, TypeOK', HubOrder, Follows, NEW r \in Requests, Request(r)
    PROVE  HubOrder' /\ Follows' /\ Desk!Ask(r)
<1>t. /\ queue \in Seq(Requests) /\ Len(queue) \in Nat
      /\ active \in Nat /\ lastID \in Nat /\ approval \in Nat
      /\ \A k \in 1 .. Len(queue) : queue[k] \in Nat
      /\ Requests \subseteq Nat \ {0} /\ Nobody = 0
  BY HubNats
<1>r. r = lastID + 1 /\ lastID' = r /\ resp' = resp /\ ex' = ex /\ approval' = approval
      /\ rq' = [rq EXCEPT ![r] = "waiting"]
  BY DEF Request, exec
<1>o. /\ rq[r] = "none" /\ resp[r] = Nobody
      /\ \A q \in Requests : q > lastID' => rq'[q] = "none" /\ resp'[q] = Nobody
  <2>1. r > lastID /\ \A q \in Requests : q > lastID' => q > lastID /\ q # r
    BY <1>r, <1>t
  <2>. QED  BY <2>1, <1>r DEF HubOrder, Undone, TypeOK
<1>e. Executing'
  BY <1>r DEF Follows, Executing
<1>1. Ordered' /\ Undecided' = Undecided \cup {r} /\ Follows'
  <2>1. CASE active = Nobody
    <3>1. active' = r /\ queue' = queue /\ Record("hub", Requested(r))
      BY <2>1 DEF Request
    <3>2. Len(queue) = 0
      BY <2>1, <1>t DEF HubOrder, Ordered
    <3>3. Ordered'
      BY <3>1, <3>2, <1>r, <1>t DEF Ordered
    <3>4. Undecided' = {r} /\ Undecided = {}
      <4>1. DOMAIN queue = {}
        BY <3>2, <1>t
      <4>. QED  BY <2>1, <3>1, <4>1, <1>t DEF Undecided
    <3>5. approval < r /\ lastID <= lastID' /\ r <= lastID'
      BY <1>r, <1>t DEF Follows, Behind
    <3>6. \A k \in 1 .. Len(inbox) : inbox[k].kind = "requested" => inbox[k].id <= r
      <4>1. \A k \in 1 .. Len(inbox) : inbox[k].id \in Nat
        BY InboxNats
      <4>. QED  BY <4>1, <1>r, <1>t DEF Follows, Behind
    <3>7. Follows'
      BY <3>1, <3>5, <3>6, <1>e, <1>r, Announced DEF Record
    <3>. QED  BY <3>3, <3>4, <3>7
  <2>2. CASE active # Nobody
    <3>1. /\ queue' = Append(queue, r) /\ active' = active /\ inbox' = inbox
      BY <2>2 DEF Request, box
    <3>2. /\ Len(queue') = Len(queue) + 1 /\ queue'[Len(queue) + 1] = r
          /\ \A k \in 1 .. Len(queue) : queue'[k] = queue[k]
      BY <3>1, <1>t, Appended
    <3>3. Ordered'
      <4>1. \A k \in 1 .. Len(queue') :
               active' # Nobody /\ active' < queue'[k] /\ queue'[k] <= lastID'
        BY <2>2, <3>1, <3>2, <1>r, <1>t DEF HubOrder, Ordered
      <4>2. ASSUME NEW j \in 1 .. Len(queue'), NEW k \in 1 .. Len(queue'), j < k
            PROVE  queue'[j] < queue'[k]
        <5>1. j \in 1 .. Len(queue) /\ queue'[j] = queue[j] /\ queue[j] \in Nat
              /\ queue[j] <= lastID
          BY <4>2, <3>2, <1>t DEF HubOrder, Ordered
        <5>2. CASE k \in 1 .. Len(queue)
          BY <4>2, <5>1, <5>2, <3>2, <1>t DEF HubOrder, Ordered
        <5>3. CASE k = Len(queue) + 1
          BY <5>1, <5>3, <3>2, <1>r, <1>t
        <5>. QED  BY <5>2, <5>3, <3>2, <1>t
      <4>3. active' <= lastID'
        BY <3>1, <1>r, <1>t DEF HubOrder, Ordered
      <4>. QED  BY <4>1, <4>2, <4>3 DEF Ordered
    <3>4. Undecided' = Undecided \cup {r}
      <4>1. DOMAIN queue' = 1 .. Len(queue) + 1
        BY <3>2 DEF TypeOK
      <4>2. \A q : q \in Undecided' <=> \/ q = active
                                       \/ \E k \in 1 .. Len(queue) + 1 : q = queue'[k]
        BY <2>2, <3>1, <4>1 DEF Undecided
      <4>3. \A k \in 1 .. Len(queue) + 1 : k \in 1 .. Len(queue) \/ k = Len(queue) + 1
        BY <1>t
      <4>4. 1 .. Len(queue) \subseteq 1 .. Len(queue) + 1 /\ Len(queue) + 1 \in 1 .. Len(queue) + 1
        BY <1>t
      <4>5. \A q : (\E k \in 1 .. Len(queue) + 1 : q = queue'[k])
                      <=> (\E k \in 1 .. Len(queue) : q = queue[k]) \/ q = r
        BY <3>2, <4>3, <4>4
      <4>. QED  BY <2>2, <4>2, <4>5, UndecidedIs
    <3>5. HasLatest' /\ InterpreterFollowsHub'
      BY <3>1, <1>r DEF Follows, HasLatest, InterpreterFollowsHub
    <3>6. Behind'
      <4>1. \A k \in 1 .. Len(inbox) : inbox[k].id \in Nat
        BY InboxNats
      <4>. QED  BY <4>1, <3>1, <1>r, <1>t DEF Follows, Behind
    <3>. QED  BY <3>3, <3>4, <3>5, <3>6, <1>e DEF Follows
  <2>. QED  BY <2>1, <2>2
<1>2. HubOrder'
  BY <1>1, <1>o, <1>r DEF HubOrder, Undone
<1>3. \A q \in Requests : Told(q)' = Told(q)
  BY <1>o, <1>r DEF Told, TypeOK
<1>4. Desk!Ask(r)
  <2>1. Told(r) = "nothing"
    BY <1>o DEF Told
  <2>. QED  BY <1>1, <1>3, <1>r, <2>1 DEF Desk!Ask
<1>. QED  BY <1>1, <1>2, <1>4

\* Cancel(r): the request leaves the line, and the next one is announced when it
\* was the first.
LEMMA CancelKeeps ==
    ASSUME TypeOK, TypeOK', HubOrder, Follows, NEW r \in Requests, Cancel(r)
    PROVE  HubOrder' /\ Follows' /\ Desk!Leave(r)
<1>t. /\ queue \in Seq(Requests) /\ Len(queue) \in Nat
      /\ DOMAIN queue = 1 .. Len(queue)
      /\ active \in Nat /\ lastID \in Nat /\ approval \in Nat
      /\ \A k \in 1 .. Len(queue) : queue[k] \in Nat
      /\ Requests \subseteq Nat \ {0} /\ Nobody = 0
  BY HubNats
<1>r. /\ lastID' = lastID /\ resp' = resp /\ ex' = ex /\ approval' = approval
      /\ rq[r] = "abandoned" /\ rq' = [rq EXCEPT ![r] = "cancelled"]
  BY DEF Cancel, exec
<1>l. r <= lastID
  BY <1>r, <1>t DEF HubOrder, Undone
<1>e. Executing'
  BY <1>r DEF Follows, Executing
<1>1. Ordered' /\ Undecided' = Undecided \ {r} /\ Follows'
  <2>1. CASE active = r
    <3>1. /\ Pop /\ active # Nobody
          /\ Record("hub", IF queue = <<>> THEN Cleared(r) ELSE Requested(NextActive))
      BY <2>1, <1>t DEF Cancel
    <3>2. Ordered' /\ Undecided' = Undecided \ {r} /\ (active' # Nobody => active < active')
      BY <2>1, <3>1, <1>r, PopKeeps DEF HubOrder
    <3>3. CASE queue = <<>>
      <4>1. active' = Nobody /\ inbox' = Append(inbox, Cleared(r))
        BY <3>1, <3>3 DEF Pop, NextActive, Record
      <4>2. /\ inbox \in Seq(Events) /\ Latests(inbox) # {}
            /\ Cleared(r) \in Events /\ Cleared(r).kind = "cleared" /\ Cleared(r).id = r
            /\ ApplyEvents(approval, inbox) = r
        BY <2>1, EventsTyped
           DEF TypeOK, Follows, HasLatest, InterpreterFollowsHub, Cleared
      <4>3. Latests(inbox') # {} /\ ApplyEvents(approval, inbox') = Nobody
        BY <4>1, <4>2, OneMore
      <4>4. HasLatest' /\ InterpreterFollowsHub'
        BY <4>1, <4>3, <1>r DEF HasLatest, InterpreterFollowsHub
      <4>5. Behind'
        <5>1. /\ Len(inbox') = Len(inbox) + 1 /\ Len(inbox) \in Nat
              /\ inbox'[Len(inbox) + 1] = Cleared(r)
              /\ \A k \in 1 .. Len(inbox) : inbox'[k] = inbox[k]
          BY <4>1, <4>2, Appended
        <5>2. \A k \in 1 .. Len(inbox') : inbox'[k].kind = "requested" =>
                 k \in 1 .. Len(inbox) /\ inbox'[k] = inbox[k]
          BY <4>2, <5>1
        <5>3. approval' <= lastID' /\ ~ (active' # Nobody)
          BY <4>1, <1>r DEF Follows, Behind
        <5>4. ASSUME NEW k \in 1 .. Len(inbox'), inbox'[k].kind = "requested"
              PROVE  approval' < inbox'[k].id /\ inbox'[k].id <= lastID'
          BY <5>2, <5>4, <1>r DEF Follows, Behind
        <5>. QED  BY <5>3, <5>4 DEF Behind
      <4>. QED  BY <2>1, <3>2, <4>4, <4>5, <1>e DEF Follows
    <3>4. CASE queue # <<>>
      <4>1. /\ active' = queue[1] /\ active' \in Requests
            /\ inbox' = Append(inbox, Requested(active'))
        BY <3>1, <3>4, <1>t, Split DEF Pop, NextActive, Record
      <4>2. active < active' /\ active' \in Nat /\ active' <= lastID'
        BY <3>2, <4>1, <1>t DEF Ordered
      <4>3. \A k \in 1 .. Len(inbox) : inbox[k].kind = "requested" => inbox[k].id <= active'
        BY <3>1, <4>2, <1>t, InboxNats DEF Follows, Behind
      <4>4. approval < active'
        BY <3>1, <4>2, <1>t DEF Follows, Behind
      <4>5. lastID <= lastID'
        BY <1>r, <1>t
      <4>. DEFINE n == active'
      <4>6. Follows'
        <5>1. /\ n \in Requests /\ active' = n /\ inbox' = Append(inbox, Requested(n))
              /\ approval' \in {approval, Nobody}
              /\ n <= lastID' /\ approval < n
              /\ \A k \in 1 .. Len(inbox) : inbox[k].kind = "requested" => inbox[k].id <= n
          BY <4>1, <4>2, <4>3, <4>4, <1>r
        <5>. HIDE DEF n
        <5>. QED  BY <5>1, <4>5, <1>e, Announced
      <4>. QED  BY <2>1, <3>2, <4>6
    <3>. QED  BY <3>2, <3>3, <3>4
  <2>2. CASE active # r
    <3>1. active' = active /\ inbox' = inbox
      BY <2>2 DEF Cancel, box
    <3>2. CASE Queued(r) = {}
      <4>1. queue' = queue
        BY <2>2, <3>2 DEF Cancel
      <4>2. Ordered' /\ Undecided' = Undecided
        BY <3>1, <4>1, <1>r DEF HubOrder, Ordered, Undecided
      <4>3. r \notin Undecided
        BY <2>2, <3>2, <1>t DEF Queued, Undecided
      <4>. QED  BY <3>1, <4>2, <4>3, <1>r, <1>e, FollowsUnchanged
    <3>3. CASE Queued(r) # {}
      <4>1. PICK k \in 1 .. Len(queue) : queue[k] = r /\ queue' = Without(queue, k)
        BY <2>2, <3>3, <1>t DEF Cancel, Queued
      <4>2. Ordered' /\ Undecided' = Undecided \ {r}
        BY <3>1, <4>1, <1>r, WithoutKeeps DEF HubOrder
      <4>. QED  BY <3>1, <4>2, <1>r, <1>e, FollowsUnchanged
    <3>. QED  BY <3>2, <3>3
  <2>. QED  BY <2>1, <2>2
<1>2. HubOrder'
  BY <1>1, <1>r, <1>l, <1>t DEF HubOrder, Undone, TypeOK
<1>3. /\ Told(r) = "nothing" /\ Told(r)' = "cancelled"
      /\ \A q \in Requests : q # r => Told(q)' = Told(q)
  BY <1>r DEF Told, TypeOK
<1>4. Desk!Leave(r)
  <2>1. [q \in Requests |-> Told(q)]' =
           [[q \in Requests |-> Told(q)] EXCEPT ![r] = "cancelled"]
    BY <1>3
  <2>. QED  BY <1>1, <1>3, <1>l, <1>r, <2>1 DEF Desk!Leave
<1>. QED  BY <1>1, <1>2, <1>4

\* Resolve: the active request is decided and leaves the line.
LEMMA ResolveKeeps ==
    ASSUME TypeOK, TypeOK', HubOrder, Follows, Resolve
    PROVE  /\ HubOrder' /\ Follows'
           /\ active \in Requests /\ ex.op.choice \in Requests
           /\ Desk!Decide(active, ex.op.choice)
<1>t. /\ queue \in Seq(Requests) /\ Len(queue) \in Nat
      /\ active \in Nat /\ lastID \in Nat /\ approval \in Nat
      /\ \A k \in 1 .. Len(queue) : queue[k] \in Nat
      /\ Requests \subseteq Nat \ {0} /\ Nobody = 0
  BY HubNats
<1>r. /\ lastID' = lastID /\ rq' = rq /\ Pop
      /\ resp' = [resp EXCEPT ![active] = ex.op.choice]
      /\ approval' \in {approval, Nobody} /\ ex' = [pc |-> "after", op |-> Drain]
  BY DEF Resolve, Finish
<1>e. Executing'
  BY <1>r DEF Executing
<1>a. active = approval /\ active # Nobody /\ approval' = Nobody /\ active \in Requests
  BY <1>t, Numbers DEF Resolve, Follows, Executing, TypeOK, IDs
<1>c. ex.op.choice \in Requests
  <2>1. ex.op \in Operation /\ ex.op.kind = "resolve"
    BY ExecTyped DEF Resolve, Follows, Executing
  <2>. QED  BY <2>1 DEF Operation, Drain
<1>1. Ordered' /\ Undecided' = Undecided \ {active} /\ (active' # Nobody => active < active')
  BY <1>a, <1>r, PopKeeps DEF HubOrder
<1>2. HubOrder'
  <2>1. active <= lastID
    BY DEF HubOrder, Ordered
  <2>2. \A q \in Requests : q > lastID' => rq'[q] = "none" /\ resp'[q] = Nobody
    <3>1. \A q \in Requests : q > lastID => q # active
      BY <2>1, <1>t
    <3>. QED  BY <3>1, <1>r DEF HubOrder, Undone, TypeOK
  <2>3. \A q \in Undecided' : resp'[q] = Nobody
    BY <1>1, <1>r DEF HubOrder, Undone, TypeOK
  <2>. QED  BY <1>1, <2>2, <2>3 DEF HubOrder, Undone
<1>3. Follows'
  <2>1. CASE queue = <<>>
    <3>1. inbox' = inbox /\ active' = Nobody
      BY <2>1 DEF Resolve, Pop, NextActive
    <3>2. inbox \in Seq(Events) /\ ApplyEvents(approval, inbox) = approval
      BY <1>a DEF TypeOK, Follows, InterpreterFollowsHub
    <3>3. \A k \in 1 .. Len(inbox) : inbox[k].kind # "requested"
      \* the event of a request the interpreter knows is out of the inbox
      <4>1. SUFFICES ASSUME NEW k \in 1 .. Len(inbox), inbox[k].kind = "requested"
                     PROVE  FALSE
        OBVIOUS
      <4>2. approval < inbox[k].id /\ inbox[k].id <= active /\ inbox[k].id \in Nat
        BY <1>a, <4>1, InboxNats DEF Follows, Behind
      <4>. QED  BY <4>2, <1>a, <1>t
    <3>4. 0 \in Latests(inbox) /\ ApplyEvents(Nobody, inbox) = Nobody
      BY <3>2, <3>3, NoneRequested
    <3>5. HasLatest' /\ InterpreterFollowsHub'
      BY <3>1, <3>4, <1>a DEF HasLatest, InterpreterFollowsHub
    <3>6. Behind'
      BY <3>1, <3>3, <1>a, <1>r, <1>t DEF Behind
    <3>. QED  BY <3>5, <3>6, <1>e DEF Follows
  <2>2. CASE queue # <<>>
    <3>. DEFINE n == active'
    <3>1. /\ n = queue[1] /\ n \in Requests
          /\ inbox' = Append(inbox, Requested(n))
      BY <2>2, <1>r, <1>t, Split DEF Pop, NextActive, Resolve
    <3>2. active < n /\ n \in Nat /\ n <= lastID'
      BY <1>1, <3>1, <1>t DEF Ordered
    <3>3. \A k \in 1 .. Len(inbox) : inbox[k].kind = "requested" => inbox[k].id <= n
      BY <1>a, <3>2, <1>t, InboxNats DEF Follows, Behind
    <3>4. approval < n /\ lastID <= lastID' /\ active' = n /\ approval' \in {approval, Nobody}
      BY <1>a, <1>r, <3>2, <1>t
    <3>. HIDE DEF n
    <3>. QED  BY <3>1, <3>2, <3>3, <3>4, <1>e, Announced
  <2>. QED  BY <2>1, <2>2
<1>4. Desk!Decide(active, ex.op.choice)
  <2>1. active \in Undecided /\ resp[active] = Nobody
    BY <1>a, UndecidedIs DEF HubOrder, Undone
  <2>2. \A older \in Requests : older < active => older \notin Undecided
    <3>1. \A k \in 1 .. Len(queue) : active < queue[k]
      BY DEF HubOrder, Ordered
    <3>. QED  BY <3>1, <1>t, UndecidedIs
  <2>3. \A q \in Requests : Told(q)' = Told(q)
    BY <1>r DEF Told
  <2>. QED  BY <1>1, <1>r, <2>1, <2>2, <2>3 DEF Desk!Decide
<1>. QED  BY <1>2, <1>3, <1>4, <1>a, <1>c

(***************************************************************************)
(* The other steps                                                         *)
(***************************************************************************)

\* What a step does to the desk: one of its operations, or nothing.
DeskStep == Desk!DeskNext \/ UNCHANGED Desk!desk

\* The calls of request, on the agents' side.
LEMMA CallKeeps ==
    ASSUME TypeOK, TypeOK', HubOrder, Follows,
           NEW r \in Requests, ContextDone(r) \/ Decided(r) \/ Abandon(r)
    PROVE  HubOrder' /\ Follows' /\ DeskStep
<1>u. /\ UNCHANGED <<hub, resp, active, lastID, inbox, approval, ex>>
      /\ rq' = rq \/ rq' = [rq EXCEPT ![r] = "decided"] \/ rq' = [rq EXCEPT ![r] = "abandoned"]
  BY DEF ContextDone, Decided, Abandon, hub, box, exec
<1>1. \A q \in Requests : rq[q] = "none" => rq'[q] = "none"
  <2>1. rq' = rq \/ (rq[r] = "waiting" /\ \A q \in Requests : q # r => rq'[q] = rq[q])
    BY <1>u DEF ContextDone, Decided, Abandon, TypeOK
  <2>. QED  BY <2>1
<1>2. HubOrder'
  BY <1>u, <1>1, HubUnchanged
<1>3. Follows'
  BY <1>u, FollowsUnchanged DEF Follows, Executing
<1>4. CASE ContextDone(r) \/ Abandon(r)
  <2>1. \A q \in Requests : Told(q)' = Told(q)
    BY <1>4 DEF ContextDone, Abandon, Told, TypeOK
  <2>. QED  BY <1>u, <1>2, <1>3, <2>1, DeskUnchanged DEF DeskStep
<1>5. CASE Decided(r)
  <2>1. /\ resp[r] # Nobody /\ rq[r] = "waiting" /\ rq' = [rq EXCEPT ![r] = "decided"]
    BY <1>5 DEF Decided
  <2>2. Told(r) = "nothing" /\ \A q \in Requests :
           Told(q)' = IF q = r THEN "decided" ELSE Told(q)
    BY <2>1 DEF Told, TypeOK
  <2>3. Undecided' = Undecided
    BY <1>u DEF Undecided, hub
  <2>4. [q \in Requests |-> Told(q)]' = [[q \in Requests |-> Told(q)] EXCEPT ![r] = "decided"]
    BY <2>2
  <2>5. Desk!Hear(r)
    BY <1>u, <2>1, <2>2, <2>3, <2>4 DEF Desk!Hear
  <2>. QED  BY <1>2, <1>3, <2>5 DEF DeskStep, Desk!DeskNext
<1>. QED  BY <1>4, <1>5

\* Everything that leaves the hub and its requests alone.
LEMMA Beside ==
    ASSUME HubOrder, UNCHANGED <<hub, calls>>
    PROVE  HubOrder' /\ DeskStep
<1>1. HubOrder'
  BY HubUnchanged DEF calls
<1>2. UNCHANGED Desk!desk
  BY DeskUnchanged DEF calls, Told
<1>. QED  BY <1>1, <1>2 DEF DeskStep

\* An event about something else joins the inbox.
LEMMA OtherKeeps ==
    ASSUME TypeOK, TypeOK', Follows, OtherEvent
    PROVE  Follows'
<1>. DEFINE e == [kind |-> "other", id |-> Nobody]
<1>1. inbox' = Append(inbox, e) /\ UNCHANGED <<active, lastID, approval, ex>>
  BY DEF OtherEvent, Record, hub, exec
<1>2. inbox \in Seq(Events) /\ e \in Events /\ e.kind = "other" /\ Latests(inbox) # {}
  BY EventsTyped DEF TypeOK, Follows, HasLatest
<1>. HIDE DEF e
<1>3. HasLatest' /\ InterpreterFollowsHub'
  <2>1. Latests(inbox') # {} /\ ApplyEvents(approval, inbox') = ApplyEvents(approval, inbox)
    BY <1>1, <1>2, OneMore
  <2>. QED  BY <1>1, <2>1 DEF Follows, HasLatest, InterpreterFollowsHub
<1>4. Behind'
  <2>1. /\ Len(inbox') = Len(inbox) + 1 /\ Len(inbox) \in Nat
        /\ inbox'[Len(inbox) + 1] = e
        /\ \A k \in 1 .. Len(inbox) : inbox'[k] = inbox[k]
    BY <1>1, <1>2, Appended
  <2>2. \A k \in 1 .. Len(inbox') : inbox'[k].kind = "requested" =>
           k \in 1 .. Len(inbox) /\ inbox'[k] = inbox[k]
    BY <1>2, <2>1
  <2>. QED  BY <1>1, <2>2 DEF Follows, Behind
<1>. QED  BY <1>1, <1>3, <1>4 DEF Follows, Executing

\* The executor takes the inbox: what it knows then is what the hub has active.
LEMMA TakeKeeps ==
    ASSUME TypeOK, TypeOK', Ordered, Follows, TakeEvents
    PROVE  Follows'
<1>1. /\ inbox' = <<>> /\ approval' = active
      /\ UNCHANGED <<active, lastID, ex>> /\ ex.pc \in {"before", "drain", "after"}
  BY DEF TakeEvents, Follows, InterpreterFollowsHub, hub
<1>2. inbox' \in Seq(Events) /\ Len(inbox') = 0
  BY <1>1
<1>3. 0 \in Latests(inbox') /\ Latest(inbox') = 0
  <2>1. \A k \in 1 .. Len(inbox') : inbox'[k].kind # "requested"
    BY <1>2
  <2>2. 0 \in Latests(inbox')
    BY <1>2, <2>1, NoneRequested
  <2>. QED  BY <1>2, <2>2, LatestUnique
<1>4. HasLatest' /\ InterpreterFollowsHub'
  BY <1>1, <1>2, <1>3 DEF HasLatest, InterpreterFollowsHub, ApplyEvents
<1>5. Behind'
  <2>1. active <= lastID /\ active <= active /\ 1 .. Len(inbox') = {}
    BY <1>2, HubNats DEF Ordered
  <2>. QED  BY <1>1, <2>1 DEF Behind
<1>. QED  BY <1>1, <1>4, <1>5 DEF Follows, Executing

\* The other steps of the executor move it along, and only along.
LEMMA MoveKeeps ==
    ASSUME TypeOK, Follows,
           \/ Pull \/ TakeNothing \/ CompleteDrain \/ Check \/ ResolveTooLate
    PROVE  Follows'
<1>1. UNCHANGED <<active, lastID, inbox, approval>>
  BY DEF Pull, TakeNothing, CompleteDrain, Check, ResolveTooLate, hub, box
<1>2. Executing'
  <2>0. ex \in [pc : ExecPCs, op : Operation] /\ ex.op.kind \in {"drain", "resolve"}
    BY ExecTyped DEF TypeOK, Operation, Drain
  <2>1. CASE Pull
    BY <2>1 DEF Pull, Executing
  <2>2. CASE TakeNothing
    <3>1. /\ ex'.op = ex.op /\ ex'.pc # "execute"
          /\ ex'.pc = "check" => ex.op.kind # "drain"
      BY <2>0, <2>2 DEF TakeNothing, Go
    <3>. QED  BY <2>0, <3>1 DEF Executing
  <2>3. CASE CompleteDrain
    BY <2>0, <2>3 DEF CompleteDrain, Go, Finish, Executing
  <2>4. CASE Check
    <3>1. CASE /\ ex.op.id = approval /\ approval # Nobody /\ Go("execute")
      <4>1. ex'.op = ex.op /\ ex.op.kind = "resolve"
        BY <2>0, <2>4, <3>1 DEF Check, Go, Follows, Executing
      <4>. QED  BY <1>1, <3>1, <4>1 DEF Executing
    <3>2. CASE Finish
      BY <3>2 DEF Finish, Executing
    <3>. QED  BY <2>4, <3>1, <3>2 DEF Check
  <2>5. CASE ResolveTooLate
    BY <2>5 DEF ResolveTooLate, Finish, Executing
  <2>. QED  BY <2>1, <2>2, <2>3, <2>4, <2>5
<1>. QED  BY <1>1, <1>2, FollowsUnchanged

(***************************************************************************)
(* The theorems                                                            *)
(***************************************************************************)

LEMMA InitKeeps == Init => IInv
<1>. SUFFICES ASSUME Init
              PROVE  HubOrder /\ Follows
  BY InitTyped DEF IInv
<1>1. TypeOK /\ Len(queue) = 0 /\ inbox \in Seq(Events) /\ Len(inbox) = 0 /\ Nobody = 0
  BY InitTyped DEF Init, TypeOK, Nobody
<1>2. HubOrder
  <2>1. Undecided = {}
    BY <1>1, UndecidedIs DEF Init
  <2>. QED  BY <1>1, <2>1 DEF Init, HubOrder, Ordered, Undone
<1>3. 0 \in Latests(inbox) /\ ApplyEvents(Nobody, inbox) = Nobody
  <2>1. \A k \in 1 .. Len(inbox) : inbox[k].kind # "requested"
    BY <1>1
  <2>. QED  BY <1>1, <2>1, NoneRequested
<1>4. Follows
  BY <1>1, <1>3 DEF Init, Follows, HasLatest, InterpreterFollowsHub, Behind, Executing
<1>. QED  BY <1>2, <1>4

LEMMA StepKeeps == IInv /\ [Next]_vars => IInv' /\ DeskStep
<1>. SUFFICES ASSUME IInv, [Next]_vars
              PROVE  IInv' /\ DeskStep
  OBVIOUS
<1>i. TypeOK /\ HubOrder /\ Follows
  BY DEF IInv
<1>1. CASE Wake \/ OtherEvent
  <2>1. TypeOK'
    BY <1>i, <1>1, EventTypes
  <2>2. UNCHANGED <<hub, calls>>
    BY <1>1 DEF Wake, OtherEvent
  <2>3. Follows'
    <3>1. CASE Wake
      BY <1>i, <3>1, FollowsUnchanged DEF Wake, hub, Follows, Executing
    <3>2. CASE OtherEvent
      BY <1>i, <2>1, <3>2, OtherKeeps
    <3>. QED  BY <1>1, <3>1, <3>2
  <2>. QED  BY <1>i, <2>1, <2>2, <2>3, Beside DEF IInv
<1>2. ASSUME NEW r \in Requests, Request(r)
      PROVE  IInv' /\ DeskStep
  BY <1>i, <1>2, HubTypes, RequestKeeps DEF IInv, DeskStep, Desk!DeskNext
<1>3. ASSUME NEW r \in Requests, Cancel(r)
      PROVE  IInv' /\ DeskStep
  BY <1>i, <1>3, HubTypes, CancelKeeps DEF IInv, DeskStep, Desk!DeskNext
<1>4. ASSUME NEW r \in Requests, ContextDone(r) \/ Decided(r) \/ Abandon(r)
      PROVE  IInv' /\ DeskStep
  BY <1>i, <1>4, CallTypes, CallKeeps DEF IInv
<1>5. CASE Resolve
  <2>1. TypeOK'
    BY <1>i, <1>5, ExecTypes DEF Follows, ExecStep
  <2>. QED  BY <1>i, <1>5, <2>1, ResolveKeeps DEF IInv, DeskStep, Desk!DeskNext
<1>6. CASE TakeEvents
  <2>1. TypeOK'
    BY <1>i, <1>6, ExecTypes DEF Follows, ExecStep
  <2>2. UNCHANGED <<hub, calls>>
    BY <1>6 DEF TakeEvents
  <2>3. Follows'
    BY <1>i, <1>6, <2>1, TakeKeeps DEF HubOrder
  <2>. QED  BY <1>i, <2>1, <2>2, <2>3, Beside DEF IInv
<1>7. CASE Pull \/ TakeNothing \/ CompleteDrain \/ Check \/ ResolveTooLate
  <2>1. TypeOK'
    BY <1>i, <1>7, ExecTypes DEF Follows, ExecStep
  <2>2. UNCHANGED <<hub, calls>>
    BY <1>7 DEF Pull, TakeNothing, CompleteDrain, Check, ResolveTooLate
  <2>. QED  BY <1>i, <1>7, <2>1, <2>2, Beside, MoveKeeps DEF IInv
<1>8. CASE UIStep \/ PressKey \/ PressCancel
  <2>1. TypeOK'
    BY <1>i, <1>8, UITypes
  <2>2. UNCHANGED <<hub, calls, inbox, ex, approval>>
    BY <1>8 DEF UIStep, Present, HandleKey, SendDecision, PressKey, PressCancel, box, exec
  <2>3. Follows'
    BY <1>i, <2>2, FollowsUnchanged DEF hub, Follows, Executing
  <2>. QED  BY <1>i, <2>1, <2>2, <2>3, Beside DEF IInv
<1>9. CASE UNCHANGED vars
  <2>1. UNCHANGED <<hub, calls, inbox, ex, approval>>
    BY <1>9 DEF vars, box, exec
  <2>2. TypeOK'
    BY <1>i, <1>9 DEF TypeOK, vars, hub, calls, box, exec, ui
  <2>3. Follows'
    BY <1>i, <2>1, FollowsUnchanged DEF hub, Follows, Executing
  <2>. QED  BY <1>i, <2>1, <2>2, <2>3, Beside DEF IInv
<1>. QED  BY <1>1, <1>2, <1>3, <1>4, <1>5, <1>6, <1>7, <1>8, <1>9
          DEF Next, CallStep, ExecStep

LEMMA Inductive == Spec => []IInv
BY InitKeeps, StepKeeps, PTL DEF Spec

\* Every variable keeps its type: approval ids stay in range through the hub, the
\* inbox, the executor and the user interface.
THEOREM ApprovalTypes == Spec => []TypeOK
<1>1. IInv => TypeOK
  BY DEF IInv
<1>. QED  BY <1>1, Inductive, PTL

\* The interpreter follows the hub (session/approvals.go, interpreter/approval.go):
\* with the events in its inbox applied, the approval it knows is the active one.
THEOREM InterpreterKeepsUp == Spec => []InterpreterFollowsHub
<1>1. IInv => InterpreterFollowsHub
  BY DEF IInv, Follows
<1>. QED  BY <1>1, Inductive, PTL

\* The hub implements the desk: requests are decided in the order they were made,
\* each at most once, and each requester hears about its own.
THEOREM HubImplementsDesk == Spec => KeepsDeskPromise
<1>1. Init => Desk!DeskInit
  BY DeskInit
<1>2. IInv /\ [Next]_vars => [Desk!DeskNext]_(Desk!desk)
  BY StepKeeps DEF DeskStep
<1>. QED  BY <1>1, <1>2, Inductive, PTL DEF Spec, KeepsDeskPromise, Desk!DeskSpec
=============================================================================
