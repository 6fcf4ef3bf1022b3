--------------------------- MODULE TranscriptProofs ---------------------------
(***************************************************************************)
(* What holds of Transcript for any number of participants, invitations    *)
(* and fragments.  When the backends name their streams apart, every       *)
(* record holds the words of its author only, and the marks follow the     *)
(* record a handoff would take.  In any case the screen follows the room,  *)
(* and no word is lost, doubled or reordered.                              *)
(***************************************************************************)
EXTENDS Transcript, TLAPS, WellFoundedInduction, FiniteSetTheorems

(***************************************************************************)
(* The largest of a bounded set of numbers                                 *)
(***************************************************************************)

LEMMA MaxIs ==
    ASSUME NEW S, S \subseteq Nat, NEW x \in S, \A y \in S : x >= y
    PROVE  Max(S) = x
<1>1. \A z \in S : (\A y \in S : z >= y) => z = x
  OBVIOUS
<1>2. /\ Max(S) \in S
      /\ \A y \in S : Max(S) >= y
  BY DEF Max
<1>. QED  BY <1>1, <1>2

LEMMA SmallestIsThere ==
    ASSUME NEW T, T \subseteq Nat, T # {}
    PROVE  \E t \in T : \A u \in T : t <= u
<1>. DEFINE R == {p \in Nat \X Nat : p[1] < p[2]}
<1>1. IsWellFoundedOn(R, Nat)
  BY NatLessThanWellFounded DEF OpToRel
<1>2. PICK t \in T : \A u \in T : ~ (<<u, t>> \in R)
  <2>. HIDE DEF R
  <2>. QED  BY <1>1, WFMin
<1>3. \A u, v \in Nat : u < v => <<u, v>> \in R
  <2>1. SUFFICES ASSUME NEW u \in Nat, NEW v \in Nat, u < v
                 PROVE  <<u, v>> \in Nat \X Nat /\ <<u, v>>[1] < <<u, v>>[2]
    OBVIOUS
  <2>. QED  BY <2>1
<1>. HIDE DEF R
<1>4. \A u \in T : ~ (u < t)
  BY <1>2, <1>3
<1>5. t \in Nat /\ \A u \in T : u \in Nat
  OBVIOUS
<1>. QED  BY <1>4, <1>5

LEMMA MaxBounds ==
    ASSUME NEW S, S \subseteq Nat, S # {}, NEW n \in Nat, \A x \in S : x <= n
    PROVE  Max(S) \in S /\ \A y \in S : Max(S) >= y
<1>. DEFINE T == {t \in Nat : \E x \in S : t = n - x}
<1>1. T \subseteq Nat /\ T # {}
  <2>1. PICK x \in S : TRUE
    OBVIOUS
  <2>2. n - x \in T
    BY <2>1
  <2>. QED  BY <2>2
<1>2. PICK t \in T : \A u \in T : t <= u
  <2>. HIDE DEF T
  <2>. QED  BY <1>1, SmallestIsThere
<1>3. PICK x \in S : t = n - x
  BY <1>2
<1>4. \A y \in S : n - y \in T
  OBVIOUS
<1>5. \A y \in S : x >= y
  BY <1>2, <1>3, <1>4
<1>. QED  BY <1>5, MaxIs

(***************************************************************************)
(* The invariant                                                           *)
(***************************************************************************)

Fields   == {"records", "streaming", "members", "departed", "latest", "version", "dirty"}
Ids      == Inc \X Streams
Words    == [by : Inc, on : Streams, n : Nat]
Authored  == {"output", "item"}
Records  == [kind : {"system", "appended", "notice", "output", "item"},
             alias : Alias \cup {NoAlias},
             id : (0 .. MaxInvites) \X (Streams \cup {"none"}),
             text : Seq(Words),
             marked : BOOLEAN]

Phases   == {"none", "starting", "failed", "crashed", "ready", "done", "reading", "ended"}

\* The shape of a room.
Shaped(r) ==
    /\ DOMAIN r = Fields
    /\ r.records \in Seq(Records)
    /\ DOMAIN r.streaming \subseteq Ids
    /\ r.streaming \in [DOMAIN r.streaming -> [alias : Alias, at : Nat]]
    /\ r.latest \in [Alias -> Nat]

\* A record of a participant is of a stream of one invitation, o[id[1]] is
\* whose, and it holds the words of that invitation; other records are empty.
OwnRecord(record, o) ==
    IF record.kind \in Authored
    THEN /\ record.id \in Ids /\ record.id[1] \in 1 .. Len(o)
         /\ record.kind = Kind(record.id[2])
         /\ record.alias = o[record.id[1]]
         /\ \A n \in 1 .. Len(record.text) : record.text[n].by = record.id[1]
    ELSE record.alias = NoAlias /\ record.text = <<>>

OwnStream(r, id) ==
    LET slot == r.streaming[id] IN
    /\ slot.at \in 1 .. Len(r.records)
    /\ r.records[slot.at].kind \in Authored
    /\ r.records[slot.at].id = id
    /\ r.records[slot.at].alias = slot.alias

Owned(r, o) ==
    /\ \A k \in 1 .. Len(r.records) : OwnRecord(r.records[k], o)
    /\ \A id \in DOMAIN r.streaming : OwnStream(r, id)

\* What is cached for a is an output record of a, and the one that is marked.
CachedAt(r, a) ==
    /\ r.latest[a] \in 0 .. Len(r.records)
    /\ r.latest[a] # 0 => /\ r.records[r.latest[a]].alias = a
                          /\ r.records[r.latest[a]].kind = "output"
    /\ \A i \in 1 .. Len(r.records) :
            r.records[i].alias = a => (r.records[i].marked = (i = r.latest[a]))

\* It is what a handoff would take, or it is open again.
Fresh(r, a) ==
    \/ r.latest[a] = LatestHandoffSource(r, a)
    \/ r.latest[a] # 0 /\ r.records[r.latest[a]].id \in DOMAIN r.streaming

Good(r, o) ==
    /\ Shaped(r) /\ Owned(r, o)
    /\ \A a \in Alias : CachedAt(r, a) /\ Fresh(r, a)

\* The same, but for what is cached for a.
GoodBut(r, o, a) ==
    /\ Shaped(r) /\ Owned(r, o)
    /\ \A b \in Alias : CachedAt(r, b)
    /\ \A b \in Alias \ {a} : Fresh(r, b)

IInv ==
    /\ Good(room, aliasOf)
    /\ aliasOf \in Seq(Alias) /\ Len(aliasOf) <= MaxInvites
    /\ starter \in [Inc -> Phases] /\ reader \in [Inc -> Phases]
    /\ said \in [Inc -> [Streams -> Nat]]
    /\ \A i \in Inc : (starter[i] # "none" \/ reader[i] # "none") => i \in 1 .. Len(aliasOf)

(***************************************************************************)
(* The record a handoff would take                                         *)
(***************************************************************************)

Eligible(r, a) == {i \in 1 .. Len(r.records) : HandoffEligible(r, i, a)}

LEMMA SourceIs ==
    ASSUME NEW r, NEW a, r.records \in Seq(Records)
    PROVE  /\ LatestHandoffSource(r, a) =
                  IF a \in r.members /\ Eligible(r, a) # {} THEN Max(Eligible(r, a)) ELSE 0
           /\ LatestHandoffSource(r, a) # 0 =>
                  /\ a \in r.members
                  /\ LatestHandoffSource(r, a) \in Eligible(r, a)
                  /\ \A i \in Eligible(r, a) : LatestHandoffSource(r, a) >= i
           /\ LatestHandoffSource(r, a) = 0 => a \notin r.members \/ Eligible(r, a) = {}
<1>1. DOMAIN r.records = 1 .. Len(r.records) /\ Len(r.records) \in Nat
  OBVIOUS
<1>2. LatestHandoffSource(r, a) =
          IF a \in r.members /\ Eligible(r, a) # {} THEN Max(Eligible(r, a)) ELSE 0
  BY <1>1 DEF LatestHandoffSource, Eligible
<1>3. ASSUME Eligible(r, a) # {}
      PROVE  /\ Max(Eligible(r, a)) \in Eligible(r, a) \ {0}
             /\ \A i \in Eligible(r, a) : Max(Eligible(r, a)) >= i
  <2>1. Eligible(r, a) \subseteq Nat \ {0} /\ \A i \in Eligible(r, a) : i <= Len(r.records)
    BY <1>1 DEF Eligible
  <2>. QED  BY <1>1, <1>3, <2>1, MaxBounds
<1>. QED  BY <1>2, <1>3

\* Nothing became eligible, and the source still is.
LEMMA SourceKept ==
    ASSUME NEW r, NEW s, NEW a,
           r.records \in Seq(Records), s.records \in Seq(Records),
           a \in s.members <=> a \in r.members,
           Eligible(s, a) \subseteq Eligible(r, a),
           LatestHandoffSource(r, a) \in Eligible(s, a) \cup {0}
    PROVE  LatestHandoffSource(s, a) = LatestHandoffSource(r, a)
<1>1. CASE LatestHandoffSource(r, a) = 0
  BY <1>1, SourceIs
<1>2. CASE LatestHandoffSource(r, a) # 0
  <2>. DEFINE x == LatestHandoffSource(r, a)
  <2>1. x \in Eligible(s, a) /\ a \in s.members /\ \A i \in Eligible(s, a) : x >= i
    BY <1>2, SourceIs
  <2>2. Eligible(s, a) \subseteq Nat
    BY DEF Eligible
  <2>3. Max(Eligible(s, a)) = x
    <3>. HIDE DEF x
    <3>. QED  BY <2>1, <2>2, MaxIs
  <2>. QED  BY <2>1, <2>3, SourceIs
<1>. QED  BY <1>1, <1>2

(***************************************************************************)
(* What a step leaves of the invariant                                     *)
(***************************************************************************)

\* Only these fields count.
LEMMA SameRoom ==
    ASSUME NEW r, NEW s, NEW o,
           DOMAIN s = Fields, s.records = r.records, s.streaming = r.streaming,
           s.members = r.members, s.latest = r.latest, Good(r, o)
    PROVE  Good(s, o)
<1>1. Shaped(s)
  BY DEF Good, Shaped
<1>2. Owned(s, o)
  BY DEF Good, Owned, OwnStream
<1>3. ASSUME NEW a \in Alias
      PROVE  CachedAt(s, a) /\ Fresh(s, a)
  <2>1. LatestHandoffSource(s, a) = LatestHandoffSource(r, a)
    BY DEF LatestHandoffSource, HandoffEligible
  <2>. QED  BY <2>1 DEF Good, CachedAt, Fresh
<1>. QED  BY <1>1, <1>2, <1>3 DEF Good

LEMMA BumpGood ==
    ASSUME NEW step, NEW o, Good(step.room, o)
    PROVE  Good(BumpVersion(step), o)
<1>. DEFINE r == step.room
<1>1. DOMAIN r = Fields
  BY DEF Good, Shaped
<1>2. \A v, d : LET s == [r EXCEPT !.version = v, !.dirty = d]
                IN  /\ DOMAIN s = Fields /\ s.records = r.records
                    /\ s.streaming = r.streaming /\ s.members = r.members
                    /\ s.latest = r.latest
  BY <1>1 DEF Fields
<1>3. PICK v, d : BumpVersion(step) = [r EXCEPT !.version = v, !.dirty = d]
  BY DEF BumpVersion
<1>4. LET s == BumpVersion(step)
      IN  /\ DOMAIN s = Fields /\ s.records = r.records
          /\ s.streaming = r.streaming /\ s.members = r.members
          /\ s.latest = r.latest
  BY <1>2, <1>3
<1>. HIDE DEF r
<1>5. Good(r, o)
  BY DEF r
<1>. QED  BY <1>4, <1>5, SameRoom

\* A record of nobody.
LEMMA AppendGood ==
    ASSUME NEW r, NEW o, Good(r, o), NEW record \in Records,
           record.kind \notin Authored, record.alias = NoAlias, record.text = <<>>
    PROVE  Good(AppendRecord(r, record).room, o)
<1>. DEFINE s == AppendRecord(r, record).room
<1>1. /\ DOMAIN s = Fields /\ s.records = Append(r.records, record)
      /\ s.streaming = r.streaming /\ s.members = r.members /\ s.latest = r.latest
  BY DEF AppendRecord, Step, Good, Shaped, Fields
<1>. HIDE DEF s
<1>2. /\ s.records \in Seq(Records) /\ Len(s.records) = Len(r.records) + 1
      /\ s.records[Len(r.records) + 1] = record
      /\ \A k \in 1 .. Len(r.records) : s.records[k] = r.records[k]
      /\ Len(r.records) \in Nat
  BY <1>1 DEF Good, Shaped
<1>3. Shaped(s)
  BY <1>1, <1>2 DEF Good, Shaped
<1>4. Owned(s, o)
  <2>1. \A k \in 1 .. Len(s.records) : OwnRecord(s.records[k], o)
    <3>1. OwnRecord(record, o)
      BY DEF OwnRecord
    <3>. QED  BY <1>2, <3>1 DEF Good, Owned
  <2>2. ASSUME NEW id \in DOMAIN s.streaming PROVE OwnStream(s, id)
    <3>1. id \in DOMAIN r.streaming /\ s.streaming[id] = r.streaming[id]
      BY <1>1
    <3>2. OwnStream(r, id)
      BY <3>1 DEF Good, Owned
    <3>3. PICK k : k = r.streaming[id].at
      OBVIOUS
    <3>4. k \in 1 .. Len(r.records)
      BY <3>2, <3>3 DEF OwnStream
    <3>5. s.records[k] = r.records[k] /\ k \in 1 .. Len(s.records)
      BY <1>2, <3>4
    <3>. QED  BY <3>1, <3>2, <3>3, <3>5 DEF OwnStream
  <2>. QED  BY <2>1, <2>2 DEF Owned
<1>5. ASSUME NEW a \in Alias
      PROVE  CachedAt(s, a) /\ Fresh(s, a)
  <2>1. CachedAt(r, a) /\ Fresh(r, a)
    BY DEF Good
  <2>2. a # NoAlias
    BY RoomAssumption
  <2>3. CachedAt(s, a)
    BY <1>1, <1>2, <2>1, <2>2 DEF CachedAt
  <2>4. Eligible(s, a) = Eligible(r, a)
    BY <1>1, <1>2, <2>2 DEF Eligible, HandoffEligible
  <2>5. LatestHandoffSource(s, a) = LatestHandoffSource(r, a)
    <3>1. r.records \in Seq(Records)
      BY DEF Good, Shaped
    <3>2. LatestHandoffSource(r, a) \in Eligible(r, a) \cup {0}
      BY <3>1, SourceIs
    <3>3. s.records \in Seq(Records) /\ s.members = r.members
      BY <1>1, <1>2
    <3>. QED  BY <2>4, <3>1, <3>2, <3>3, SourceKept
  <2>6. Fresh(s, a)
    <3>1. s.latest[a] = r.latest[a] /\ s.streaming = r.streaming
      BY <1>1
    <3>2. r.latest[a] # 0 => s.records[r.latest[a]] = r.records[r.latest[a]]
      BY <1>2, <2>1 DEF CachedAt
    <3>. QED  BY <2>1, <2>5, <3>1, <3>2 DEF Fresh
  <2>. QED  BY <2>3, <2>6
<1>. QED  BY <1>3, <1>4, <1>5 DEF Good, s

\* Another invitation is made.
LEMMA InviteGood ==
    ASSUME NEW r, NEW o \in Seq(Alias), NEW a \in Alias, Good(r, o)
    PROVE  Good(r, Append(o, a))
<1>1. \A i \in 1 .. Len(o) : i \in 1 .. Len(Append(o, a)) /\ Append(o, a)[i] = o[i]
  OBVIOUS
<1>2. Owned(r, Append(o, a))
  BY <1>1 DEF Good, Owned, OwnRecord
<1>. QED  BY <1>2 DEF Good

(***************************************************************************)
(* What an agent says                                                      *)
(***************************************************************************)

LEMMA OwnSame ==
    ASSUME NEW x, NEW y, NEW o, OwnRecord(x, o),
           y.kind = x.kind, y.alias = x.alias, y.id = x.id, y.text = x.text
    PROVE  OwnRecord(y, o)
BY DEF OwnRecord

LEMMA AppendFacts ==
    ASSUME NEW S, NEW q \in Seq(S), NEW e \in S
    PROVE  /\ Append(q, e) \in Seq(S) /\ Len(q) \in Nat /\ Len(Append(q, e)) = Len(q) + 1
           /\ Append(q, e) # <<>>
           /\ Append(q, e)[Len(q) + 1] = e
           /\ \A k \in 1 .. Len(q) : Append(q, e)[k] = q[k]
OBVIOUS

LEMMA ReplaceFacts ==
    ASSUME NEW S, NEW q \in Seq(S), NEW k \in 1 .. Len(q), NEW e \in S
    PROVE  /\ [q EXCEPT ![k] = e] \in Seq(S)
           /\ Len([q EXCEPT ![k] = e]) = Len(q)
           /\ [q EXCEPT ![k] = e][k] = e
           /\ \A j \in 1 .. Len(q) : j # k => [q EXCEPT ![k] = e][j] = q[j]
OBVIOUS

LEMMA AccumulateGood ==
    ASSUME NEW r, NEW o, Good(r, o), NEW id \in DOMAIN r.streaming,
           NEW word \in Words, word.by = id[1]
    PROVE  Good(Accumulate(r, id, word).room, o)
<1>. DEFINE s    == Accumulate(r, id, word).room
            at   == r.streaming[id].at
            old  == r.records[at]
            new  == [old EXCEPT !.text = Append(@, word)]
<1>1. /\ r.records \in Seq(Records) /\ Len(r.records) \in Nat
      /\ at \in 1 .. Len(r.records) /\ old \in Records
      /\ old.kind \in Authored /\ old.id = id /\ OwnRecord(old, o)
  <2>1. r.records \in Seq(Records)
    BY DEF Good, Shaped
  <2>2. OwnStream(r, id)
    BY DEF Good, Owned
  <2>3. at \in 1 .. Len(r.records) /\ old.kind \in Authored /\ old.id = id
    BY <2>2 DEF OwnStream
  <2>4. OwnRecord(old, o)
    BY <2>3 DEF Good, Owned
  <2>. HIDE DEF at
  <2>5. Len(r.records) \in Nat /\ old \in Records
    BY <2>1, <2>3
  <2>. QED  BY <2>1, <2>3, <2>4, <2>5
<1>2. /\ DOMAIN s = Fields /\ s.records = [r.records EXCEPT ![at] = new]
      /\ s.streaming = r.streaming /\ s.members = r.members /\ s.latest = r.latest
  BY <1>1 DEF Accumulate, Step, Good, Shaped, Fields
<1>3. /\ new \in Records /\ new.kind = old.kind /\ new.alias = old.alias
      /\ new.id = old.id /\ new.marked = old.marked
      /\ new.text = Append(old.text, word)
  <2>. HIDE DEF old
  <2>1. old.text \in Seq(Words)
    BY <1>1 DEF Records
  <2>2. Append(old.text, word) \in Seq(Words)
    BY <2>1
  <2>3. new \in Records
    BY <1>1, <2>2 DEF Records
  <2>4. /\ new.kind = old.kind /\ new.alias = old.alias /\ new.id = old.id
        /\ new.marked = old.marked /\ new.text = Append(old.text, word)
    BY <1>1 DEF Records
  <2>. QED  BY <2>3, <2>4
<1>4. OwnRecord(new, o)
  <2>1. \A n \in 1 .. Len(new.text) : new.text[n].by = id[1]
    <3>. HIDE DEF old, new
    <3>0. old.text \in Seq(Words)
      BY <1>1 DEF Records
    <3>1. Len(old.text) \in Nat
      BY <3>0
    <3>2. \A n \in 1 .. Len(old.text) : old.text[n].by = id[1]
      BY <1>1 DEF OwnRecord
    <3>3. /\ Len(new.text) = Len(old.text) + 1
          /\ new.text[Len(old.text) + 1] = word
          /\ \A n \in 1 .. Len(old.text) : new.text[n] = old.text[n]
      BY <1>3, <3>1
    <3>. QED  BY <3>1, <3>2, <3>3
  <2>. QED  BY <1>1, <1>3, <2>1 DEF OwnRecord
<1>. HIDE DEF s, new
<1>5. /\ s.records \in Seq(Records) /\ Len(s.records) = Len(r.records)
      /\ s.records[at] = new
      /\ \A k \in 1 .. Len(r.records) : k # at => s.records[k] = r.records[k]
  <2>. DEFINE q == r.records
  <2>1. q \in Seq(Records) /\ at \in 1 .. Len(q) /\ s.records = [q EXCEPT ![at] = new]
    BY <1>1, <1>2
  <2>. HIDE DEF q, at
  <2>2. /\ s.records \in Seq(Records) /\ Len(s.records) = Len(q) /\ s.records[at] = new
        /\ \A k \in 1 .. Len(q) : k # at => s.records[k] = q[k]
    BY <1>3, <2>1, ReplaceFacts
  <2>. QED  BY <2>2 DEF q
<1>6. Shaped(s)
  BY <1>2, <1>5 DEF Good, Shaped
<1>7. Owned(s, o)
  <2>1. \A k \in 1 .. Len(s.records) : OwnRecord(s.records[k], o)
    BY <1>4, <1>5 DEF Good, Owned
  <2>2. \A k \in 1 .. Len(s.records) : /\ s.records[k].kind = r.records[k].kind
                                       /\ s.records[k].id = r.records[k].id
                                       /\ s.records[k].alias = r.records[k].alias
    BY <1>3, <1>5
  <2>3. ASSUME NEW x \in DOMAIN s.streaming PROVE OwnStream(s, x)
    <3>1. x \in DOMAIN r.streaming /\ s.streaming[x] = r.streaming[x]
      BY <1>2
    <3>2. OwnStream(r, x)
      BY <3>1 DEF Good, Owned
    <3>. HIDE DEF at, old
    <3>. QED  BY <1>5, <2>2, <3>1, <3>2 DEF OwnStream
  <2>. QED  BY <2>1, <2>3 DEF Owned
<1>8. ASSUME NEW a \in Alias
      PROVE  CachedAt(s, a) /\ Fresh(s, a)
  <2>1. CachedAt(r, a) /\ Fresh(r, a)
    BY DEF Good
  <2>2. \A k \in 1 .. Len(s.records) : /\ s.records[k].kind = r.records[k].kind
                                       /\ s.records[k].id = r.records[k].id
                                       /\ s.records[k].alias = r.records[k].alias
                                       /\ s.records[k].marked = r.records[k].marked
    BY <1>3, <1>5
  <2>3. CachedAt(s, a)
    <3>1. s.latest[a] = r.latest[a] /\ Len(s.records) = Len(r.records)
      BY <1>2, <1>5
    <3>. HIDE DEF at, old
    <3>. QED  BY <2>1, <2>2, <3>1 DEF CachedAt
  <2>4. Eligible(s, a) = Eligible(r, a)
    <3>1. new.text # <<>> /\ s.records[at].text = new.text
      <4>1. old.text \in Seq(Words)
        BY <1>1 DEF Records
      <4>. HIDE DEF old
      <4>2. Append(old.text, word) # <<>>
        BY <4>1, AppendFacts
      <4>3. new.text = Append(old.text, word) /\ s.records[at] = new
        BY <1>3, <1>5
      <4>. QED  BY <4>2, <4>3
    <3>2. at \notin Eligible(s, a) /\ at \notin Eligible(r, a)
      <4>1. id \in DOMAIN r.streaming /\ s.streaming = r.streaming
        BY <1>2
      <4>2. r.records[at].id = id /\ s.records[at].id = id
        BY <1>1, <1>3, <1>5
      <4>. HIDE DEF at
      <4>. QED  BY <4>1, <4>2 DEF Eligible, HandoffEligible
    <3>3. ASSUME NEW k \in 1 .. Len(r.records), k # at
          PROVE  HandoffEligible(s, k, a) <=> HandoffEligible(r, k, a)
      <4>1. s.records[k] = r.records[k] /\ s.streaming = r.streaming
        BY <1>2, <1>5, <3>3
      <4>. QED  BY <4>1 DEF HandoffEligible
    <3>. HIDE DEF at
    <3>. QED  BY <1>5, <3>2, <3>3 DEF Eligible
  <2>5. LatestHandoffSource(r, a) \in Eligible(r, a) \cup {0}
    BY <1>1, SourceIs
  <2>6. LatestHandoffSource(s, a) = LatestHandoffSource(r, a)
    <3>1. /\ r.records \in Seq(Records) /\ s.records \in Seq(Records)
          /\ s.members = r.members
      BY <1>1, <1>2, <1>5
    <3>. QED  BY <2>4, <2>5, <3>1, SourceKept
  <2>7. Fresh(s, a)
    <3>. HIDE DEF at, old
    <3>1. s.latest[a] = r.latest[a] /\ s.streaming = r.streaming
      BY <1>2
    <3>2. r.latest[a] # 0 => s.records[r.latest[a]].id = r.records[r.latest[a]].id
      BY <1>5, <2>1, <2>2 DEF CachedAt
    <3>. QED  BY <2>1, <2>6, <3>1, <3>2 DEF Fresh
  <2>. QED  BY <2>3, <2>7
<1>. QED  BY <1>6, <1>7, <1>8 DEF Good, s

\* A record of a stream that was not open: none of its kind, or one the room
\* closed when its participant left.
LEMMA OpenGood ==
    ASSUME NEW r, NEW o \in Seq(Alias), Good(r, o),
           NEW id \in Ids, id[1] \in 1 .. Len(o), id \notin DOMAIN r.streaming,
           NEW word \in Words, word.by = id[1]
    PROVE  Good(OpenStream(r, o[id[1]], id, Kind(id[2]), word).room, o)
<1>. DEFINE b   == o[id[1]]
            s   == OpenStream(r, b, id, Kind(id[2]), word).room
            at  == Len(r.records) + 1
            new == Record(Kind(id[2]), b, id, <<word>>)
<1>1. r.records \in Seq(Records) /\ Len(r.records) \in Nat /\ b \in Alias
  BY DEF Good, Shaped
<1>2. /\ DOMAIN s = Fields /\ s.records = Append(r.records, new)
      /\ s.streaming = [x \in DOMAIN r.streaming \cup {id} |->
                            IF x = id THEN [alias |-> b, at |-> at] ELSE r.streaming[x]]
      /\ s.members = r.members /\ s.latest = r.latest
  BY DEF OpenStream, Step, Good, Shaped, Fields
<1>3. Kind(id[2]) \in Authored
  BY DEF Kind, Authored
<1>4. new \in Records /\ new.marked = FALSE
  <2>1. id \in (0 .. MaxInvites) \X (Streams \cup {"none"})
    BY TranscriptAssumption DEF Ids, Inc
  <2>. QED  BY <1>1, <1>3, <2>1 DEF Record, Records, Authored
<1>5. OwnRecord(new, o)
  BY <1>1, <1>3 DEF OwnRecord, Record
<1>6. new.alias = b /\ new.id = id /\ new.kind = Kind(id[2])
  BY DEF Record
<1>. HIDE DEF s, new
<1>7. /\ s.records \in Seq(Records) /\ Len(s.records) = at
      /\ s.records[at] = new
      /\ \A k \in 1 .. Len(r.records) : s.records[k] = r.records[k]
  BY <1>1, <1>2, <1>4, AppendFacts
<1>8. Shaped(s)
  <2>1. s.streaming \in [DOMAIN s.streaming -> [alias : Alias, at : Nat]]
    BY <1>1, <1>2 DEF Good, Shaped
  <2>. QED  BY <1>2, <1>7, <2>1 DEF Good, Shaped
<1>9. Owned(s, o)
  <2>1. \A k \in 1 .. Len(s.records) : OwnRecord(s.records[k], o)
    BY <1>1, <1>5, <1>7 DEF Good, Owned
  <2>2. ASSUME NEW x \in DOMAIN s.streaming, x # id
        PROVE  OwnStream(s, x)
    <3>1. x \in DOMAIN r.streaming /\ s.streaming[x] = r.streaming[x]
      BY <1>2, <2>2
    <3>2. OwnStream(r, x)
      BY <3>1 DEF Good, Owned
    <3>3. /\ s.streaming[x].at \in 1 .. Len(r.records)
          /\ s.records[s.streaming[x].at] = r.records[r.streaming[x].at]
      BY <1>7, <3>1, <3>2 DEF OwnStream
    <3>4. s.streaming[x].at \in 1 .. Len(s.records)
      BY <1>1, <1>7, <3>3
    <3>. QED  BY <3>1, <3>2, <3>3, <3>4 DEF OwnStream
  <2>3. OwnStream(s, id)
    <3>1. s.streaming[id] = [alias |-> b, at |-> at]
      BY <1>2
    <3>. QED  BY <1>1, <1>3, <1>6, <1>7, <3>1 DEF OwnStream
  <2>. QED  BY <2>1, <2>2, <2>3 DEF Owned
<1>10. ASSUME NEW a \in Alias
       PROVE  CachedAt(s, a) /\ Fresh(s, a)
  <2>1. CachedAt(r, a) /\ Fresh(r, a)
    BY DEF Good
  <2>2. CachedAt(s, a)
    <3>1. r.latest[a] \in 0 .. Len(r.records) /\ s.latest[a] = r.latest[a]
      BY <1>2, <2>1 DEF CachedAt
    <3>2. \A i \in 1 .. Len(s.records) :
              s.records[i].alias = a => (s.records[i].marked = (i = s.latest[a]))
      <4>1. \A i \in 1 .. Len(r.records) :
                s.records[i].alias = a => (s.records[i].marked = (i = s.latest[a]))
        BY <1>7, <2>1, <3>1 DEF CachedAt
      <4>2. s.records[at].marked = (at = s.latest[a])
        <5>1. (at = s.latest[a]) = FALSE
          BY <1>1, <3>1
        <5>2. s.records[at].marked = FALSE
          BY <1>4, <1>7
        <5>. QED  BY <5>1, <5>2
      <4>. QED  BY <1>1, <1>7, <4>1, <4>2
    <3>. QED  BY <1>1, <1>7, <2>1, <3>1, <3>2 DEF CachedAt
  <2>3. DOMAIN s.streaming = DOMAIN r.streaming \cup {id}
    BY <1>2
  <2>4. CASE r.latest[a] # 0 /\ r.records[r.latest[a]].id \in DOMAIN s.streaming
    <3>1. s.latest[a] = r.latest[a] /\ r.latest[a] \in 1 .. Len(r.records)
      BY <1>2, <2>1, <2>4 DEF CachedAt
    <3>2. s.records[s.latest[a]] = r.records[r.latest[a]]
      BY <1>7, <3>1
    <3>. QED  BY <2>2, <2>4, <3>1, <3>2 DEF Fresh
  <2>5. CASE ~ (r.latest[a] # 0 /\ r.records[r.latest[a]].id \in DOMAIN s.streaming)
    <3>1. r.latest[a] = LatestHandoffSource(r, a)
      BY <2>1, <2>3, <2>5 DEF Fresh
    <3>2. Eligible(s, a) = {i \in Eligible(r, a) : r.records[i].id # id}
      <4>1. \A k \in 1 .. Len(r.records) :
               HandoffEligible(s, k, a) <=> (HandoffEligible(r, k, a) /\ r.records[k].id # id)
        BY <1>7, <2>3 DEF HandoffEligible
      <4>2. ~ HandoffEligible(s, at, a)
        BY <1>6, <1>7, <2>3 DEF HandoffEligible
      <4>3. \A k : k \in 1 .. Len(s.records) <=> (k \in 1 .. Len(r.records) \/ k = at)
        BY <1>1, <1>7
      <4>. QED  BY <4>1, <4>2, <4>3 DEF Eligible
    <3>3. LatestHandoffSource(r, a) \in Eligible(r, a) \cup {0}
      BY <1>1, SourceIs
    <3>4. LatestHandoffSource(r, a) \in Eligible(s, a) \cup {0}
      <4>1. r.latest[a] # 0 => r.records[r.latest[a]].id # id
        BY <2>3, <2>5
      <4>. QED  BY <3>1, <3>2, <3>3, <4>1
    <3>5. LatestHandoffSource(s, a) = LatestHandoffSource(r, a)
      <4>1. Eligible(s, a) \subseteq Eligible(r, a)
        BY <3>2
      <4>2. a \in s.members <=> a \in r.members
        BY <1>2
      <4>. QED  BY <1>1, <1>7, <3>4, <4>1, <4>2, SourceKept
    <3>. QED  BY <1>2, <2>2, <3>1, <3>5 DEF Fresh
  <2>. QED  BY <2>2, <2>4, <2>5
<1>. QED  BY <1>8, <1>9, <1>10 DEF Good, s

LEMMA FragmentGood ==
    ASSUME NEW r, NEW o \in Seq(Alias), Good(r, o),
           NEW id \in Ids, id[1] \in 1 .. Len(o),
           NEW word \in Words, word.by = id[1]
    PROVE  Good(Fragment(r, o[id[1]], id, Kind(id[2]), word).room, o)
<1>1. CASE id \notin DOMAIN r.streaming
  BY <1>1, OpenGood DEF Fragment, Accumulates
<1>2. CASE id \in DOMAIN r.streaming
  <2>1. r.records[r.streaming[id].at].kind = Kind(id[2])
    <3>1. PICK k : k = r.streaming[id].at
      OBVIOUS
    <3>2. k \in 1 .. Len(r.records) /\ r.records[k].kind \in Authored /\ r.records[k].id = id
      BY <1>2, <3>1 DEF Good, Owned, OwnStream
    <3>3. OwnRecord(r.records[k], o)
      BY <3>2 DEF Good, Owned
    <3>. QED  BY <3>1, <3>2, <3>3 DEF OwnRecord
  <2>2. Accumulates(r, id, Kind(id[2]))
    BY <1>2, <2>1 DEF Accumulates
  <2>. QED  BY <1>2, <2>2, AccumulateGood DEF Fragment
<1>. QED  BY <1>1, <1>2

(***************************************************************************)
(* The source of a participant is found again                              *)
(***************************************************************************)

\* Marks change, and nothing else of a record does.
LEMMA Remarked ==
    ASSUME NEW r, Shaped(r), NEW a \in Alias, NEW next \in Nat,
           NEW mark, NEW unmark
    PROVE  LET s == Remark(r, a, next, mark, unmark)
           IN  /\ Shaped(s) /\ Len(s.records) = Len(r.records)
               /\ s.streaming = r.streaming /\ s.members = r.members
               /\ s.latest = [r.latest EXCEPT ![a] = next]
               /\ \A i \in 1 .. Len(r.records) :
                      /\ s.records[i].kind = r.records[i].kind
                      /\ s.records[i].alias = r.records[i].alias
                      /\ s.records[i].id = r.records[i].id
                      /\ s.records[i].text = r.records[i].text
                      /\ s.records[i].marked =
                            ((r.records[i].marked \/ i \in mark) /\ i \notin unmark)
<1>. DEFINE s == Remark(r, a, next, mark, unmark)
            m(i) == (r.records[i].marked \/ i \in mark) /\ i \notin unmark
            new(i) == [r.records[i] EXCEPT !.marked = m(i)]
<1>1. r.records \in Seq(Records) /\ Len(r.records) \in Nat
      /\ DOMAIN r.records = 1 .. Len(r.records)
  BY DEF Shaped
<1>2. /\ DOMAIN s = Fields /\ s.records = [i \in 1 .. Len(r.records) |-> new(i)]
      /\ s.streaming = r.streaming /\ s.members = r.members
      /\ s.latest = [r.latest EXCEPT ![a] = next]
  <2>1. DOMAIN r = Fields
    BY DEF Shaped
  <2>2. s = [r EXCEPT !.latest[a] = next,
                      !.records = [i \in DOMAIN r.records |-> new(i)]]
    BY DEF Remark
  <2>. HIDE DEF s, new
  <2>. QED  BY <1>1, <2>1, <2>2 DEF Fields
<1>3. ASSUME NEW i \in 1 .. Len(r.records)
      PROVE  /\ new(i) \in Records /\ new(i).kind = r.records[i].kind
             /\ new(i).alias = r.records[i].alias /\ new(i).id = r.records[i].id
             /\ new(i).text = r.records[i].text /\ new(i).marked = m(i)
  <2>1. r.records[i] \in Records /\ m(i) \in BOOLEAN
    BY <1>1
  <2>. HIDE DEF m
  <2>. QED  BY <2>1 DEF Records
<1>. HIDE DEF s, new
<1>4. /\ s.records \in Seq(Records) /\ Len(s.records) = Len(r.records)
      /\ \A i \in 1 .. Len(r.records) : s.records[i] = new(i)
  BY <1>1, <1>2, <1>3
<1>5. Shaped(s)
  BY <1>2, <1>4 DEF Shaped
<1>. QED  BY <1>2, <1>3, <1>4, <1>5 DEF s

LEMMA RefreshGood ==
    ASSUME NEW r, NEW o, NEW a \in Alias, GoodBut(r, o, a)
    PROVE  Good(RefreshLatestHandoffSource(r, a).room, o)
<1>. DEFINE next   == LatestHandoffSource(r, a)
            unmark == {i \in DOMAIN r.records :
                            i = r.latest[a] /\ r.records[i].marked /\ i # next}
            mark   == {i \in DOMAIN r.records : i = next /\ ~ r.records[i].marked}
            s      == Remark(r, a, next, mark, unmark)
<1>1. RefreshLatestHandoffSource(r, a).room = s
  BY DEF RefreshLatestHandoffSource, Step
<1>2. /\ Shaped(r) /\ r.records \in Seq(Records) /\ Len(r.records) \in Nat
      /\ DOMAIN r.records = 1 .. Len(r.records)
  BY DEF GoodBut, Shaped
<1>3. /\ next \in 0 .. Len(r.records)
      /\ next # 0 => next \in Eligible(r, a)
  <2>. HIDE DEF next
  <2>1. next = LatestHandoffSource(r, a)
    BY DEF next
  <2>2. /\ next # 0 => next \in Eligible(r, a)
        /\ Eligible(r, a) \subseteq 1 .. Len(r.records)
    BY <1>2, <2>1, SourceIs DEF Eligible
  <2>. QED  BY <1>2, <2>2
<1>4. next # 0 => r.records[next].alias = a /\ r.records[next].kind = "output"
  BY <1>3 DEF Eligible, HandoffEligible
<1>5. unmark \subseteq {r.latest[a]} \ {0} /\ mark \subseteq {next} \ {0}
  BY <1>2
<1>6. /\ Shaped(s) /\ Len(s.records) = Len(r.records)
      /\ s.streaming = r.streaming /\ s.members = r.members
      /\ s.latest = [r.latest EXCEPT ![a] = next]
      /\ \A i \in 1 .. Len(r.records) :
             /\ s.records[i].kind = r.records[i].kind
             /\ s.records[i].alias = r.records[i].alias
             /\ s.records[i].id = r.records[i].id
             /\ s.records[i].text = r.records[i].text
             /\ s.records[i].marked =
                   ((r.records[i].marked \/ i \in mark) /\ i \notin unmark)
  <2>. HIDE DEF next, mark, unmark
  <2>. QED  BY <1>2, <1>3, Remarked
<1>7. Owned(s, o)
  <2>. HIDE DEF s
  <2>1. \A k \in 1 .. Len(s.records) : OwnRecord(s.records[k], o)
    <3>1. SUFFICES ASSUME NEW k \in 1 .. Len(r.records)
                   PROVE  OwnRecord(s.records[k], o)
      BY <1>6
    <3>2. OwnRecord(r.records[k], o)
      BY DEF GoodBut, Owned
    <3>3. /\ s.records[k].kind = r.records[k].kind /\ s.records[k].alias = r.records[k].alias
          /\ s.records[k].id = r.records[k].id /\ s.records[k].text = r.records[k].text
      BY <1>6
    <3>. QED  BY <3>2, <3>3, OwnSame
  <2>2. ASSUME NEW id \in DOMAIN s.streaming PROVE OwnStream(s, id)
    <3>1. id \in DOMAIN r.streaming /\ s.streaming[id] = r.streaming[id]
      BY <1>6
    <3>2. OwnStream(r, id)
      BY <3>1 DEF GoodBut, Owned
    <3>3. Len(s.records) = Len(r.records) /\ \A i \in 1 .. Len(r.records) :
             /\ s.records[i].kind = r.records[i].kind
             /\ s.records[i].alias = r.records[i].alias
             /\ s.records[i].id = r.records[i].id
      BY <1>6
    <3>. HIDE DEF next, mark, unmark
    <3>. QED  BY <3>1, <3>2, <3>3 DEF OwnStream
  <2>. QED  BY <2>1, <2>2 DEF Owned
<1>8. \A b \in Alias : LatestHandoffSource(s, b) = LatestHandoffSource(r, b)
  <2>1. ASSUME NEW b \in Alias
        PROVE  Eligible(s, b) = Eligible(r, b)
    <3>. HIDE DEF s
    <3>. QED  BY <1>6 DEF Eligible, HandoffEligible
  <2>. HIDE DEF s
  <2>2. \A b \in Alias : LatestHandoffSource(r, b) \in Eligible(r, b) \cup {0}
    BY <1>2, SourceIs
  <2>. QED  BY <1>2, <1>6, <2>1, <2>2, SourceKept DEF Shaped
<1>9. s.latest[a] = next /\ \A b \in Alias \ {a} : s.latest[b] = r.latest[b]
  BY <1>2, <1>6 DEF Shaped
<1>10. ASSUME NEW i \in 1 .. Len(r.records), r.records[i].alias = a
       PROVE  s.records[i].marked = (i = next)
  <2>1. r.records[i].marked = (i = r.latest[a])
    BY <1>10 DEF GoodBut, CachedAt
  <2>2. s.records[i].marked = ((r.records[i].marked \/ i \in mark) /\ i \notin unmark)
    BY <1>6
  <2>3. CASE i = next
    BY <1>2, <2>2, <2>3
  <2>4. CASE i # next /\ i = r.latest[a]
    BY <1>2, <2>1, <2>2, <2>4
  <2>5. CASE i # next /\ i # r.latest[a]
    BY <1>2, <2>1, <2>2, <2>5
  <2>. QED  BY <2>3, <2>4, <2>5
<1>11. ASSUME NEW i \in 1 .. Len(r.records), r.records[i].alias # a
       PROVE  s.records[i].marked = r.records[i].marked
  <2>1. i \notin mark
    BY <1>4, <1>5, <1>11
  <2>2. i \notin unmark
    BY <1>5, <1>11 DEF GoodBut, CachedAt
  <2>3. r.records[i].marked \in BOOLEAN
    <3>1. r.records[i] \in Records
      BY <1>2
    <3>. QED  BY <3>1 DEF Records
  <2>. QED  BY <1>6, <2>1, <2>2, <2>3
<1>. HIDE DEF s, next, mark, unmark
<1>12. \A b \in Alias : CachedAt(s, b)
  <2>1. CachedAt(s, a)
    BY <1>3, <1>4, <1>6, <1>9, <1>10 DEF CachedAt
  <2>2. ASSUME NEW b \in Alias \ {a}
        PROVE  CachedAt(s, b)
    <3>1. CachedAt(r, b)
      BY DEF GoodBut
    <3>. QED  BY <1>6, <1>9, <1>11, <3>1 DEF CachedAt
  <2>. QED  BY <2>1, <2>2
<1>13. \A b \in Alias : Fresh(s, b)
  <2>1. Fresh(s, a)
    <3>1. next = LatestHandoffSource(r, a)
      BY DEF next
    <3>. QED  BY <1>8, <1>9, <3>1 DEF Fresh
  <2>2. ASSUME NEW b \in Alias \ {a}
        PROVE  Fresh(s, b)
    <3>1. CachedAt(r, b) /\ Fresh(r, b)
      BY DEF GoodBut
    <3>. QED  BY <1>6, <1>8, <1>9, <3>1 DEF Fresh, CachedAt
  <2>. QED  BY <2>1, <2>2
<1>. QED  BY <1>1, <1>6, <1>7, <1>12, <1>13 DEF Good

(***************************************************************************)
(* Streams end, participants come and go                                   *)
(***************************************************************************)

LEMMA ShowGood ==
    ASSUME NEW step, NEW o, Good(step.room, o), NEW record \in Records,
           record.kind \notin Authored, record.alias = NoAlias, record.text = <<>>
    PROVE  Good(Then(step, AppendRecord(step.room, record)).room, o)
BY AppendGood DEF Then, Step

LEMMA SystemRecords ==
    /\ SystemRecord \in Records /\ SystemRecord.kind \notin Authored
    /\ SystemRecord.alias = NoAlias /\ SystemRecord.text = <<>>
    /\ Notice("appended") \in Records /\ Notice("appended").kind \notin Authored
    /\ Notice("appended").alias = NoAlias /\ Notice("appended").text = <<>>
    /\ Notice("notice") \in Records
<1>1. NoStream \in (0 .. MaxInvites) \X (Streams \cup {"none"})
  BY TranscriptAssumption DEF NoStream
<1>2. <<>> \in Seq(Words)
  OBVIOUS
<1>. QED  BY <1>1, <1>2 DEF SystemRecord, Notice, Record, Records, Authored

\* Streams of a are closed: whatever is not a's stays as it was.
LEMMA ClosedBut ==
    ASSUME NEW r, NEW s, NEW o, NEW a \in Alias, Good(r, o),
           DOMAIN s = Fields, s.records = r.records, s.latest = r.latest,
           NEW D \in SUBSET (DOMAIN r.streaming),
           s.streaming = [id \in D |-> r.streaming[id]],
           \A id \in DOMAIN r.streaming \ D : r.streaming[id].alias = a,
           \A b \in Alias \ {a} : b \in s.members <=> b \in r.members
    PROVE  GoodBut(s, o, a)
<1>1. r.records \in Seq(Records) /\ Len(r.records) \in Nat
  BY DEF Good, Shaped
<1>2. Shaped(s)
  BY DEF Good, Shaped
<1>3. Owned(s, o)
  <2>1. ASSUME NEW id \in DOMAIN s.streaming
        PROVE  OwnStream(s, id)
    <3>1. OwnStream(r, id) /\ s.streaming[id] = r.streaming[id]
      BY DEF Good, Owned
    <3>. QED  BY <3>1 DEF OwnStream
  <2>. QED  BY <2>1 DEF Good, Owned
<1>4. \A b \in Alias : CachedAt(s, b)
  BY DEF Good, CachedAt
<1>5. ASSUME NEW b \in Alias \ {a}
      PROVE  Fresh(s, b)
  <2>1. \A i \in 1 .. Len(r.records) :
            r.records[i].alias = b /\ r.records[i].kind = "output"
            => (r.records[i].id \in DOMAIN s.streaming <=>
                r.records[i].id \in DOMAIN r.streaming)
    <3>1. SUFFICES ASSUME NEW i \in 1 .. Len(r.records),
                          r.records[i].alias = b, r.records[i].kind = "output",
                          r.records[i].id \in DOMAIN r.streaming
                   PROVE  r.records[i].id \in D
      OBVIOUS
    <3>. DEFINE id == r.records[i].id
    <3>2. b = o[id[1]]
      BY <3>1 DEF Good, Owned, OwnRecord, Authored
    <3>3. /\ r.streaming[id].at \in 1 .. Len(r.records)
          /\ r.records[r.streaming[id].at].kind \in Authored
          /\ r.records[r.streaming[id].at].id = id
          /\ r.records[r.streaming[id].at].alias = r.streaming[id].alias
      BY <3>1 DEF Good, Owned, OwnStream
    <3>4. r.streaming[id].alias = o[id[1]]
      BY <3>3 DEF Good, Owned, OwnRecord
    <3>. QED  BY <3>1, <3>2, <3>4
  <2>2. Eligible(s, b) = Eligible(r, b)
    BY <2>1 DEF Eligible, HandoffEligible
  <2>3. LatestHandoffSource(r, b) \in Eligible(r, b) \cup {0}
    BY <1>1, SourceIs
  <2>4. LatestHandoffSource(s, b) = LatestHandoffSource(r, b)
    BY <1>1, <2>2, <2>3, SourceKept
  <2>. QED  BY <2>1, <2>4 DEF Good, Fresh, CachedAt
<1>. QED  BY <1>2, <1>3, <1>4, <1>5 DEF GoodBut

\* The stream of an item ends: no output does.
LEMMA ItemSealed ==
    ASSUME NEW r, NEW s, NEW o, NEW i, Good(r, o),
           DOMAIN s = Fields, s.records = r.records, s.latest = r.latest,
           s.members = r.members,
           NEW id \in Ids, Kind(id[2]) = "item",
           s.streaming = [x \in DOMAIN r.streaming \ {id} |-> r.streaming[x]]
    PROVE  Good(s, o)
<1>1. r.records \in Seq(Records) /\ Len(r.records) \in Nat
  BY DEF Good, Shaped
<1>2. Shaped(s)
  BY DEF Good, Shaped
<1>3. Owned(s, o)
  <2>1. ASSUME NEW x \in DOMAIN s.streaming
        PROVE  OwnStream(s, x)
    <3>1. OwnStream(r, x) /\ s.streaming[x] = r.streaming[x]
      BY DEF Good, Owned
    <3>. QED  BY <3>1 DEF OwnStream
  <2>. QED  BY <2>1 DEF Good, Owned
<1>4. \A b \in Alias : CachedAt(s, b)
  BY DEF Good, CachedAt
<1>5. ASSUME NEW k \in 1 .. Len(r.records), r.records[k].kind = "output"
      PROVE  r.records[k].id # id
  BY <1>5 DEF Good, Owned, OwnRecord, Authored
<1>6. ASSUME NEW b \in Alias
      PROVE  Fresh(s, b)
  <2>1. Eligible(s, b) = Eligible(r, b)
    BY <1>5 DEF Eligible, HandoffEligible
  <2>2. LatestHandoffSource(r, b) \in Eligible(r, b) \cup {0}
    BY <1>1, SourceIs
  <2>3. LatestHandoffSource(s, b) = LatestHandoffSource(r, b)
    BY <1>1, <2>1, <2>2, SourceKept
  <2>4. r.latest[b] # 0 => r.latest[b] \in 1 .. Len(r.records)
                           /\ r.records[r.latest[b]].kind = "output"
    BY DEF Good, CachedAt
  <2>. QED  BY <1>5, <2>3, <2>4 DEF Good, Fresh
<1>. QED  BY <1>2, <1>3, <1>4, <1>6 DEF Good

LEMMA FlushGood ==
    ASSUME NEW r, NEW o \in Seq(Alias), Good(r, o),
           NEW id \in Ids, id[1] \in 1 .. Len(o)
    PROVE  Good(Flush(r, o[id[1]], id, Kind(id[2])).room, o)
<1>. DEFINE a == o[id[1]]
            s == SealStream(r, id).room
            D == DOMAIN r.streaming \ {id}
<1>1. /\ DOMAIN s = Fields /\ s.records = r.records /\ s.latest = r.latest
      /\ s.members = r.members
      /\ s.streaming = [x \in D |-> r.streaming[x]]
  BY DEF SealStream, Step, Restrict, Good, Shaped, Fields
<1>2. a \in Alias
  OBVIOUS
<1>3. \A x \in DOMAIN r.streaming \ D : r.streaming[x].alias = a
  <2>1. SUFFICES ASSUME id \in DOMAIN r.streaming PROVE r.streaming[id].alias = a
    OBVIOUS
  <2>2. PICK k : k = r.streaming[id].at
    OBVIOUS
  <2>3. /\ k \in 1 .. Len(r.records) /\ r.records[k].kind \in Authored
        /\ r.records[k].id = id /\ r.records[k].alias = r.streaming[id].alias
    BY <2>1, <2>2 DEF Good, Owned, OwnStream
  <2>4. OwnRecord(r.records[k], o)
    BY <2>3 DEF Good, Owned
  <2>. QED  BY <2>3, <2>4 DEF OwnRecord
<1>. HIDE DEF s
<1>4. CASE Kind(id[2]) = "output"
  <2>1. GoodBut(s, o, a)
    BY <1>1, <1>2, <1>3, ClosedBut
  <2>2. Good(RefreshLatestHandoffSource(s, a).room, o)
    BY <1>2, <2>1, RefreshGood
  <2>. QED  BY <1>4, <2>2 DEF Flush, Then, Step, s
<1>5. CASE Kind(id[2]) = "item"
  <2>1. Good(s, o)
    BY <1>1, <1>5, ItemSealed
  <2>. QED  BY <1>5, <2>1 DEF Flush, s
<1>. QED  BY <1>4, <1>5 DEF Kind

LEMMA GoneGood ==
    ASSUME NEW r, NEW o, NEW a \in Alias, Good(r, o)
    PROVE  Good(Gone(r, a).room, o)
<1>. DEFINE D == {id \in DOMAIN r.streaming : r.streaming[id].alias # a}
            c == ClearStreams(r, a)
            s == [c EXCEPT !.members = @ \ {a}, !.departed = @ \cup {a}]
<1>1. DOMAIN r = Fields
  BY DEF Good, Shaped
<1>2. /\ DOMAIN c = Fields /\ c.records = r.records /\ c.latest = r.latest
      /\ c.members = r.members
      /\ c.streaming = [x \in D |-> r.streaming[x]]
  BY <1>1 DEF ClearStreams, Restrict, Fields
<1>. HIDE DEF c
<1>3. /\ DOMAIN s = Fields /\ s.records = r.records /\ s.latest = r.latest
      /\ s.members = r.members \ {a}
      /\ s.streaming = [x \in D |-> r.streaming[x]]
  BY <1>2 DEF Fields
<1>4. Departure(r, a) = RefreshLatestHandoffSource(s, a)
  BY DEF Departure, c
<1>. HIDE DEF s
<1>5. GoodBut(s, o, a)
  BY <1>3, ClosedBut
<1>6. Good(Departure(r, a).room, o)
  BY <1>4, <1>5, RefreshGood
<1>. QED  BY <1>6, ShowGood, SystemRecords DEF Gone, Announced

LEMMA StartedGood ==
    ASSUME NEW r, NEW o, NEW a \in Alias, Good(r, o)
    PROVE  Good(Started(r, a).room, o)
<1>. DEFINE s == [r EXCEPT !.members = @ \cup {a}, !.departed = @ \ {a}]
<1>1. DOMAIN r = Fields
  BY DEF Good, Shaped
<1>2. /\ DOMAIN s = Fields /\ s.records = r.records /\ s.latest = r.latest
      /\ s.members = r.members \cup {a} /\ s.streaming = r.streaming
  BY <1>1 DEF Fields
<1>3. Started(r, a) = Announced(RefreshLatestHandoffSource(s, a))
  BY DEF Started
<1>. HIDE DEF s
<1>4. s.streaming = [id \in DOMAIN r.streaming |-> r.streaming[id]]
  BY <1>2 DEF Good, Shaped
<1>5. GoodBut(s, o, a)
  BY <1>2, <1>4, ClosedBut
<1>6. Good(RefreshLatestHandoffSource(s, a).room, o)
  BY <1>5, RefreshGood
<1>. QED  BY <1>3, <1>6, ShowGood, SystemRecords DEF Announced

LEMMA StartingGood ==
    ASSUME NEW r, NEW o, NEW a, Good(r, o)
    PROVE  Good(Starting(r, a).room, o)
BY AppendGood, SystemRecords DEF Starting

(***************************************************************************)
(* Init and the actions                                                    *)
(***************************************************************************)

LEMMA InitHolds == Init => IInv
<1>. SUFFICES ASSUME Init PROVE IInv
  OBVIOUS
<1>. DEFINE r == NewRoom
<1>1. /\ DOMAIN r = Fields /\ r.records = <<>> /\ r.streaming = <<>>
      /\ r.members = {} /\ r.latest = [a \in Alias |-> 0]
  BY DEF NewRoom, Fields
<1>. HIDE DEF r
<1>2. /\ r.records \in Seq(Records) /\ Len(r.records) = 0
      /\ DOMAIN r.streaming = {}
      /\ r.streaming \in [{} -> [alias : Alias, at : Nat]]
  BY <1>1
<1>3. Shaped(r)
  BY <1>1, <1>2 DEF Shaped
<1>4. Owned(r, <<>>)
  BY <1>2 DEF Owned
<1>5. ASSUME NEW a \in Alias
      PROVE  CachedAt(r, a) /\ Fresh(r, a)
  BY <1>1, <1>2 DEF CachedAt, Fresh, LatestHandoffSource
<1>6. Good(room, aliasOf)
  BY <1>3, <1>4, <1>5 DEF Good, Init, r
<1>7. aliasOf \in Seq(Alias) /\ Len(aliasOf) <= MaxInvites
  BY TranscriptAssumption DEF Init
<1>8. /\ starter \in [Inc -> Phases] /\ reader \in [Inc -> Phases]
      /\ \A i \in Inc : starter[i] = "none" /\ reader[i] = "none"
  BY DEF Init, Phases
<1>9. said \in [Inc -> [Streams -> Nat]]
  BY DEF Init
<1>. QED  BY <1>6, <1>7, <1>8, <1>9 DEF IInv

LEMMA ChangedRoom ==
    ASSUME NEW step, Changed(step)
    PROVE  room' = BumpVersion(step)
BY DEF Changed

\* The rest of the invariant holds, and the room changed to a good one.
LEMMA RoomStep ==
    ASSUME NEW step, Changed(step), Good(step.room, aliasOf'),
           aliasOf' \in Seq(Alias) /\ Len(aliasOf') <= MaxInvites,
           starter' \in [Inc -> Phases] /\ reader' \in [Inc -> Phases],
           said' \in [Inc -> [Streams -> Nat]],
           \A i \in Inc : (starter'[i] # "none" \/ reader'[i] # "none")
                          => i \in 1 .. Len(aliasOf')
    PROVE  IInv'
<1>1. Good(room', aliasOf')
  BY ChangedRoom, BumpGood
<1>. QED  BY <1>1 DEF IInv

\* What an agent has to have been invited for.
LEMMA InvitedOnes ==
    ASSUME IInv, NEW i \in Inc, starter[i] # "none" \/ reader[i] # "none"
    PROVE  i \in 1 .. Len(aliasOf) /\ aliasOf[i] \in Alias
BY DEF IInv

LEMMA InviteKeeps ==
    ASSUME IInv, NEW a \in Alias, Invite(a)
    PROVE  IInv'
<1>. DEFINE new == Len(aliasOf) + 1
<1>1. aliasOf \in Seq(Alias) /\ Len(aliasOf) \in Nat /\ new <= MaxInvites
  BY TranscriptAssumption DEF IInv, Invite, Invited
<1>2. /\ aliasOf' \in Seq(Alias) /\ Len(aliasOf') = new
      /\ aliasOf' = Append(aliasOf, a)
  BY <1>1 DEF Invite
<1>3. Good(room, aliasOf')
  BY <1>1, <1>2, InviteGood DEF IInv
<1>4. Good(Starting(room, a).room, aliasOf')
  BY <1>3, StartingGood
<1>5. /\ starter' \in [Inc -> Phases] /\ reader' \in [Inc -> Phases]
      /\ \A i \in Inc : (starter'[i] # "none" \/ reader'[i] # "none") => i \in 1 .. new
  <2>1. new \in Inc /\ starter' = [starter EXCEPT ![new] = "starting"] /\ reader' = reader
    BY <1>1 DEF Invite, Invited, Inc
  <2>2. "starting" \in Phases
    BY DEF Phases
  <2>3. \A i \in Inc : i # new => starter'[i] = starter[i]
    BY <2>1 DEF IInv
  <2>. QED  BY <1>1, <2>1, <2>2, <2>3 DEF IInv
<1>6. said' \in [Inc -> [Streams -> Nat]]
  BY DEF IInv, Invite, speech
<1>. QED  BY <1>1, <1>2, <1>4, <1>5, <1>6, RoomStep DEF Invite

\* Only the goroutines move.
LEMMA QuietStep ==
    ASSUME IInv, Quiet, aliasOf' = aliasOf, said' = said,
           NEW i \in Inc, starter[i] # "none",
           NEW t \in Phases, NEW d \in Phases,
           starter' = [starter EXCEPT ![i] = t], reader' = [reader EXCEPT ![i] = d]
    PROVE  IInv'
<1>1. Good(room', aliasOf')
  BY DEF IInv, Quiet
<1>2. /\ aliasOf' \in Seq(Alias) /\ Len(aliasOf') <= MaxInvites
      /\ starter' \in [Inc -> Phases] /\ reader' \in [Inc -> Phases]
      /\ said' \in [Inc -> [Streams -> Nat]]
      /\ \A j \in Inc : (starter'[j] # "none" \/ reader'[j] # "none")
                        => j \in 1 .. Len(aliasOf')
  BY DEF IInv
<1>. QED  BY <1>1, <1>2 DEF IInv

\* The room changes, and the goroutines of an invitation.
LEMMA RoomAndGoroutines ==
    ASSUME IInv, NEW step, Changed(step), Good(step.room, aliasOf),
           aliasOf' = aliasOf, said' \in [Inc -> [Streams -> Nat]],
           \/ UNCHANGED <<starter, reader>>
           \/ \E i \in Inc, t \in Phases :
                  /\ starter[i] # "none" \/ reader[i] # "none"
                  /\ \/ starter' = [starter EXCEPT ![i] = t] /\ reader' = reader
                     \/ reader' = [reader EXCEPT ![i] = t] /\ starter' = starter
    PROVE  IInv'
<1>1. aliasOf' \in Seq(Alias) /\ Len(aliasOf') <= MaxInvites /\ Good(step.room, aliasOf')
  BY DEF IInv
<1>2. /\ starter' \in [Inc -> Phases] /\ reader' \in [Inc -> Phases]
      /\ \A j \in Inc : (starter'[j] # "none" \/ reader'[j] # "none")
                        => j \in 1 .. Len(aliasOf')
  BY DEF IInv
<1>. QED  BY <1>1, <1>2, RoomStep

LEMMA SayKeeps ==
    ASSUME ~ SharedIds, IInv, NEW i \in Inc, NEW s \in Streams, Say(i, s)
    PROVE  IInv'
<1>1. i \in 1 .. Len(aliasOf) /\ aliasOf[i] \in Alias
  BY InvitedOnes DEF Say
<1>. DEFINE id == <<i, s>>
            w  == Word(i, s)
<1>2. Id(i, s) = id /\ id \in Ids /\ id[1] = i /\ id[2] = s
  BY DEF Id, Ids
<1>3. w \in Words /\ w.by = i
  BY DEF Word, Words, IInv
<1>4. Changed(Fragment(room, aliasOf[i], id, Kind(s), w))
  BY <1>2 DEF Say
<1>. HIDE DEF id, w
<1>5. Good(Fragment(room, aliasOf[i], id, Kind(s), w).room, aliasOf)
  <2>1. Good(Fragment(room, aliasOf[id[1]], id, Kind(id[2]), w).room, aliasOf)
    BY <1>1, <1>2, <1>3, FragmentGood DEF IInv
  <2>. QED  BY <1>2, <2>1
<1>6. said' \in [Inc -> [Streams -> Nat]]
  BY DEF Say, IInv
<1>7. aliasOf' = aliasOf /\ UNCHANGED <<starter, reader>>
  BY DEF Say, session
<1>. QED  BY <1>4, <1>5, <1>6, <1>7, RoomAndGoroutines

LEMMA FinishKeeps ==
    ASSUME ~ SharedIds, IInv, NEW i \in Inc, NEW s \in Streams, Finish(i, s)
    PROVE  IInv'
<1>1. i \in 1 .. Len(aliasOf) /\ aliasOf[i] \in Alias
  BY InvitedOnes DEF Finish
<1>. DEFINE id == <<i, s>>
<1>2. Id(i, s) = id /\ id \in Ids /\ id[1] = i /\ id[2] = s
  BY DEF Id, Ids
<1>3. Changed(Flush(room, aliasOf[i], id, Kind(s)))
  BY <1>2 DEF Finish
<1>. HIDE DEF id
<1>4. Good(Flush(room, aliasOf[i], id, Kind(s)).room, aliasOf)
  <2>1. Good(Flush(room, aliasOf[id[1]], id, Kind(id[2])).room, aliasOf)
    BY <1>1, <1>2, FlushGood DEF IInv
  <2>. QED  BY <1>2, <2>1
<1>5. /\ said' \in [Inc -> [Streams -> Nat]]
      /\ aliasOf' = aliasOf /\ UNCHANGED <<starter, reader>>
  BY DEF Finish, session, IInv
<1>. QED  BY <1>3, <1>4, <1>5, RoomAndGoroutines

LEMMA NextKeeps ==
    ASSUME ~ SharedIds, IInv, [Next]_vars
    PROVE  IInv'
<1>1. ASSUME NEW a \in Alias, Invite(a) PROVE IInv'
  BY <1>1, InviteKeeps
<1>2. ASSUME NEW a \in Alias, RemoveParticipant(a) PROVE IInv'
  <2>1. /\ said' \in [Inc -> [Streams -> Nat]]
        /\ aliasOf' = aliasOf /\ UNCHANGED <<starter, reader>>
    BY <1>2 DEF RemoveParticipant, speech, IInv
  <2>2. CASE Changed(Gone(room, a))
    BY <2>1, <2>2, GoneGood, RoomAndGoroutines DEF IInv
  <2>3. CASE Quiet
    BY <2>1, <2>3 DEF Quiet, IInv
  <2>. QED  BY <1>2, <2>2, <2>3 DEF RemoveParticipant
<1>3. ASSUME NEW i \in Inc, StartFail(i) PROVE IInv'
  <2>1. reader' = [reader EXCEPT ![i] = reader[i]] /\ reader[i] \in Phases
    BY <1>3 DEF StartFail, IInv
  <2>. QED  BY <1>3, <2>1, QuietStep DEF StartFail, StarterGo, speech, Phases
<1>4. ASSUME NEW i \in Inc, StartCrashed(i) PROVE IInv'
  <2>1. aliasOf[i] \in Alias
    BY <1>4, InvitedOnes DEF StartCrashed, StarterGo
  <2>2. Good(Gone(room, aliasOf[i]).room, aliasOf)
    BY <2>1, GoneGood DEF IInv
  <2>3. /\ Changed(Gone(room, aliasOf[i])) /\ aliasOf' = aliasOf
        /\ said' \in [Inc -> [Streams -> Nat]]
        /\ starter[i] # "none" /\ starter' = [starter EXCEPT ![i] = "crashed"]
        /\ reader' = reader /\ "crashed" \in Phases
    BY <1>4 DEF StartCrashed, StarterGo, speech, IInv, Phases
  <2>. QED  BY <2>2, <2>3, RoomAndGoroutines
<1>5. ASSUME NEW i \in Inc, StartReady(i) PROVE IInv'
  BY <1>5, QuietStep DEF StartReady, StarterGo, ReaderGo, speech, Phases
<1>6. ASSUME NEW i \in Inc, StartAnnounce(i) PROVE IInv'
  <2>1. aliasOf[i] \in Alias
    BY <1>6, InvitedOnes DEF StartAnnounce, StarterGo
  <2>2. Good(Started(room, aliasOf[i]).room, aliasOf)
    BY <2>1, StartedGood DEF IInv
  <2>3. /\ Changed(Started(room, aliasOf[i])) /\ aliasOf' = aliasOf
        /\ said' \in [Inc -> [Streams -> Nat]]
        /\ starter[i] # "none" /\ starter' = [starter EXCEPT ![i] = "done"]
        /\ reader' = reader /\ "done" \in Phases
    BY <1>6 DEF StartAnnounce, StarterGo, speech, IInv, Phases
  <2>. QED  BY <2>2, <2>3, RoomAndGoroutines
<1>7. ASSUME NEW i \in Inc, ReadError(i) PROVE IInv'
  <2>1. aliasOf[i] \in Alias
    BY <1>7, InvitedOnes DEF ReadError, ReaderGo
  <2>2. Good(Gone(room, aliasOf[i]).room, aliasOf)
    BY <2>1, GoneGood DEF IInv
  <2>3. /\ Changed(Gone(room, aliasOf[i])) /\ aliasOf' = aliasOf
        /\ said' \in [Inc -> [Streams -> Nat]]
        /\ reader[i] # "none" /\ reader' = [reader EXCEPT ![i] = "ended"]
        /\ starter' = starter /\ "ended" \in Phases
    BY <1>7 DEF ReadError, ReaderGo, speech, IInv, Phases
  <2>. QED  BY <2>2, <2>3, RoomAndGoroutines
<1>8. CASE Appended
  <2>1. Good(AppendRecord(room, Notice("appended")).room, aliasOf)
    BY AppendGood, SystemRecords DEF IInv
  <2>. QED  BY <1>8, <2>1, RoomAndGoroutines DEF Appended, session, speech, IInv
<1>9. CASE ShowNotice
  BY <1>9 DEF ShowNotice, session, speech, IInv
<1>10. CASE UNCHANGED vars
  BY <1>10 DEF vars, session, speech, IInv
<1>. QED  BY <1>1, <1>2, <1>3, <1>4, <1>5, <1>6, <1>7, <1>8, <1>9, <1>10,
             SayKeeps, FinishKeeps DEF Next

LEMMA Inductive == ASSUME ~ SharedIds PROVE Spec => []IInv
<1>1. IInv /\ [Next]_vars => IInv'
  BY NextKeeps
<1>. QED  BY InitHolds, <1>1, PTL DEF Spec

(***************************************************************************)
(* What the front end makes of a delta                                     *)
(***************************************************************************)

\* The screen shows the records q, in their order, among notices.
Follows(v, q) ==
    /\ v.records \in Seq(Records) /\ v.history.records = v.records
    /\ v.indices \in [1 .. Len(q) -> 1 .. Len(v.records)]
    /\ \A i, j \in 1 .. Len(q) : i < j => v.indices[i] < v.indices[j]
    /\ \A i \in 1 .. Len(q) : v.records[v.indices[i]] = q[i]

\* p is q after a change of the records D: all that changed, and a new last
\* one, is among them.
Grown(q, p, D) ==
    /\ Len(p) \in {Len(q), Len(q) + 1}
    /\ D \subseteq 1 .. Len(p)
    /\ \A k \in (1 .. Len(p)) \ D : k <= Len(q) /\ p[k] = q[k]

LEMMA PlacesAre ==
    ASSUME NEW v, NEW q \in Seq(Records), NEW p \in Seq(Records), NEW D,
           Follows(v, q), Grown(q, p, D)
    PROVE  Places(v, Restrict(p, D)) =
               [i \in 1 .. Len(p) |-> IF i <= Len(q) THEN v.indices[i] ELSE Len(v.records) + 1]
<1>. DEFINE L == Len(q)
            m == Len(v.records)
            ind == v.indices
            fresh == D \ (1 .. L)
            Rank(i) == Cardinality({j \in fresh : j <= i})
<1>1. L \in Nat /\ m \in Nat /\ Len(p) \in Nat /\ DOMAIN ind = 1 .. L
  BY DEF Follows
<1>2. DOMAIN Restrict(p, D) = D
  BY DEF Restrict
<1>3. Places(v, Restrict(p, D)) =
          [i \in (1 .. L) \cup fresh |-> IF i \in 1 .. L THEN ind[i] ELSE m + Rank(i)]
  BY <1>1, <1>2 DEF Places
<1>4. fresh = (L + 1) .. Len(p)
  <2>1. \A k : k \in fresh <=> k \in 1 .. Len(p) /\ ~ (k <= L)
    <3>1. D \subseteq 1 .. Len(p) /\ \A k \in 1 .. Len(p) : k \notin D => k <= L
      BY DEF Grown
    <3>2. \A k \in 1 .. Len(p) : k \in 1 .. L <=> k <= L
      BY <1>1
    <3>. HIDE DEF L
    <3>. QED  BY <3>1, <3>2
  <2>2. \A k : k \in (L + 1) .. Len(p) <=> k \in 1 .. Len(p) /\ ~ (k <= L)
    BY <1>1
  <2>. HIDE DEF fresh
  <2>. QED  BY <2>1, <2>2
<1>5. (1 .. L) \cup fresh = 1 .. Len(p)
  BY <1>1, <1>4 DEF Grown
<1>6. ASSUME NEW i \in 1 .. Len(p), ~ (i <= L)
      PROVE  Rank(i) = 1
  <2>1. {j \in fresh : j <= i} = {i}
    BY <1>1, <1>4, <1>6 DEF Grown
  <2>. QED  BY <2>1, FS_Singleton
<1>. HIDE DEF fresh, Rank
<1>7. \A i \in 1 .. Len(p) : i \in 1 .. L <=> i <= L
  BY <1>1
<1>. QED  BY <1>3, <1>5, <1>6, <1>7

\* The front end's model has what a delta says of the room besides its records.
Adopts(w, delta) ==
    /\ DOMAIN w = {"records", "indices", "version", "open", "departed", "history"}
    /\ w.version = delta.version /\ w.departed = delta.departed
    /\ w.open = [id \in DOMAIN delta.open |-> [delta.open[id] EXCEPT !.at = w.indices[@]]]
    /\ w.history.departed = delta.departed
    /\ w.history.streaming = [id \in DOMAIN w.open |-> w.open[id].at]

LEMMA DeltaApplied ==
    ASSUME NEW v, NEW q \in Seq(Records), NEW p \in Seq(Records), NEW D,
           Follows(v, q), Grown(q, p, D),
           NEW delta, delta.updates = Restrict(p, D), ~ (delta.version <= v.version)
    PROVE  /\ Follows(ApplyTranscript(v, delta), p)
           /\ Len(ApplyTranscript(v, delta).records) = Len(v.records) + Len(p) - Len(q)
           /\ Adopts(ApplyTranscript(v, delta), delta)
<1>. DEFINE w      == ApplyTranscript(v, delta)
            U      == Restrict(p, D)
            L      == Len(q)
            m      == Len(v.records)
            places == Places(v, U)
            at     == {places[i] : i \in D}
            moved  == [k \in at |-> U[CHOOSE i \in D : places[i] = k]]
            open   == [id \in DOMAIN delta.open |->
                            [delta.open[id] EXCEPT !.at = places[@]]]
            len    == m + Len(p) - L
<1>1. /\ L \in Nat /\ m \in Nat /\ Len(p) \in Nat /\ len \in Nat
      /\ Len(p) = L \/ Len(p) = L + 1
      /\ v.records \in Seq(Records) /\ v.history.records = v.records
      /\ DOMAIN v.records = 1 .. m
  BY DEF Follows, Grown
<1>0. \A i \in 1 .. L : v.indices[i] \in 1 .. m
  BY DEF Follows
<1>2. /\ DOMAIN places = 1 .. Len(p)
      /\ \A i \in 1 .. Len(p) :
            places[i] = IF i <= L THEN v.indices[i] ELSE m + 1
  BY PlacesAre
<1>. HIDE DEF places
<1>3. ASSUME NEW i \in 1 .. Len(p) PROVE places[i] \in 1 .. len
  <2>1. CASE i <= L
    <3>1. places[i] \in 1 .. m
      BY <1>0, <1>1, <1>2, <2>1
    <3>. HIDE DEF L, m
    <3>. QED  BY <1>1, <3>1
  <2>2. CASE ~ (i <= L)
    <3>1. places[i] = m + 1 /\ Len(p) = L + 1
      BY <1>1, <1>2, <2>2
    <3>. QED  BY <1>1, <3>1
  <2>. QED  BY <2>1, <2>2
<1>4. ASSUME NEW i \in 1 .. Len(p), NEW j \in 1 .. Len(p), i < j
      PROVE  places[i] < places[j]
  <2>1. i <= L
    BY <1>1, <1>4
  <2>2. CASE j <= L
    BY <1>1, <1>2, <1>4, <2>1, <2>2 DEF Follows
  <2>3. CASE ~ (j <= L)
    <3>1. v.indices[i] \in 1 .. m
      BY <1>0, <1>1, <2>1
    <3>. QED  BY <1>1, <1>2, <2>1, <2>3, <3>1
  <2>. QED  BY <2>2, <2>3
<1>5. \A i, j \in 1 .. Len(p) : places[i] = places[j] => i = j
  <2>1. SUFFICES ASSUME NEW i \in 1 .. Len(p), NEW j \in 1 .. Len(p), i # j
                 PROVE  places[i] # places[j]
    OBVIOUS
  <2>2. i < j \/ j < i
    BY <1>1, <2>1
  <2>3. places[i] \in Nat /\ places[j] \in Nat
    BY <1>1, <1>3
  <2>. QED  BY <1>4, <2>2, <2>3
<1>6. D \subseteq 1 .. Len(p)
  BY DEF Grown
<1>7. ASSUME NEW i \in D PROVE places[i] \in at /\ moved[places[i]] = p[i]
  <2>1. (CHOOSE j \in D : places[j] = places[i]) = i
    BY <1>5, <1>6
  <2>. QED  BY <2>1 DEF Restrict
<1>8. at \subseteq 1 .. len /\ DOMAIN moved = at
  BY <1>3, <1>6
<1>9. len # m => len \in at
  <2>1. SUFFICES ASSUME len # m PROVE len \in at
    OBVIOUS
  <2>2. Len(p) = L + 1 /\ len = m + 1
    <3>1. L \in Nat /\ m \in Nat /\ (Len(p) = L \/ Len(p) = L + 1)
      BY <1>1
    <3>. HIDE DEF L, m, at, places
    <3>. QED  BY <2>1, <3>1
  <2>3. Len(p) \in D
    BY <1>1, <2>2 DEF Grown
  <2>4. places[Len(p)] = len
    BY <1>1, <1>2, <2>2
  <2>. QED  BY <2>3, <2>4
<1>10. Max(at \cup {m}) = len
  <2>1. at \cup {m} \subseteq Nat /\ len \in at \cup {m} /\ \A y \in at \cup {m} : len >= y
    <3>. HIDE DEF at, len, m
    <3>1. m <= len /\ m \in Nat /\ len \in Nat
      BY <1>1 DEF len
    <3>. QED  BY <1>8, <1>9, <3>1
  <2>. HIDE DEF at, len
  <2>. QED  BY <2>1, MaxIs
<1>. DEFINE recs == [k \in 1 .. len |-> IF k \in at THEN moved[k] ELSE v.records[k]]
<1>11. /\ DOMAIN w = {"records", "indices", "version", "open", "departed", "history"}
       /\ w.records = recs /\ w.indices = places /\ w.version = delta.version
       /\ w.open = open /\ w.departed = delta.departed
       /\ w.history = ApplyRoomDelta(v.history, moved, open, delta.departed)
  <2>1. DOMAIN delta.updates = D
    BY DEF Restrict
  <2>2. w = [records  |-> [k \in 1 .. Max(at \cup {m}) |->
                                IF k \in at THEN moved[k] ELSE v.records[k]],
             indices  |-> places,
             version  |-> delta.version,
             open     |-> open,
             departed |-> delta.departed,
             history  |-> ApplyRoomDelta(v.history, moved, open, delta.departed)]
    BY <2>1 DEF ApplyTranscript, places
  <2>. HIDE DEF w, at, moved, open, len
  <2>. QED  BY <1>10, <2>2
<1>12. recs \in Seq(Records) /\ Len(recs) = len
  <2>1. ASSUME NEW k \in 1 .. len PROVE recs[k] \in Records
    <3>1. CASE k \in at
      <4>1. PICK i \in D : k = places[i]
        BY <3>1
      <4>2. p[i] \in Records
        BY <1>6
      <4>3. moved[k] = p[i]
        <5>. HIDE DEF moved, at
        <5>. QED  BY <1>7, <4>1
      <4>. QED  BY <3>1, <4>2, <4>3
    <3>2. CASE k \notin at
      <4>1. k \in 1 .. m
        BY <1>1, <1>9, <3>2
      <4>. QED  BY <1>1, <3>2, <4>1
    <3>. QED  BY <3>1, <3>2
  <2>2. recs \in [1 .. len -> Records]
    <3>. HIDE DEF at, moved, len
    <3>. QED  BY <2>1
  <2>. HIDE DEF recs, len
  <2>. QED  BY <1>1, <2>2
<1>13. /\ w.history.records = recs /\ w.history.departed = delta.departed
       /\ w.history.streaming = [id \in DOMAIN open |-> open[id].at]
  <2>1. /\ w.history.departed = delta.departed
        /\ w.history.streaming = [id \in DOMAIN open |-> open[id].at]
        /\ w.history.records =
              [i \in 1 .. Max(at \cup {m}) |->
                  IF i \in at THEN moved[i]
                  ELSE IF i \in 1 .. m THEN v.records[i] ELSE SystemRecord]
    <3>. HIDE DEF w, at, open, moved
    <3>. QED  BY <1>1, <1>8, <1>11 DEF ApplyRoomDelta
  <2>2. \A k \in 1 .. len : k \notin at => k \in 1 .. m
    BY <1>1, <1>9
  <2>. HIDE DEF w, at, moved, open, len
  <2>. QED  BY <1>10, <2>1, <2>2
<1>14. ASSUME NEW i \in 1 .. Len(p) PROVE recs[places[i]] = p[i]
  <2>1. CASE i \in D
    BY <1>3, <1>7, <2>1
  <2>2. CASE i \notin D
    <3>1. i <= L /\ p[i] = q[i]
      BY <2>2 DEF Grown
    <3>2. places[i] \notin at
      BY <1>5, <1>6, <2>2
    <3>3. places[i] = v.indices[i] /\ v.records[v.indices[i]] = q[i]
      BY <1>1, <1>2, <3>1 DEF Follows
    <3>. QED  BY <1>3, <3>1, <3>2, <3>3
  <2>. QED  BY <2>1, <2>2
<1>15. Follows(w, p)
  <2>. HIDE DEF w, recs, len
  <2>1. w.records \in Seq(Records) /\ w.history.records = w.records /\ Len(w.records) = len
    BY <1>11, <1>12, <1>13
  <2>2. w.indices \in [1 .. Len(p) -> 1 .. len]
    <3>1. places = [i \in 1 .. Len(p) |-> places[i]]
      BY PlacesAre DEF places
    <3>. QED  BY <1>3, <1>11, <3>1
  <2>. QED  BY <1>4, <1>11, <1>14, <2>1, <2>2 DEF Follows
<1>. QED
  <2>. HIDE DEF w, recs, len
  <2>1. Len(w.records) = len
    BY <1>11, <1>12
  <2>2. w.open = [id \in DOMAIN delta.open |->
                            [delta.open[id] EXCEPT !.at = w.indices[@]]]
    BY <1>11
  <2>3. Adopts(w, delta)
    <3>1. DOMAIN w = {"records", "indices", "version", "open", "departed", "history"}
      BY <1>11
    <3>2. w.version = delta.version /\ w.departed = delta.departed /\ w.open = open
      BY <1>11
    <3>3. w.history.departed = delta.departed
      BY <1>13
    <3>4. w.history.streaming = [id \in DOMAIN w.open |-> w.open[id].at]
      <4>. HIDE DEF open
      <4>. QED  BY <1>13, <3>2
    <3>. HIDE DEF open
    <3>. QED  BY <2>2, <3>1, <3>2, <3>3, <3>4 DEF Adopts
  <2>. QED  BY <1>15, <2>1, <2>3 DEF w, len

(***************************************************************************)
(* What the room reports of a step                                         *)
(***************************************************************************)

\* The shape of a room, whatever the names of its streams.
Formed(r) ==
    /\ DOMAIN r = Fields
    /\ r.records \in Seq(Records)
    /\ r.streaming \in [DOMAIN r.streaming -> [alias : Alias, at : 1 .. Len(r.records)]]

\* A step says of every record it changed that it is dirty.
Reports(r, step) ==
    /\ Formed(step.room) /\ step.room.version = r.version
    /\ Grown(r.records, step.room.records, step.dirty)

LEMMA AppendReports ==
    ASSUME NEW r, Formed(r), NEW record \in Records
    PROVE  Reports(r, AppendRecord(r, record))
<1>. DEFINE q    == r.records
            step == AppendRecord(r, record)
            s    == step.room
<1>1. /\ DOMAIN s = Fields /\ s.records = Append(q, record)
      /\ s.streaming = r.streaming /\ s.version = r.version
      /\ step.dirty = {Len(q) + 1}
  BY DEF AppendRecord, Step, Formed, Fields
<1>2. q \in Seq(Records) /\ Len(q) \in Nat
  BY DEF Formed
<1>. HIDE DEF s, step
<1>3. /\ s.records \in Seq(Records) /\ Len(s.records) = Len(q) + 1
      /\ \A k \in 1 .. Len(q) : s.records[k] = q[k]
  BY <1>1, <1>2, AppendFacts
<1>4. Formed(s)
  <2>1. \A id \in DOMAIN r.streaming : r.streaming[id] \in [alias : Alias, at : 1 .. Len(s.records)]
    BY <1>2, <1>3 DEF Formed
  <2>2. r.streaming = [id \in DOMAIN r.streaming |-> r.streaming[id]]
    BY DEF Formed
  <2>. QED  BY <1>1, <1>3, <2>1, <2>2 DEF Formed
<1>5. Grown(q, s.records, step.dirty)
  BY <1>1, <1>2, <1>3 DEF Grown
<1>. QED
  <2>1. Reports(r, step)
    BY <1>1, <1>4, <1>5 DEF Reports, s
  <2>. QED  BY <2>1 DEF step

LEMMA RefreshReports ==
    ASSUME NEW r, Formed(r), NEW a
    PROVE  /\ Reports(r, RefreshLatestHandoffSource(r, a))
           /\ Len(RefreshLatestHandoffSource(r, a).room.records) = Len(r.records)
<1>. DEFINE q      == r.records
            step   == RefreshLatestHandoffSource(r, a)
            s      == step.room
            D      == step.dirty
            next   == LatestHandoffSource(r, a)
            unmark == {i \in DOMAIN q : i = r.latest[a] /\ q[i].marked /\ i # next}
            mark   == {i \in DOMAIN q : i = next /\ ~ q[i].marked}
            m(i)   == (q[i].marked \/ i \in mark) /\ i \notin unmark
            new(i) == [q[i] EXCEPT !.marked = m(i)]
<1>1. /\ q \in Seq(Records) /\ Len(q) \in Nat /\ DOMAIN q = 1 .. Len(q)
      /\ DOMAIN r = Fields
  BY DEF Formed
<1>2. /\ s = [r EXCEPT !.latest[a] = next, !.records = [i \in DOMAIN q |-> new(i)]]
      /\ D = unmark \cup mark
  BY DEF RefreshLatestHandoffSource, Remark, Step
<1>3. D \subseteq 1 .. Len(q) /\ \A i \in (1 .. Len(q)) \ D : m(i) = q[i].marked
  <2>1. \A i \in 1 .. Len(q) : q[i].marked \in BOOLEAN
    <3>1. \A i \in 1 .. Len(q) : q[i] \in Records
      BY <1>1
    <3>. HIDE DEF q
    <3>. QED  BY <3>1 DEF Records
  <2>. QED  BY <1>1, <1>2, <2>1
<1>4. ASSUME NEW i \in 1 .. Len(q)
      PROVE  /\ new(i) \in Records
             /\ i \notin D => new(i) = q[i]
  <2>1. q[i] \in Records /\ m(i) \in BOOLEAN
    BY <1>1
  <2>2. i \notin D => m(i) = q[i].marked
    BY <1>3
  <2>. HIDE DEF m, q, D
  <2>3. new(i) \in Records
    BY <2>1 DEF Records
  <2>4. ASSUME i \notin D PROVE new(i) = q[i]
    BY <2>1, <2>2, <2>4 DEF Records
  <2>. QED  BY <2>3, <2>4
<1>5. /\ DOMAIN s = Fields /\ s.records = [i \in 1 .. Len(q) |-> new(i)]
      /\ s.streaming = r.streaming /\ s.version = r.version
  <2>. HIDE DEF s, new, next
  <2>. QED  BY <1>1, <1>2 DEF Fields
<1>. HIDE DEF s, D, new
<1>6. s.records \in Seq(Records) /\ Len(s.records) = Len(q)
  BY <1>1, <1>4, <1>5
<1>7. Formed(s)
  BY <1>5, <1>6 DEF Formed
<1>8. Grown(q, s.records, D)
  BY <1>3, <1>4, <1>5, <1>6 DEF Grown
<1>. QED  BY <1>5, <1>6, <1>7, <1>8 DEF Reports, s, D

LEMMA AnnouncedReports ==
    ASSUME NEW r, r.records \in Seq(Records), NEW step, Reports(r, step),
           Len(step.room.records) = Len(r.records)
    PROVE  Reports(r, Announced(step))
<1>. DEFINE second == AppendRecord(step.room, SystemRecord)
            q == r.records
            p == step.room.records
            t == second.room.records
<1>1. Reports(step.room, second)
  BY AppendReports, SystemRecords DEF Reports
<1>2. Announced(step).room = second.room /\ Announced(step).dirty = step.dirty \cup second.dirty
  BY DEF Announced, Then, Step
<1>3. Grown(q, p, step.dirty) /\ Grown(p, t, second.dirty) /\ Len(p) = Len(q)
  BY <1>1 DEF Reports
<1>4. Len(q) \in Nat /\ Len(t) \in Nat
  BY <1>1 DEF Reports, Formed
<1>5. Grown(q, t, step.dirty \cup second.dirty)
  <2>. HIDE DEF q, p, t, second
  <2>1. 1 .. Len(q) \subseteq 1 .. Len(t)
    BY <1>3, <1>4 DEF Grown
  <2>. QED  BY <1>3, <1>4, <2>1 DEF Grown
<1>. QED  BY <1>1, <1>2, <1>5 DEF Reports

LEMMA SubStreams ==
    ASSUME NEW r, Formed(r), NEW s, DOMAIN s = Fields, s.records = r.records,
           DOMAIN s.streaming \subseteq DOMAIN r.streaming,
           s.streaming = [id \in DOMAIN s.streaming |-> r.streaming[id]]
    PROVE  Formed(s)
<1>1. \A id \in DOMAIN s.streaming : r.streaming[id] \in [alias : Alias, at : 1 .. Len(s.records)]
  BY DEF Formed
<1>. HIDE DEF Fields
<1>. QED  BY <1>1 DEF Formed

\* What counts of the room before a step.
LEMMA ReportsFor ==
    ASSUME NEW r, NEW s, NEW step, Reports(s, step), s.records = r.records, s.version = r.version
    PROVE  Reports(r, step)
BY DEF Reports

LEMMA GoneReports ==
    ASSUME NEW r, Formed(r), NEW a
    PROVE  Reports(r, Gone(r, a))
<1>. DEFINE D == {id \in DOMAIN r.streaming : r.streaming[id].alias # a}
            c == ClearStreams(r, a)
            s == [c EXCEPT !.members = @ \ {a}, !.departed = @ \cup {a}]
<1>1. DOMAIN r = Fields
  BY DEF Formed
<1>2. /\ DOMAIN c = Fields /\ c.records = r.records /\ c.version = r.version
      /\ c.streaming = [x \in D |-> r.streaming[x]]
  BY <1>1 DEF ClearStreams, Restrict, Fields
<1>. HIDE DEF c
<1>3. /\ DOMAIN s = Fields /\ s.records = r.records /\ s.version = r.version
      /\ s.streaming = [x \in D |-> r.streaming[x]]
  BY <1>2 DEF Fields
<1>4. Departure(r, a) = RefreshLatestHandoffSource(s, a)
  BY DEF Departure, c
<1>. HIDE DEF s
<1>5. Formed(s)
  BY <1>3, SubStreams
<1>6. Reports(r, Departure(r, a)) /\ Len(Departure(r, a).room.records) = Len(r.records)
  BY <1>3, <1>4, <1>5, RefreshReports, ReportsFor
<1>. QED  BY <1>6, AnnouncedReports DEF Gone, Formed

LEMMA StartedReports ==
    ASSUME NEW r, Formed(r), NEW a
    PROVE  Reports(r, Started(r, a))
<1>. DEFINE s == [r EXCEPT !.members = @ \cup {a}, !.departed = @ \ {a}]
<1>1. /\ DOMAIN s = Fields /\ s.records = r.records /\ s.version = r.version
      /\ s.streaming = r.streaming
  BY DEF Formed, Fields
<1>2. Started(r, a) = Announced(RefreshLatestHandoffSource(s, a))
  BY DEF Started
<1>. HIDE DEF s
<1>3. Formed(s)
  BY <1>1 DEF Formed
<1>. DEFINE step == RefreshLatestHandoffSource(s, a)
<1>4. Reports(r, step) /\ Len(step.room.records) = Len(r.records)
  BY <1>1, <1>3, RefreshReports, ReportsFor
<1>. QED  BY <1>2, <1>4, AnnouncedReports DEF Formed

LEMMA FlushReports ==
    ASSUME NEW r, Formed(r), NEW a, NEW id, NEW kind
    PROVE  Reports(r, Flush(r, a, id, kind))
<1>. DEFINE sealed == SealStream(r, id)
            s == sealed.room
<1>1. /\ DOMAIN s = Fields /\ s.records = r.records /\ s.version = r.version
      /\ s.streaming = [x \in DOMAIN r.streaming \ {id} |-> r.streaming[x]]
      /\ sealed.dirty = {}
  BY DEF SealStream, Step, Restrict, Formed, Fields
<1>. HIDE DEF sealed, s
<1>2. Formed(s)
  BY <1>1, SubStreams
<1>3. Reports(r, sealed)
  BY <1>1, <1>2 DEF Reports, Grown, s
<1>4. CASE kind = "output"
  <2>. DEFINE again == RefreshLatestHandoffSource(s, a)
  <2>1. Reports(r, again)
    BY <1>1, <1>2, RefreshReports, ReportsFor
  <2>2. Flush(r, a, id, kind) = Then(sealed, again)
    BY <1>4 DEF Flush, sealed, s
  <2>3. Then(sealed, again).room = again.room /\ Then(sealed, again).dirty = again.dirty
    BY <1>1 DEF Then, Step
  <2>. HIDE DEF again
  <2>. QED  BY <2>1, <2>2, <2>3 DEF Reports
<1>5. CASE kind # "output"
  BY <1>3, <1>5 DEF Flush, sealed
<1>. QED  BY <1>4, <1>5

LEMMA AccumulateReports ==
    ASSUME NEW r, Formed(r), NEW id \in DOMAIN r.streaming, NEW word \in Words
    PROVE  Reports(r, Accumulate(r, id, word))
<1>. DEFINE q    == r.records
            step == Accumulate(r, id, word)
            s    == step.room
            at   == r.streaming[id].at
            old  == q[at]
            new  == [old EXCEPT !.text = Append(@, word)]
<1>1. q \in Seq(Records) /\ Len(q) \in Nat /\ at \in 1 .. Len(q) /\ old \in Records
  BY DEF Formed
<1>2. /\ DOMAIN s = Fields /\ s.records = [q EXCEPT ![at] = new]
      /\ s.streaming = r.streaming /\ s.version = r.version /\ step.dirty = {at}
  BY <1>1 DEF Accumulate, Step, Formed, Fields
<1>3. new \in Records
  <2>. HIDE DEF q, at, old
  <2>1. old.text \in Seq(Words)
    BY <1>1 DEF Records
  <2>2. Append(old.text, word) \in Seq(Words)
    BY <2>1
  <2>. QED  BY <1>1, <2>2 DEF Records
<1>. HIDE DEF step, s, new, q, at
<1>4. /\ s.records \in Seq(Records) /\ Len(s.records) = Len(q)
      /\ \A k \in 1 .. Len(q) : k # at => s.records[k] = q[k]
  BY <1>1, <1>2, <1>3, ReplaceFacts
<1>5. Formed(s)
  BY <1>2, <1>4 DEF Formed, q
<1>6. Grown(q, s.records, step.dirty)
  BY <1>1, <1>2, <1>4 DEF Grown
<1>. QED
  <2>1. Reports(r, step)
    BY <1>2, <1>5, <1>6 DEF Reports, s, q
  <2>. QED  BY <2>1 DEF step

LEMMA OpenReports ==
    ASSUME NEW r, Formed(r), NEW a \in Alias,
           NEW id \in (0 .. MaxInvites) \X Streams, NEW kind \in Authored, NEW word \in Words
    PROVE  Reports(r, OpenStream(r, a, id, kind, word))
<1>. DEFINE q    == r.records
            step == OpenStream(r, a, id, kind, word)
            s    == step.room
            at   == Len(q) + 1
            new  == Record(kind, a, id, <<word>>)
<1>1. q \in Seq(Records) /\ Len(q) \in Nat
  BY DEF Formed
<1>2. /\ DOMAIN s = Fields /\ s.records = Append(q, new) /\ s.version = r.version
      /\ s.streaming = [x \in DOMAIN r.streaming \cup {id} |->
                            IF x = id THEN [alias |-> a, at |-> at] ELSE r.streaming[x]]
      /\ step.dirty = {at}
  BY DEF OpenStream, Step, Formed, Fields
<1>3. new \in Records
  BY DEF Record, Records, Authored
<1>. HIDE DEF step, s, new
<1>4. /\ s.records \in Seq(Records) /\ Len(s.records) = at
      /\ \A k \in 1 .. Len(q) : s.records[k] = q[k]
  BY <1>1, <1>2, <1>3, AppendFacts
<1>5. Formed(s)
  <2>1. ASSUME NEW x \in DOMAIN s.streaming
        PROVE  s.streaming[x] \in [alias : Alias, at : 1 .. Len(s.records)]
    <3>1. CASE x = id
      BY <1>1, <1>2, <1>4, <3>1
    <3>2. CASE x # id
      <4>1. /\ s.streaming[x] = r.streaming[x]
            /\ r.streaming[x] \in [alias : Alias, at : 1 .. Len(q)]
        BY <1>2, <3>2 DEF Formed
      <4>. QED  BY <1>1, <1>4, <4>1
    <3>. QED  BY <3>1, <3>2
  <2>2. s.streaming = [x \in DOMAIN s.streaming |-> s.streaming[x]]
    BY <1>2
  <2>. QED  BY <1>2, <1>4, <2>1, <2>2 DEF Formed
<1>6. Grown(q, s.records, step.dirty)
  BY <1>1, <1>2, <1>4 DEF Grown
<1>. QED
  <2>1. Reports(r, step)
    BY <1>2, <1>5, <1>6 DEF Reports, s
  <2>. QED  BY <2>1 DEF step

LEMMA FragmentReports ==
    ASSUME NEW r, Formed(r), NEW a \in Alias,
           NEW id \in (0 .. MaxInvites) \X Streams, NEW kind \in Authored, NEW word \in Words
    PROVE  Reports(r, Fragment(r, a, id, kind, word))
BY AccumulateReports, OpenReports DEF Fragment, Accumulates

(***************************************************************************)
(* The screen follows the room                                             *)
(***************************************************************************)

\* Whose goroutines there are, and what was said.
Crew ==
    /\ aliasOf \in Seq(Alias) /\ Len(aliasOf) <= MaxInvites
    /\ starter \in [Inc -> Phases] /\ reader \in [Inc -> Phases]
    /\ said \in [Inc -> [Streams -> Nat]]
    /\ \A i \in Inc : (starter[i] # "none" \/ reader[i] # "none") => i \in 1 .. Len(aliasOf)

\* The screen, the front end's model of it and the room agree.
Screen ==
    /\ Formed(room)
    /\ room.version \in Nat /\ told = room.version /\ view.version = told
    /\ extra \in [records : Nat, notices : Nat]
    /\ DOMAIN view = {"records", "indices", "version", "open", "departed", "history"}
    /\ Follows(view, room.records)
    /\ Len(view.records) = Len(room.records) + extra.notices
    /\ view.departed = room.departed /\ view.history.departed = room.departed
    /\ view.open = [id \in DOMAIN room.streaming |->
                        [room.streaming[id] EXCEPT !.at = view.indices[@]]]
    /\ view.history.streaming = [id \in DOMAIN view.open |-> view.open[id].at]

LEMMA CrewStarts == Init => Crew
<1>. SUFFICES ASSUME Init PROVE Crew
  OBVIOUS
<1>1. aliasOf \in Seq(Alias) /\ Len(aliasOf) <= MaxInvites
  BY TranscriptAssumption DEF Init
<1>2. /\ starter \in [Inc -> Phases] /\ reader \in [Inc -> Phases]
      /\ \A i \in Inc : starter[i] = "none" /\ reader[i] = "none"
  BY DEF Init, Phases
<1>3. said \in [Inc -> [Streams -> Nat]]
  BY DEF Init
<1>. QED  BY <1>1, <1>2, <1>3 DEF Crew

LEMMA CrewKeeps == ASSUME Crew, [Next]_vars PROVE Crew'
<1>0. ASSUME NEW i \in Inc, NEW t \in Phases, starter[i] # "none" \/ reader[i] # "none",
             aliasOf' = aliasOf, said' = said,
             \/ starter' = [starter EXCEPT ![i] = t] /\ reader' = reader
             \/ reader' = [reader EXCEPT ![i] = t] /\ starter' = starter
      PROVE  Crew'
  BY <1>0 DEF Crew
<1>1. ASSUME NEW a \in Alias, Invite(a) PROVE Crew'
  <2>. DEFINE new == Len(aliasOf) + 1
  <2>1. aliasOf \in Seq(Alias) /\ Len(aliasOf) \in Nat /\ new <= MaxInvites
    BY <1>1, TranscriptAssumption DEF Crew, Invite, Invited
  <2>2. aliasOf' \in Seq(Alias) /\ Len(aliasOf') = new
    BY <1>1, <2>1 DEF Invite
  <2>3. new \in Inc /\ starter' = [starter EXCEPT ![new] = "starting"] /\ reader' = reader
    BY <1>1, <2>1 DEF Invite, Invited, Inc
  <2>4. "starting" \in Phases /\ \A i \in Inc : i # new => starter'[i] = starter[i]
    BY <2>3 DEF Crew, Phases
  <2>5. said' = said
    BY <1>1 DEF Invite, speech
  <2>6. \A i \in 1 .. Len(aliasOf) : i \in 1 .. new
    BY <2>1
  <2>7. new \in 1 .. new
    BY <2>1
  <2>. HIDE DEF new
  <2>8. \A i \in Inc : (starter'[i] # "none" \/ reader'[i] # "none") => i \in 1 .. new
    BY <2>3, <2>4, <2>6, <2>7 DEF Crew
  <2>. QED  BY <2>1, <2>2, <2>3, <2>4, <2>5, <2>8 DEF Crew
<1>2. ASSUME NEW i \in Inc, StartFail(i) PROVE Crew'
  BY <1>0, <1>2 DEF StartFail, StarterGo, speech, Phases
<1>3. ASSUME NEW i \in Inc, StartCrashed(i) PROVE Crew'
  BY <1>0, <1>3 DEF StartCrashed, StarterGo, speech, Phases
<1>4. ASSUME NEW i \in Inc, StartReady(i) PROVE Crew'
  <2>1. /\ starter[i] # "none" /\ aliasOf' = aliasOf /\ said' = said
        /\ starter' = [starter EXCEPT ![i] = "ready"]
        /\ reader' = [reader EXCEPT ![i] = "reading"]
        /\ "ready" \in Phases /\ "reading" \in Phases
    BY <1>4 DEF StartReady, StarterGo, ReaderGo, speech, Phases
  <2>. QED  BY <2>1 DEF Crew
<1>5. ASSUME NEW i \in Inc, StartAnnounce(i) PROVE Crew'
  BY <1>0, <1>5 DEF StartAnnounce, StarterGo, speech, Phases
<1>6. ASSUME NEW i \in Inc, ReadError(i) PROVE Crew'
  BY <1>0, <1>6 DEF ReadError, ReaderGo, speech, Phases
<1>7. ASSUME NEW i \in Inc, NEW s \in Streams, Say(i, s) PROVE Crew'
  <2>1. said' = [said EXCEPT ![i][s] = @ + 1] /\ UNCHANGED <<aliasOf, starter, reader>>
    BY <1>7 DEF Say, session
  <2>2. said' \in [Inc -> [Streams -> Nat]]
    BY <2>1 DEF Crew
  <2>. QED  BY <2>1, <2>2 DEF Crew
<1>8. ASSUME UNCHANGED <<aliasOf, starter, reader, said>> PROVE Crew'
  BY <1>8 DEF Crew
<1>. QED  BY <1>1, <1>2, <1>3, <1>4, <1>5, <1>6, <1>7, <1>8
          DEF Next, RemoveParticipant, Finish, Appended, ShowNotice, vars, session, speech

LEMMA BumpedRoom ==
    ASSUME NEW step, Formed(step.room), step.room.version \in Nat
    PROVE  LET r == BumpVersion(step) IN
           /\ DOMAIN r = Fields /\ r.records = step.room.records
           /\ r.streaming = step.room.streaming /\ r.departed = step.room.departed
           /\ r.version = step.room.version + 1
           /\ r.dirty[r.version] = step.dirty
<1>. DEFINE s    == step.room
            v    == s.version + 1
            all  == [n \in DOMAIN s.dirty \cup {v} |-> IF n = v THEN step.dirty ELSE s.dirty[n]]
            kept == IF Cardinality(DOMAIN all) <= DeltaHistoryLimit
                    THEN DOMAIN all
                    ELSE {n \in DOMAIN all : n + DeltaHistoryLimit > v}
            d    == Restrict(all, kept)
<1>1. v \in kept
  <2>1. v \in DOMAIN all
    OBVIOUS
  <2>2. v + DeltaHistoryLimit > v
    BY RoomAssumption
  <2>. QED  BY <2>1, <2>2
<1>2. d[v] = step.dirty
  BY <1>1 DEF Restrict
<1>3. BumpVersion(step) = [s EXCEPT !.version = v, !.dirty = d]
  BY DEF BumpVersion
<1>4. DOMAIN s = Fields
  BY DEF Formed
<1>. HIDE DEF s, v, d
<1>5. v = s.version + 1
  BY DEF v
<1>6. LET r == BumpVersion(step) IN
      /\ DOMAIN r = Fields /\ r.records = s.records
      /\ r.streaming = s.streaming /\ r.departed = s.departed
      /\ r.version = v /\ r.dirty = d
  BY <1>3, <1>4 DEF Fields
<1>. QED  BY <1>2, <1>5, <1>6 DEF s

\* Every change of the room is shown.
LEMMA ChangeIsShown ==
    ASSUME Screen, NEW step, Reports(room, step), Changed(step),
           extra' \in [records : Nat, notices : Nat], extra'.notices = extra.notices
    PROVE  Screen'
<1>. DEFINE r == BumpVersion(step)
            q == room.records
            p == step.room.records
<1>1. PICK rr : rr = r
  OBVIOUS
<1>2. /\ DOMAIN rr = Fields /\ rr.records = p
      /\ rr.streaming = step.room.streaming /\ rr.departed = step.room.departed
      /\ rr.version = told + 1 /\ rr.dirty[told + 1] = step.dirty
      /\ told \in Nat /\ view.version = told
  <2>. HIDE DEF r, q
  <2>1. /\ Formed(step.room) /\ step.room.version = told
        /\ told \in Nat /\ view.version = told
    BY DEF Screen, Reports
  <2>2. /\ DOMAIN r = Fields /\ r.records = p
        /\ r.streaming = step.room.streaming /\ r.departed = step.room.departed
        /\ r.version = told + 1 /\ r.dirty[r.version] = step.dirty
    BY <2>1, BumpedRoom DEF r
  <2>. QED  BY <1>1, <2>1, <2>2
<1>3. PICK dd : dd = IF CanBuildDelta(rr, told) THEN Delta(rr, told) ELSE Snapshot(rr)
  OBVIOUS
<1>4. room' = rr /\ told' = dd.version /\ view' = ApplyTranscript(view, dd)
  BY <1>1, <1>3 DEF Changed
<1>. HIDE DEF r
<1>5. q \in Seq(Records) /\ p \in Seq(Records) /\ Grown(q, p, step.dirty) /\ Follows(view, q)
  BY DEF Screen, Reports, Formed
<1>6. \E D : Grown(q, p, D) /\ dd = DeltaOf(rr, D)
  <2>1. CASE CanBuildDelta(rr, told)
    <3>1. (told + 1) .. rr.version = {told + 1}
      BY <1>2
    <3>2. UNION {rr.dirty[v] : v \in (told + 1) .. rr.version} = step.dirty
      BY <1>2, <3>1
    <3>3. dd = DeltaOf(rr, step.dirty)
      BY <1>3, <2>1, <3>2 DEF Delta
    <3>. QED  BY <1>5, <3>3
  <2>2. CASE ~ CanBuildDelta(rr, told)
    <3>1. dd = DeltaOf(rr, DOMAIN p) /\ DOMAIN p = 1 .. Len(p)
      BY <1>2, <1>3, <1>5, <2>2 DEF Snapshot
    <3>2. Grown(q, p, DOMAIN p)
      BY <1>5, <3>1 DEF Grown
    <3>. QED  BY <3>1, <3>2
  <2>. QED  BY <2>1, <2>2
<1>7. PICK D : Grown(q, p, D) /\ dd = DeltaOf(rr, D)
  BY <1>6
<1>8. /\ dd.version = rr.version /\ dd.departed = rr.departed /\ dd.open = rr.streaming
      /\ dd.updates = Restrict(p, D)
  BY <1>2, <1>7 DEF DeltaOf
<1>9. ~ (dd.version <= view.version)
  BY <1>2, <1>8
<1>10. PICK w : w = view'
  OBVIOUS
<1>11. /\ Follows(w, p)
       /\ Len(w.records) = Len(view.records) + Len(p) - Len(q)
       /\ DOMAIN w = {"records", "indices", "version", "open", "departed", "history"}
       /\ w.version = dd.version /\ w.departed = dd.departed
       /\ w.open = [id \in DOMAIN dd.open |-> [dd.open[id] EXCEPT !.at = w.indices[@]]]
       /\ w.history.departed = dd.departed
       /\ w.history.streaming = [id \in DOMAIN w.open |-> w.open[id].at]
  <2>. HIDE DEF q, p
  <2>1. w = ApplyTranscript(view, dd)
    BY <1>4, <1>10
  <2>2. /\ Follows(ApplyTranscript(view, dd), p)
        /\ Len(ApplyTranscript(view, dd).records) = Len(view.records) + Len(p) - Len(q)
        /\ Adopts(ApplyTranscript(view, dd), dd)
    <3>1. /\ q \in Seq(Records) /\ p \in Seq(Records) /\ Follows(view, q) /\ Grown(q, p, D)
          /\ dd.updates = Restrict(p, D) /\ ~ (dd.version <= view.version)
      BY <1>5, <1>7, <1>8, <1>9
    <3>. QED  BY <3>1, DeltaApplied, Zenon
  <2>. QED  BY <2>1, <2>2 DEF Adopts
<1>12. Len(w.records) = Len(p) + extra'.notices
  <2>1. Len(view.records) = Len(q) + extra.notices /\ extra.notices \in Nat
    BY DEF Screen
  <2>2. Len(q) \in Nat /\ Len(p) \in Nat
    BY <1>5
  <2>3. Len(w.records) = Len(view.records) + Len(p) - Len(q)
    BY <1>11
  <2>4. extra'.notices = extra.notices
    OBVIOUS
  <2>. HIDE DEF q, p
  <2>. QED  BY <2>1, <2>2, <2>3, <2>4
<1>13. Formed(rr)
  BY <1>2 DEF Reports, Formed
<1>. HIDE DEF q, p
<1>14. Formed(room')
  BY <1>4, <1>13
<1>15. room'.version \in Nat /\ told' = room'.version /\ view'.version = told'
  <2>1. rr.version \in Nat
    BY <1>2
  <2>2. dd.version = rr.version
    BY <1>8
  <2>3. w.version = dd.version
    BY <1>11
  <2>. QED  BY <1>4, <1>10, <2>1, <2>2, <2>3
<1>16. view'.open = [id \in DOMAIN room'.streaming |->
                        [room'.streaming[id] EXCEPT !.at = view'.indices[@]]]
  <2>1. dd.open = rr.streaming
    BY <1>8
  <2>2. w.open = [id \in DOMAIN dd.open |-> [dd.open[id] EXCEPT !.at = w.indices[@]]]
    BY <1>11
  <2>. QED  BY <1>4, <1>10, <2>1, <2>2
<1>17. /\ Follows(view', room'.records)
       /\ Len(view'.records) = Len(room'.records) + extra'.notices
       /\ DOMAIN view' = {"records", "indices", "version", "open", "departed", "history"}
       /\ view'.departed = room'.departed /\ view'.history.departed = room'.departed
       /\ view'.history.streaming = [id \in DOMAIN view'.open |-> view'.open[id].at]
  BY <1>2, <1>4, <1>8, <1>10, <1>11, <1>12
<1>. QED  BY <1>14, <1>15, <1>16, <1>17 DEF Screen

\* A notice comes after everything, and moves nothing.
LEMMA NoticeIsShown == ASSUME Screen, ShowNotice PROVE Screen'
<1>. DEFINE q  == room.records
            m  == Len(view.records)
            n  == Notice("notice")
            wr == Append(view.records, n)
            at == m + 1
<1>1. /\ q \in Seq(Records) /\ view.records \in Seq(Records) /\ m \in Nat
      /\ n \in Records /\ DOMAIN view.records = 1 .. m
      /\ view.history.records = view.records
  <2>1. q \in Seq(Records) /\ view.records \in Seq(Records) /\ view.history.records = view.records
    BY DEF Screen, Formed, Follows
  <2>2. n \in Records
    BY SystemRecords
  <2>. QED  BY <2>1, <2>2
<1>2. UNCHANGED <<room, told>> /\ extra' = [extra EXCEPT !.notices = @ + 1]
  BY DEF ShowNotice
<1>3. extra' \in [records : Nat, notices : Nat] /\ extra'.notices = extra.notices + 1
  <2>1. extra \in [records : Nat, notices : Nat]
    BY DEF Screen
  <2>. QED  BY <1>2, <2>1
<1>4. /\ wr \in Seq(Records) /\ Len(wr) = at /\ wr[at] = n
      /\ \A k \in 1 .. m : wr[k] = view.records[k]
  BY <1>1, AppendFacts
<1>5. ApplyRoomDelta(view.history, [k \in {at} |-> n], view.open, view.departed) =
          [records   |-> wr,
           streaming |-> [id \in DOMAIN view.open |-> view.open[id].at],
           departed  |-> view.departed]
  <2>. DEFINE U == [k \in {at} |-> n]
              h == view.history
              long == [i \in 1 .. Max(DOMAIN U \cup {Len(h.records)}) |->
                        IF i \in DOMAIN U THEN U[i]
                        ELSE IF i \in DOMAIN h.records THEN h.records[i]
                        ELSE SystemRecord]
  <2>1. Max({at} \cup {m}) = at
    <3>1. {at} \cup {m} \subseteq Nat /\ \A y \in {at} \cup {m} : at >= y
      BY <1>1
    <3>. QED  BY <3>1, MaxIs
  <2>2. DOMAIN U = {at} /\ U[at] = n /\ Len(h.records) = m /\ DOMAIN h.records = 1 .. m
    BY <1>1
  <2>. HIDE DEF U
  <2>3. long = [i \in 1 .. at |-> IF i = at THEN n ELSE view.records[i]]
    <3>1. \A i \in 1 .. at : i # at => i \in 1 .. m
      BY <1>1
    <3>. HIDE DEF at, m, n
    <3>. QED  BY <1>1, <2>1, <2>2, <3>1
  <2>4. wr = [i \in 1 .. at |-> IF i = at THEN n ELSE view.records[i]]
    <3>1. DOMAIN wr = 1 .. at /\ wr = [i \in 1 .. at |-> wr[i]]
      BY <1>4
    <3>2. \A i \in 1 .. at : i # at => i \in 1 .. m
      BY <1>1
    <3>. HIDE DEF wr, at, m, n
    <3>. QED  BY <1>4, <3>1, <3>2
  <2>5. long = wr
    BY <2>3, <2>4
  <2>6. ApplyRoomDelta(h, U, view.open, view.departed) =
            [records   |-> long,
             streaming |-> [id \in DOMAIN view.open |-> view.open[id].at],
             departed  |-> view.departed]
    BY DEF ApplyRoomDelta
  <2>. HIDE DEF long, wr, n, at
  <2>. QED  BY <2>5, <2>6 DEF U
<1>6. PICK w : w = view'
  OBVIOUS
<1>7. w = [view EXCEPT !.records = wr,
               !.history = [records   |-> wr,
                            streaming |-> [id \in DOMAIN view.open |-> view.open[id].at],
                            departed  |-> view.departed]]
  <2>. HIDE DEF wr
  <2>1. view' = AppendPresentationRecord(view, n)
    BY DEF ShowNotice
  <2>2. AppendPresentationRecord(view, n) =
           [view EXCEPT !.records = wr,
               !.history = ApplyRoomDelta(view.history, [k \in {at} |-> n], view.open, view.departed)]
    BY DEF AppendPresentationRecord, wr
  <2>. QED  BY <1>5, <1>6, <2>1, <2>2
<1>8. /\ w.records = wr /\ w.history.records = wr /\ w.indices = view.indices
      /\ w.version = view.version /\ w.open = view.open /\ w.departed = view.departed
      /\ w.history.departed = view.departed
      /\ w.history.streaming = [id \in DOMAIN view.open |-> view.open[id].at]
      /\ DOMAIN w = DOMAIN view
  <2>. HIDE DEF wr
  <2>. QED  BY <1>7 DEF Screen
<1>. HIDE DEF wr
<1>9. Follows(w, q)
  <2>1. /\ view.indices \in [1 .. Len(q) -> 1 .. m]
        /\ \A i \in 1 .. Len(q) : view.records[view.indices[i]] = q[i]
        /\ \A i, j \in 1 .. Len(q) : i < j => view.indices[i] < view.indices[j]
    BY DEF Screen, Follows
  <2>2. view.indices \in [1 .. Len(q) -> 1 .. at]
    <3>1. m \in Nat
      BY <1>1
    <3>. HIDE DEF m
    <3>2. 1 .. m \subseteq 1 .. at
      BY <3>1
    <3>. HIDE DEF q, at
    <3>. QED  BY <2>1, <3>2
  <2>3. \A i \in 1 .. Len(q) : wr[view.indices[i]] = q[i]
    BY <1>4, <2>1
  <2>. QED  BY <1>4, <1>8, <2>1, <2>2, <2>3 DEF Follows
<1>10. Len(w.records) = Len(q) + extra'.notices
  <2>1. Len(view.records) = Len(q) + extra.notices /\ extra.notices \in Nat /\ Len(q) \in Nat
    <3>1. Len(view.records) = Len(q) + extra.notices
      BY DEF Screen
    <3>2. extra \in [records : Nat, notices : Nat]
      BY DEF Screen
    <3>3. extra.notices \in Nat
      BY <3>2
    <3>4. Len(q) \in Nat
      <4>. HIDE DEF q
      <4>. QED  BY <1>1
    <3>. QED  BY <3>1, <3>3, <3>4
  <2>2. Len(w.records) = m + 1 /\ m \in Nat
    BY <1>1, <1>4, <1>8
  <2>3. extra'.notices = extra.notices + 1
    BY <1>3
  <2>. QED  BY <2>1, <2>2, <2>3
<1>. HIDE DEF q
<1>11. room' = room /\ told' = told /\ view' = w
  BY <1>2, <1>6
<1>12. view.history.departed = room.departed /\ view.departed = room.departed
  BY DEF Screen
<1>13. Follows(view', room'.records) /\ Len(view'.records) = Len(room'.records) + extra'.notices
  BY <1>9, <1>10, <1>11 DEF q
<1>14. view'.open = [id \in DOMAIN room'.streaming |->
                        [room'.streaming[id] EXCEPT !.at = view'.indices[@]]]
  BY <1>8, <1>11 DEF Screen
<1>15. /\ view'.departed = room'.departed /\ view'.history.departed = room'.departed
       /\ view'.history.streaming = [id \in DOMAIN view'.open |-> view'.open[id].at]
       /\ DOMAIN view' = {"records", "indices", "version", "open", "departed", "history"}
       /\ view'.version = told'
  BY <1>8, <1>11, <1>12 DEF Screen
<1>16. Formed(room') /\ room'.version \in Nat /\ told' = room'.version
  BY <1>11 DEF Screen
<1>. QED  BY <1>3, <1>13, <1>14, <1>15, <1>16 DEF Screen

LEMMA ScreenStarts == Init => Screen
<1>. SUFFICES ASSUME Init PROVE Screen
  OBVIOUS
<1>1. /\ DOMAIN room = Fields /\ room.records = <<>> /\ room.streaming = <<>>
      /\ room.version = 0 /\ room.departed = {}
  BY DEF Init, NewRoom, Fields
<1>2. /\ DOMAIN view = {"records", "indices", "version", "open", "departed", "history"}
      /\ view.records = <<>> /\ view.indices = <<>> /\ view.version = 0
      /\ view.open = <<>> /\ view.departed = {} /\ view.history.records = <<>>
      /\ view.history.streaming = <<>> /\ view.history.departed = {}
  BY DEF Init, NewPresenter, NewHistory
<1>3. told = 0 /\ extra = [records |-> 0, notices |-> 0]
  BY DEF Init
<1>4. DOMAIN room.streaming = {} /\ DOMAIN view.open = {} /\ DOMAIN view.history.streaming = {}
  BY <1>1, <1>2
<1>5. Formed(room)
  <2>1. <<>> \in [{} -> [alias : Alias, at : 1 .. Len(room.records)]]
    OBVIOUS
  <2>. QED  BY <1>1, <1>4, <2>1 DEF Formed
<1>6. Follows(view, room.records)
  BY <1>1, <1>2 DEF Follows
<1>. QED  BY <1>1, <1>2, <1>3, <1>4, <1>5, <1>6 DEF Screen

LEMMA ScreenKeeps == ASSUME Crew, Screen, [Next]_vars PROVE Screen'
<1>1. Formed(room)
  BY DEF Screen
<1>2. ASSUME NEW i \in Inc, starter[i] # "none" \/ reader[i] # "none"
      PROVE  aliasOf[i] \in Alias
  BY <1>2 DEF Crew
<1>3. ASSUME NEW step, Reports(room, step), Changed(step), extra' = extra PROVE Screen'
  BY <1>3, ChangeIsShown DEF Screen
<1>4. ASSUME Quiet, extra' = extra PROVE Screen'
  BY <1>4 DEF Quiet, Screen
<1>5. ASSUME NEW a \in Alias, Invite(a) PROVE Screen'
  <2>1. Reports(room, Starting(room, a))
    BY <1>1, AppendReports, SystemRecords DEF Starting
  <2>. QED  BY <1>3, <1>5, <2>1 DEF Invite
<1>6. ASSUME NEW a \in Alias, RemoveParticipant(a) PROVE Screen'
  <2>1. Reports(room, Gone(room, a))
    BY <1>1, GoneReports
  <2>2. extra' = extra /\ (Changed(Gone(room, a)) \/ Quiet)
    BY <1>6 DEF RemoveParticipant
  <2>. QED  BY <1>3, <1>4, <2>1, <2>2
<1>7. ASSUME NEW i \in Inc, StartFail(i) \/ StartReady(i) PROVE Screen'
  BY <1>4, <1>7 DEF StartFail, StartReady
<1>8. ASSUME NEW i \in Inc, StartCrashed(i) \/ ReadError(i) PROVE Screen'
  <2>1. Reports(room, Gone(room, aliasOf[i]))
    BY <1>1, GoneReports
  <2>. QED  BY <1>3, <1>8, <2>1 DEF StartCrashed, ReadError
<1>9. ASSUME NEW i \in Inc, StartAnnounce(i) PROVE Screen'
  <2>1. Reports(room, Started(room, aliasOf[i]))
    BY <1>1, StartedReports
  <2>. QED  BY <1>3, <1>9, <2>1 DEF StartAnnounce
<1>10. ASSUME NEW i \in Inc, NEW s \in Streams, Say(i, s) PROVE Screen'
  <2>1. aliasOf[i] \in Alias
    BY <1>2, <1>10 DEF Say
  <2>2. Id(i, s) \in (0 .. MaxInvites) \X Streams
    BY TranscriptAssumption DEF Id, Inc
  <2>3. Kind(s) \in Authored /\ Word(i, s) \in Words
    BY DEF Kind, Authored, Word, Words, Crew
  <2>. DEFINE step == Fragment(room, aliasOf[i], Id(i, s), Kind(s), Word(i, s))
  <2>4. Reports(room, step)
    BY <1>1, <2>1, <2>2, <2>3, FragmentReports
  <2>5. Changed(step) /\ extra' = extra
    BY <1>10 DEF Say
  <2>. HIDE DEF step
  <2>. QED  BY <1>3, <2>4, <2>5
<1>11. ASSUME NEW i \in Inc, NEW s \in Streams, Finish(i, s) PROVE Screen'
  <2>. DEFINE step == Flush(room, aliasOf[i], Id(i, s), Kind(s))
  <2>1. Reports(room, step)
    BY <1>1, FlushReports
  <2>2. Changed(step) /\ extra' = extra
    BY <1>11 DEF Finish
  <2>. HIDE DEF step
  <2>. QED  BY <1>3, <2>1, <2>2
<1>12. CASE Appended
  <2>. DEFINE step == AppendRecord(room, Notice("appended"))
  <2>1. Reports(room, step)
    BY <1>1, AppendReports, SystemRecords
  <2>2. Changed(step) /\ extra' = [extra EXCEPT !.records = @ + 1]
    BY <1>12 DEF Appended
  <2>3. extra' \in [records : Nat, notices : Nat] /\ extra'.notices = extra.notices
    <3>1. extra \in [records : Nat, notices : Nat]
      BY DEF Screen
    <3>2. extra' = [extra EXCEPT !.records = @ + 1]
      BY <2>2
    <3>. HIDE DEF step
    <3>. QED  BY <3>1, <3>2
  <2>. HIDE DEF step
  <2>. QED  BY <2>1, <2>2, <2>3, ChangeIsShown
<1>13. CASE ShowNotice
  BY <1>13, NoticeIsShown
<1>14. CASE UNCHANGED vars
  BY <1>4, <1>14 DEF vars, Quiet
<1>. QED  BY <1>5, <1>6, <1>7, <1>8, <1>9, <1>10, <1>11, <1>12, <1>13, <1>14 DEF Next

LEMMA ScreenShows == ASSUME Screen PROVE ProjectionFollows
<1>1. DOMAIN room.records = 1 .. Len(room.records)
  <2>1. room.records \in Seq(Records)
    BY DEF Screen, Formed
  <2>. QED  BY <2>1
<1>2. DOMAIN view.indices = 1 .. Len(room.records) /\ Follows(view, room.records)
  BY DEF Screen, Follows
<1>3. view.history.streaming =
            [id \in DOMAIN room.streaming |-> view.indices[room.streaming[id].at]]
  <2>. DEFINE f == room.streaming
              open == [id \in DOMAIN f |-> [f[id] EXCEPT !.at = view.indices[@]]]
  <2>1. \A id \in DOMAIN f : f[id] \in [alias : Alias, at : 1 .. Len(room.records)]
    BY DEF Screen, Formed
  <2>2. ASSUME NEW id \in DOMAIN f PROVE open[id].at = view.indices[f[id].at]
    <3>1. DOMAIN f[id] = {"alias", "at"}
      BY <2>1
    <3>2. open[id] = [f[id] EXCEPT !.at = view.indices[@]]
      OBVIOUS
    <3>. HIDE DEF open, f
    <3>. QED  BY <3>1, <3>2
  <2>3. view.history.streaming = [id \in DOMAIN f |-> open[id].at]
    <3>1. view.open = open /\ DOMAIN open = DOMAIN f
      BY DEF Screen
    <3>. HIDE DEF open, f
    <3>. QED  BY <3>1 DEF Screen
  <2>. HIDE DEF open
  <2>. QED  BY <2>2, <2>3
<1>. QED  BY <1>1, <1>2, <1>3 DEF ProjectionFollows, Follows, Screen

(***************************************************************************)
(* What was said is there                                                  *)
(***************************************************************************)

\* The word w is the m-th of the k-th record.
Spot(r, k, m, w) ==
    /\ k \in 1 .. Len(r.records) /\ m \in 1 .. Len(r.records[k].text)
    /\ w = r.records[k].text[m]

\* The words in a room are those that were said, o[i][s] on the stream s of i,
\* each in its place; what was said on an open stream is up to its record.
Heard(r, o) ==
    /\ \A k, m, w : Spot(r, k, m, w) => w \in Words /\ w.n <= o[w.by][w.on] /\ w.n # 0
    /\ \A i \in Inc, s \in Streams : \A n \in 1 .. o[i][s] :
            \E k, m : Spot(r, k, m, [by |-> i, on |-> s, n |-> n])
    /\ \A k, m, w, l, n, u :
            /\ Spot(r, k, m, w) /\ Spot(r, l, n, u)
            /\ w.by = u.by /\ w.on = u.on
            /\ k < l \/ (k = l /\ m < n)
            => w.n < u.n
    /\ \A k, m, w : Spot(r, k, m, w) /\ Id(w.by, w.on) \in DOMAIN r.streaming
                        => k <= r.streaming[Id(w.by, w.on)].at

\* A step that adds no word and opens no stream.
Silent(r, s) ==
    /\ \A k, m, w : Spot(s, k, m, w) <=> Spot(r, k, m, w)
    /\ \A x \in DOMAIN s.streaming :
            x \in DOMAIN r.streaming /\ s.streaming[x].at = r.streaming[x].at

\* A step that adds a word at the end of a record, of the one that the stream
\* already has, or of one after all others.
Speaks(r, s, id, word) ==
    \E at, last \in Nat :
        /\ \A k, m, w : Spot(s, k, m, w)
                            <=> Spot(r, k, m, w) \/ (k = at /\ m = last /\ w = word)
        /\ \A m, w : Spot(r, at, m, w) => m < last
        /\ \/ id \in DOMAIN r.streaming /\ at = r.streaming[id].at
           \/ \A k, m, w : Spot(r, k, m, w) => k < at
        /\ \A x \in DOMAIN s.streaming :
                IF x = id THEN s.streaming[x].at = at
                ELSE x \in DOMAIN r.streaming /\ s.streaming[x].at = r.streaming[x].at

LEMMA SilentHeard ==
    ASSUME NEW r, NEW s, NEW o, Heard(r, o), Silent(r, s)
    PROVE  Heard(s, o)
<1>. HIDE DEF Spot
<1>1. \A k, m, w : Spot(s, k, m, w) => w \in Words /\ w.n <= o[w.by][w.on] /\ w.n # 0
  BY DEF Heard, Silent
<1>2. ASSUME NEW i \in Inc, NEW t \in Streams, NEW n \in 1 .. o[i][t]
      PROVE  \E k, m : Spot(s, k, m, [by |-> i, on |-> t, n |-> n])
  BY DEF Heard, Silent
<1>3. ASSUME NEW k, NEW m, NEW w, NEW l, NEW n, NEW u,
             Spot(s, k, m, w), Spot(s, l, n, u), w.by = u.by, w.on = u.on,
             k < l \/ (k = l /\ m < n)
      PROVE  w.n < u.n
  BY <1>3 DEF Heard, Silent
<1>4. ASSUME NEW k, NEW m, NEW w, Spot(s, k, m, w), Id(w.by, w.on) \in DOMAIN s.streaming
      PROVE  k <= s.streaming[Id(w.by, w.on)].at
  BY <1>4 DEF Heard, Silent
<1>. QED  BY <1>1, <1>2, <1>3, <1>4 DEF Heard

LEMMA SpotFacts ==
    ASSUME NEW r, r.records \in Seq(Records), NEW k, NEW m, NEW w, Spot(r, k, m, w)
    PROVE  k \in Nat /\ m \in Nat /\ w \in Words /\ k <= Len(r.records)
<1>1. r.records[k] \in Records /\ k \in Nat /\ k <= Len(r.records)
  BY DEF Spot
<1>2. r.records[k].text \in Seq(Words)
  BY <1>1 DEF Records
<1>. QED  BY <1>1, <1>2 DEF Spot

LEMMA SpeaksHeard ==
    ASSUME NEW r, NEW s, NEW o \in [Inc -> [Streams -> Nat]],
           r.records \in Seq(Records), Heard(r, o),
           NEW i \in Inc, NEW t \in Streams,
           Speaks(r, s, Id(i, t), [by |-> i, on |-> t, n |-> o[i][t] + 1])
    PROVE  Heard(s, [o EXCEPT ![i][t] = @ + 1])
<1>. DEFINE id   == Id(i, t)
            word == [by |-> i, on |-> t, n |-> o[i][t] + 1]
            new  == [o EXCEPT ![i][t] = @ + 1]
<1>1. word \in Words /\ word.by = i /\ word.on = t /\ word.n = o[i][t] + 1 /\ o[i][t] \in Nat
  BY DEF Words
<1>2. \A j \in Inc, u \in Streams :
          /\ o[j][u] \in Nat
          /\ new[j][u] = IF j = i /\ u = t THEN o[i][t] + 1 ELSE o[j][u]
  OBVIOUS
<1>. HIDE DEF word, new, id
<1>3. PICK at \in Nat, last \in Nat :
        /\ \A k, m, w : Spot(s, k, m, w)
                            <=> Spot(r, k, m, w) \/ (k = at /\ m = last /\ w = word)
        /\ \A m, w : Spot(r, at, m, w) => m < last
        /\ \/ id \in DOMAIN r.streaming /\ at = r.streaming[id].at
           \/ \A k, m, w : Spot(r, k, m, w) => k < at
        /\ \A x \in DOMAIN s.streaming :
                IF x = id THEN s.streaming[x].at = at
                ELSE x \in DOMAIN r.streaming /\ s.streaming[x].at = r.streaming[x].at
  BY DEF Speaks, word, id
<1>4. ASSUME NEW k, NEW m, NEW w, Spot(r, k, m, w)
      PROVE  /\ w \in Words /\ k \in Nat /\ m \in Nat /\ w.n \in Nat
             /\ w.by \in Inc /\ w.on \in Streams
             /\ w.n <= o[w.by][w.on] /\ w.n # 0
  BY <1>4, SpotFacts DEF Heard, Words
<1>5. ASSUME NEW k, NEW m, NEW w, Spot(r, k, m, w), Id(w.by, w.on) = id
      PROVE  k <= at
  BY <1>3, <1>4, <1>5 DEF Heard
<1>6. ASSUME NEW k, NEW m, NEW w, Spot(s, k, m, w)
      PROVE  w \in Words /\ w.n <= new[w.by][w.on] /\ w.n # 0
  <2>1. CASE Spot(r, k, m, w)
    <3>1. PICK j \in Inc : j = w.by
      BY <1>4, <2>1
    <3>2. PICK u \in Streams : u = w.on
      BY <1>4, <2>1
    <3>3. new[j][u] \in Nat /\ o[j][u] \in Nat /\ new[j][u] >= o[j][u]
      BY <1>1, <1>2
    <3>4. w \in Words /\ w.n \in Nat /\ w.n # 0 /\ w.n <= o[j][u]
      BY <1>4, <2>1, <3>1, <3>2
    <3>5. w.n <= new[j][u]
      BY <3>3, <3>4
    <3>. QED  BY <3>1, <3>2, <3>4, <3>5
  <2>2. CASE w = word
    BY <1>1, <1>2, <2>2
  <2>. QED  BY <1>3, <1>6, <2>1, <2>2
<1>7. ASSUME NEW j \in Inc, NEW u \in Streams, NEW n \in 1 .. new[j][u]
      PROVE  \E k, m : Spot(s, k, m, [by |-> j, on |-> u, n |-> n])
  <2>1. CASE n \in 1 .. o[j][u]
    BY <1>3, <2>1 DEF Heard
  <2>2. CASE ~ (n \in 1 .. o[j][u])
    <3>1. j = i /\ u = t /\ n = o[i][t] + 1
      BY <1>1, <1>2, <2>2
    <3>2. [by |-> j, on |-> u, n |-> n] = word
      BY <3>1 DEF word
    <3>. QED  BY <1>3, <3>2
  <2>. QED  BY <2>1, <2>2
<1>8. ASSUME NEW k, NEW m, NEW w, NEW l, NEW n, NEW u,
             Spot(s, k, m, w), Spot(s, l, n, u), w.by = u.by, w.on = u.on,
             k < l \/ (k = l /\ m < n)
      PROVE  w.n < u.n
  <2>1. CASE Spot(r, k, m, w) /\ Spot(r, l, n, u)
    BY <1>8, <2>1 DEF Heard
  <2>2. CASE Spot(r, k, m, w) /\ u = word
    <3>1. w.n <= o[i][t] /\ w.n \in Nat
      BY <1>1, <1>4, <1>8, <2>2
    <3>. QED  BY <1>1, <2>2, <3>1
  <2>3. CASE k = at /\ m = last /\ w = word /\ Spot(r, l, n, u)
    <3>1. l <= at /\ l \in Nat /\ n \in Nat
      BY <1>1, <1>4, <1>5, <1>8, <2>3 DEF id
    <3>2. l = at => n < last
      BY <1>3, <2>3
    <3>. QED  BY <1>8, <2>3, <3>1, <3>2
  <2>4. CASE k = at /\ m = last /\ l = at /\ n = last
    BY <1>8, <2>4
  <2>. QED  BY <1>3, <1>8, <2>1, <2>2, <2>3, <2>4
<1>9. ASSUME NEW k, NEW m, NEW w, Spot(s, k, m, w), Id(w.by, w.on) \in DOMAIN s.streaming
      PROVE  k <= s.streaming[Id(w.by, w.on)].at
  <2>1. CASE Spot(r, k, m, w) /\ Id(w.by, w.on) = id
    BY <1>3, <1>5, <1>9, <2>1
  <2>2. CASE Spot(r, k, m, w) /\ Id(w.by, w.on) # id
    BY <1>3, <1>9, <2>2 DEF Heard
  <2>3. CASE k = at /\ w = word
    <3>1. Id(w.by, w.on) = id
      BY <1>1, <2>3 DEF id
    <3>. QED  BY <1>3, <1>9, <2>3, <3>1
  <2>. QED  BY <1>3, <1>9, <2>1, <2>2, <2>3
<1>. QED  BY <1>6, <1>7, <1>8, <1>9 DEF Heard, new

LEMMA SilentThen ==
    ASSUME NEW r, NEW s, NEW t, Silent(r, s), Silent(s, t)
    PROVE  Silent(r, t)
BY DEF Silent

LEMMA AppendSilent ==
    ASSUME NEW r, Formed(r), NEW record \in Records, record.text = <<>>
    PROVE  Silent(r, AppendRecord(r, record).room)
<1>. DEFINE q == r.records
            s == AppendRecord(r, record).room
<1>1. s.records = Append(q, record) /\ s.streaming = r.streaming
  BY DEF AppendRecord, Step, Formed, Fields
<1>2. q \in Seq(Records) /\ Len(q) \in Nat
  BY DEF Formed
<1>. HIDE DEF s
<1>3. /\ Len(s.records) = Len(q) + 1 /\ s.records[Len(q) + 1] = record
      /\ \A k \in 1 .. Len(q) : s.records[k] = q[k]
  BY <1>1, <1>2, AppendFacts
<1>4. ASSUME NEW k, NEW m, NEW w PROVE Spot(s, k, m, w) <=> Spot(r, k, m, w)
  <2>1. CASE k \in 1 .. Len(q)
    BY <1>2, <1>3, <2>1 DEF Spot
  <2>2. CASE k \notin 1 .. Len(q)
    <3>1. ~ Spot(r, k, m, w)
      BY <2>2 DEF Spot
    <3>2. k \in 1 .. Len(s.records) => s.records[k].text = <<>>
      BY <1>2, <1>3, <2>2
    <3>3. ~ Spot(s, k, m, w)
      BY <3>2 DEF Spot
    <3>. QED  BY <3>1, <3>3
  <2>. QED  BY <2>1, <2>2
<1>. QED  BY <1>1, <1>4 DEF Silent, s

\* Only texts and the places of streams count.
LEMMA SameTexts ==
    ASSUME NEW r, NEW s, Len(s.records) = Len(r.records),
           \A k \in 1 .. Len(r.records) : s.records[k].text = r.records[k].text,
           \A x \in DOMAIN s.streaming :
                x \in DOMAIN r.streaming /\ s.streaming[x].at = r.streaming[x].at
    PROVE  Silent(r, s)
BY DEF Silent, Spot

LEMMA RefreshSilent ==
    ASSUME NEW r, Formed(r), NEW a
    PROVE  Silent(r, RefreshLatestHandoffSource(r, a).room)
<1>. DEFINE q      == r.records
            s      == RefreshLatestHandoffSource(r, a).room
            next   == LatestHandoffSource(r, a)
            unmark == {i \in DOMAIN q : i = r.latest[a] /\ q[i].marked /\ i # next}
            mark   == {i \in DOMAIN q : i = next /\ ~ q[i].marked}
            m(i)   == (q[i].marked \/ i \in mark) /\ i \notin unmark
            new(i) == [q[i] EXCEPT !.marked = m(i)]
<1>1. /\ q \in Seq(Records) /\ Len(q) \in Nat /\ DOMAIN q = 1 .. Len(q)
      /\ DOMAIN r = Fields
  BY DEF Formed
<1>2. s = [r EXCEPT !.latest[a] = next, !.records = [i \in DOMAIN q |-> new(i)]]
  BY DEF RefreshLatestHandoffSource, Remark, Step
<1>3. s.records = [i \in 1 .. Len(q) |-> new(i)] /\ s.streaming = r.streaming
  <2>. HIDE DEF s, new, next
  <2>. QED  BY <1>1, <1>2 DEF Fields
<1>4. ASSUME NEW i \in 1 .. Len(q) PROVE new(i).text = q[i].text
  <2>1. q[i] \in Records
    BY <1>1
  <2>. HIDE DEF q, m
  <2>. QED  BY <2>1 DEF Records
<1>. HIDE DEF s, new
<1>5. Len(s.records) = Len(q) /\ \A k \in 1 .. Len(q) : s.records[k].text = q[k].text
  BY <1>1, <1>3, <1>4
<1>. QED  BY <1>3, <1>5, SameTexts DEF s

LEMMA AnnouncedSilent ==
    ASSUME NEW r, NEW step, Formed(step.room), Silent(r, step.room)
    PROVE  Silent(r, Announced(step).room)
<1>1. Announced(step).room = AppendRecord(step.room, SystemRecord).room
  BY DEF Announced, Then, Step
<1>2. Silent(step.room, AppendRecord(step.room, SystemRecord).room)
  BY AppendSilent, SystemRecords
<1>. QED  BY <1>1, <1>2, SilentThen

LEMMA GoneSilent ==
    ASSUME NEW r, Formed(r), NEW a
    PROVE  Silent(r, Gone(r, a).room)
<1>. DEFINE D == {id \in DOMAIN r.streaming : r.streaming[id].alias # a}
            c == ClearStreams(r, a)
            s == [c EXCEPT !.members = @ \ {a}, !.departed = @ \cup {a}]
<1>1. DOMAIN r = Fields
  BY DEF Formed
<1>2. /\ DOMAIN c = Fields /\ c.records = r.records
      /\ c.streaming = [x \in D |-> r.streaming[x]]
  BY <1>1 DEF ClearStreams, Restrict, Fields
<1>. HIDE DEF c
<1>3. /\ DOMAIN s = Fields /\ s.records = r.records
      /\ s.streaming = [x \in D |-> r.streaming[x]]
  BY <1>2 DEF Fields
<1>4. Departure(r, a) = RefreshLatestHandoffSource(s, a)
  BY DEF Departure, c
<1>. HIDE DEF s
<1>5. Formed(s)
  BY <1>3, SubStreams
<1>6. Silent(r, s)
  BY <1>3, SameTexts
<1>7. Formed(Departure(r, a).room)
  BY <1>4, <1>5, RefreshReports DEF Reports
<1>8. Silent(r, Departure(r, a).room)
  BY <1>4, <1>5, <1>6, RefreshSilent, SilentThen
<1>. QED  BY <1>7, <1>8, AnnouncedSilent DEF Gone

LEMMA StartedSilent ==
    ASSUME NEW r, Formed(r), NEW a
    PROVE  Silent(r, Started(r, a).room)
<1>. DEFINE s == [r EXCEPT !.members = @ \cup {a}, !.departed = @ \ {a}]
            step == RefreshLatestHandoffSource(s, a)
<1>1. DOMAIN s = Fields /\ s.records = r.records /\ s.streaming = r.streaming
  BY DEF Formed, Fields
<1>2. Started(r, a) = Announced(step)
  BY DEF Started
<1>. HIDE DEF s
<1>3. Formed(s) /\ Silent(r, s)
  BY <1>1, SameTexts DEF Formed
<1>4. Formed(step.room) /\ Silent(r, step.room)
  BY <1>3, RefreshReports, RefreshSilent, SilentThen DEF Reports
<1>. HIDE DEF step
<1>. QED  BY <1>2, <1>4, AnnouncedSilent

LEMMA FlushSilent ==
    ASSUME NEW r, Formed(r), NEW a, NEW id, NEW kind
    PROVE  Silent(r, Flush(r, a, id, kind).room)
<1>. DEFINE sealed == SealStream(r, id)
            s == sealed.room
<1>1. /\ DOMAIN s = Fields /\ s.records = r.records
      /\ s.streaming = [x \in DOMAIN r.streaming \ {id} |-> r.streaming[x]]
  BY DEF SealStream, Step, Restrict, Formed, Fields
<1>. HIDE DEF sealed, s
<1>2. Formed(s) /\ Silent(r, s)
  BY <1>1, SubStreams, SameTexts
<1>3. CASE kind = "output"
  <2>. DEFINE again == RefreshLatestHandoffSource(s, a)
  <2>1. Silent(r, again.room)
    BY <1>2, RefreshSilent, SilentThen
  <2>2. Flush(r, a, id, kind) = Then(sealed, again)
    BY <1>3 DEF Flush, sealed, s
  <2>3. Then(sealed, again).room = again.room
    BY DEF Then, Step
  <2>. HIDE DEF again
  <2>. QED  BY <2>1, <2>2, <2>3
<1>4. CASE kind # "output"
  BY <1>2, <1>4 DEF Flush, sealed, s
<1>. QED  BY <1>3, <1>4

LEMMA AccumulateSpeaks ==
    ASSUME NEW r, Formed(r), NEW id \in DOMAIN r.streaming, NEW word \in Words
    PROVE  Speaks(r, Accumulate(r, id, word).room, id, word)
<1>. DEFINE q    == r.records
            s    == Accumulate(r, id, word).room
            at   == r.streaming[id].at
            old  == q[at]
            new  == [old EXCEPT !.text = Append(@, word)]
            last == Len(old.text) + 1
<1>1. q \in Seq(Records) /\ Len(q) \in Nat /\ at \in 1 .. Len(q) /\ old \in Records
  BY DEF Formed
<1>2. s.records = [q EXCEPT ![at] = new] /\ s.streaming = r.streaming
  BY <1>1 DEF Accumulate, Step, Formed, Fields
<1>3. /\ old.text \in Seq(Words) /\ Len(old.text) \in Nat
      /\ new.text = Append(old.text, word) /\ new \in Records
  <2>. HIDE DEF q, s, at, old, last
  <2>1. old.text \in Seq(Words)
    BY <1>1 DEF Records
  <2>2. Append(old.text, word) \in Seq(Words) /\ Len(old.text) \in Nat
    BY <2>1
  <2>3. new \in Records
    BY <1>1, <2>2 DEF Records
  <2>4. new.text = Append(old.text, word)
    BY <1>1 DEF Records
  <2>. QED  BY <2>1, <2>2, <2>3, <2>4
<1>4. /\ Len(new.text) = last /\ new.text[last] = word
      /\ \A m \in 1 .. Len(old.text) : new.text[m] = old.text[m]
  <2>. HIDE DEF new, old
  <2>. QED  BY <1>3, AppendFacts
<1>. HIDE DEF s, new, q, at
<1>5. /\ Len(s.records) = Len(q) /\ s.records[at] = new
      /\ \A k \in 1 .. Len(q) : k # at => s.records[k] = q[k]
  BY <1>1, <1>2, <1>3, ReplaceFacts
<1>6. at \in Nat /\ last \in Nat /\ old = q[at]
  BY <1>1, <1>3
<1>. HIDE DEF old, last
<1>7. ASSUME NEW k, NEW m, NEW w
      PROVE  Spot(s, k, m, w) <=> Spot(r, k, m, w) \/ (k = at /\ m = last /\ w = word)
  <2>1. CASE k # at
    BY <1>5, <2>1 DEF Spot, q
  <2>2. CASE k = at
    <3>1. Spot(r, k, m, w) <=> m \in 1 .. Len(old.text) /\ w = old.text[m]
      BY <1>1, <1>6, <2>2 DEF Spot, q
    <3>2. Spot(s, k, m, w) <=> m \in 1 .. last /\ w = new.text[m]
      BY <1>1, <1>4, <1>5, <2>2 DEF Spot
    <3>3. m \in 1 .. last <=> m \in 1 .. Len(old.text) \/ m = last
      BY <1>3 DEF last
    <3>4. ~ (last \in 1 .. Len(old.text))
      BY <1>3 DEF last
    <3>. QED  BY <1>4, <2>2, <3>1, <3>2, <3>3, <3>4
  <2>. QED  BY <2>1, <2>2
<1>8. \A m, w : Spot(r, at, m, w) => m < last
  BY <1>3, <1>6 DEF Spot, q, last
<1>9. \A x \in DOMAIN s.streaming :
          IF x = id THEN s.streaming[x].at = at
          ELSE x \in DOMAIN r.streaming /\ s.streaming[x].at = r.streaming[x].at
  BY <1>2 DEF at
<1>10. id \in DOMAIN r.streaming /\ at = r.streaming[id].at
  BY DEF at
<1>11. Speaks(r, s, id, word)
  BY <1>6, <1>7, <1>8, <1>9, <1>10 DEF Speaks
<1>. QED  BY <1>11 DEF s

LEMMA OpenSpeaks ==
    ASSUME NEW r, Formed(r), NEW a \in Alias,
           NEW id \in (0 .. MaxInvites) \X Streams, NEW kind \in Authored, NEW word \in Words
    PROVE  Speaks(r, OpenStream(r, a, id, kind, word).room, id, word)
<1>. DEFINE q    == r.records
            s    == OpenStream(r, a, id, kind, word).room
            at   == Len(q) + 1
            new  == Record(kind, a, id, <<word>>)
<1>1. q \in Seq(Records) /\ Len(q) \in Nat
  BY DEF Formed
<1>2. /\ s.records = Append(q, new)
      /\ s.streaming = [x \in DOMAIN r.streaming \cup {id} |->
                            IF x = id THEN [alias |-> a, at |-> at] ELSE r.streaming[x]]
  BY DEF OpenStream, Step, Formed, Fields
<1>3. new \in Records /\ new.text = <<word>>
  BY DEF Record, Records, Authored
<1>. HIDE DEF s, new
<1>4. /\ Len(s.records) = at /\ s.records[at] = new
      /\ \A k \in 1 .. Len(q) : s.records[k] = q[k]
  BY <1>1, <1>2, <1>3, AppendFacts
<1>5. ASSUME NEW k, NEW m, NEW w
      PROVE  Spot(s, k, m, w) <=> Spot(r, k, m, w) \/ (k = at /\ m = 1 /\ w = word)
  <2>1. CASE k \in 1 .. Len(q)
    <3>1. k # at /\ k \in 1 .. Len(s.records)
      BY <1>1, <1>4, <2>1
    <3>. QED  BY <1>4, <2>1, <3>1 DEF Spot
  <2>2. CASE k = at
    <3>1. ~ Spot(r, k, m, w)
      BY <1>1, <2>2 DEF Spot
    <3>2. at \in 1 .. Len(s.records)
      BY <1>1, <1>4
    <3>3. Len(<<word>>) = 1 /\ <<word>>[1] = word /\ 1 .. 1 = {1}
      OBVIOUS
    <3>4. Spot(s, k, m, w) <=> m = 1 /\ w = word
      BY <1>3, <1>4, <2>2, <3>2, <3>3 DEF Spot
    <3>. QED  BY <2>2, <3>1, <3>4
  <2>3. CASE k \notin 1 .. at
    BY <1>1, <1>4, <2>3 DEF Spot
  <2>4. k \notin 1 .. Len(q) => k = at \/ k \notin 1 .. at
    BY <1>1
  <2>. QED  BY <2>1, <2>2, <2>3, <2>4
<1>6. \A k, m, w : Spot(r, k, m, w) => k < at
  BY <1>1 DEF Spot
<1>7. \A m, w : Spot(r, at, m, w) => m < 1
  BY <1>1, <1>6
<1>8. \A x \in DOMAIN s.streaming :
          IF x = id THEN s.streaming[x].at = at
          ELSE x \in DOMAIN r.streaming /\ s.streaming[x].at = r.streaming[x].at
  BY <1>2
<1>9. at \in Nat /\ 1 \in Nat
  BY <1>1
<1>10. Speaks(r, s, id, word)
  <2>. HIDE DEF at
  <2>. QED  BY <1>5, <1>6, <1>7, <1>8, <1>9 DEF Speaks
<1>. QED  BY <1>10 DEF s

LEMMA FragmentSpeaks ==
    ASSUME NEW r, Formed(r), NEW a \in Alias,
           NEW id \in (0 .. MaxInvites) \X Streams, NEW kind \in Authored, NEW word \in Words
    PROVE  Speaks(r, Fragment(r, a, id, kind, word).room, id, word)
BY AccumulateSpeaks, OpenSpeaks DEF Fragment, Accumulates

LEMMA HeardStarts == Init => Heard(room, said)
<1>. SUFFICES ASSUME Init PROVE Heard(room, said)
  OBVIOUS
<1>1. Len(room.records) = 0 /\ DOMAIN room.streaming = {}
  BY DEF Init, NewRoom
<1>2. \A k, m, w : ~ Spot(room, k, m, w)
  BY <1>1 DEF Spot
<1>3. \A i \in Inc, s \in Streams : 1 .. said[i][s] = {}
  BY DEF Init
<1>. QED  BY <1>2, <1>3 DEF Heard

\* Versions and marks do not count.
LEMMA ChangeIsHeard ==
    ASSUME Screen, Crew, NEW step, Changed(step), Reports(room, step),
           Heard(step.room, said')
    PROVE  Heard(room', said')
<1>1. step.room.version \in Nat /\ Formed(step.room)
  BY DEF Reports, Screen
<1>2. PICK rr : rr = BumpVersion(step)
  OBVIOUS
<1>3. rr.records = step.room.records /\ rr.streaming = step.room.streaming
  BY <1>1, <1>2, BumpedRoom
<1>4. Silent(step.room, rr)
  BY <1>3 DEF Silent, Spot
<1>5. room' = rr
  BY <1>2, ChangedRoom
<1>. QED  BY <1>4, <1>5, SilentHeard

LEMMA HeardKeeps == ASSUME Crew, Screen, Heard(room, said), [Next]_vars PROVE Heard(room, said)'
<1>1. Formed(room)
  BY DEF Screen
<1>2. ASSUME NEW i \in Inc, starter[i] # "none" \/ reader[i] # "none"
      PROVE  aliasOf[i] \in Alias
  BY <1>2 DEF Crew
<1>3. ASSUME NEW step, Reports(room, step), Silent(room, step.room), Changed(step), said' = said
      PROVE  Heard(room, said)'
  <2>1. Heard(step.room, said')
    BY <1>3, SilentHeard
  <2>. QED  BY <1>3, <2>1, ChangeIsHeard
<1>4. ASSUME room' = room, said' = said PROVE Heard(room, said)'
  BY <1>4
<1>5. ASSUME NEW a \in Alias, Invite(a) PROVE Heard(room, said)'
  <2>1. Reports(room, Starting(room, a)) /\ Silent(room, Starting(room, a).room)
    BY <1>1, AppendReports, AppendSilent, SystemRecords DEF Starting
  <2>. QED  BY <1>3, <1>5, <2>1 DEF Invite, speech
<1>6. ASSUME NEW a \in Alias, RemoveParticipant(a) PROVE Heard(room, said)'
  <2>1. Reports(room, Gone(room, a)) /\ Silent(room, Gone(room, a).room)
    BY <1>1, GoneReports, GoneSilent
  <2>2. said' = said /\ (Changed(Gone(room, a)) \/ Quiet)
    BY <1>6 DEF RemoveParticipant, speech
  <2>. QED  BY <1>3, <1>4, <2>1, <2>2 DEF Quiet
<1>7. ASSUME NEW i \in Inc, StartFail(i) \/ StartReady(i) PROVE Heard(room, said)'
  BY <1>4, <1>7 DEF StartFail, StartReady, Quiet, speech
<1>8. ASSUME NEW i \in Inc, StartCrashed(i) \/ ReadError(i) PROVE Heard(room, said)'
  <2>1. Reports(room, Gone(room, aliasOf[i])) /\ Silent(room, Gone(room, aliasOf[i]).room)
    BY <1>1, GoneReports, GoneSilent
  <2>. QED  BY <1>3, <1>8, <2>1 DEF StartCrashed, ReadError, speech
<1>9. ASSUME NEW i \in Inc, StartAnnounce(i) PROVE Heard(room, said)'
  <2>1. /\ Reports(room, Started(room, aliasOf[i]))
        /\ Silent(room, Started(room, aliasOf[i]).room)
    BY <1>1, StartedReports, StartedSilent
  <2>. QED  BY <1>3, <1>9, <2>1 DEF StartAnnounce, speech
<1>10. ASSUME NEW i \in Inc, NEW s \in Streams, Say(i, s) PROVE Heard(room, said)'
  <2>1. aliasOf[i] \in Alias
    BY <1>2, <1>10 DEF Say
  <2>2. Id(i, s) \in (0 .. MaxInvites) \X Streams
    BY TranscriptAssumption DEF Id, Inc
  <2>3. Kind(s) \in Authored /\ Word(i, s) \in Words
    BY DEF Kind, Authored, Word, Words, Crew
  <2>. DEFINE step == Fragment(room, aliasOf[i], Id(i, s), Kind(s), Word(i, s))
  <2>4. Reports(room, step) /\ Speaks(room, step.room, Id(i, s), Word(i, s))
    BY <1>1, <2>1, <2>2, <2>3, FragmentReports, FragmentSpeaks
  <2>5. Changed(step) /\ said' = [said EXCEPT ![i][s] = @ + 1]
    BY <1>10 DEF Say
  <2>6. Word(i, s) = [by |-> i, on |-> s, n |-> said[i][s] + 1]
    BY DEF Word
  <2>7. said \in [Inc -> [Streams -> Nat]] /\ room.records \in Seq(Records)
    BY DEF Crew, Screen, Formed
  <2>. HIDE DEF step
  <2>8. Heard(step.room, said')
    <3>1. Speaks(room, step.room, Id(i, s), [by |-> i, on |-> s, n |-> said[i][s] + 1])
      BY <2>4, <2>6
    <3>2. Heard(step.room, [said EXCEPT ![i][s] = @ + 1])
      BY <2>7, <3>1, SpeaksHeard
    <3>. QED  BY <2>5, <3>2
  <2>. QED  BY <2>4, <2>5, <2>8, ChangeIsHeard
<1>11. ASSUME NEW i \in Inc, NEW s \in Streams, Finish(i, s) PROVE Heard(room, said)'
  <2>. DEFINE step == Flush(room, aliasOf[i], Id(i, s), Kind(s))
  <2>1. Reports(room, step) /\ Silent(room, step.room)
    BY <1>1, FlushReports, FlushSilent
  <2>2. Changed(step) /\ said' = said
    BY <1>11 DEF Finish
  <2>. HIDE DEF step
  <2>. QED  BY <1>3, <2>1, <2>2
<1>12. CASE Appended
  <2>. DEFINE step == AppendRecord(room, Notice("appended"))
  <2>1. Reports(room, step) /\ Silent(room, step.room)
    BY <1>1, AppendReports, AppendSilent, SystemRecords
  <2>2. Changed(step) /\ said' = said
    BY <1>12 DEF Appended, speech
  <2>. HIDE DEF step
  <2>. QED  BY <1>3, <2>1, <2>2
<1>13. CASE ShowNotice
  BY <1>4, <1>13 DEF ShowNotice, speech
<1>14. CASE UNCHANGED vars
  BY <1>4, <1>14 DEF vars, speech
<1>. QED  BY <1>5, <1>6, <1>7, <1>8, <1>9, <1>10, <1>11, <1>12, <1>13, <1>14 DEF Next

LEMMA HeardIsShown == ASSUME Screen, Crew, Heard(room, said) PROVE SpokenIsShown
<1>1. room.records \in Seq(Records) /\ DOMAIN room.records = 1 .. Len(room.records)
  <2>1. room.records \in Seq(Records)
    BY DEF Screen, Formed
  <2>. QED  BY <2>1
<1>2. ASSUME NEW k \in 1 .. Len(room.records)
      PROVE  DOMAIN room.records[k].text = 1 .. Len(room.records[k].text)
  <2>1. room.records[k] \in Records
    BY <1>1
  <2>2. room.records[k].text \in Seq(Words)
    BY <2>1 DEF Records
  <2>. QED  BY <2>2
<1>3. ASSUME NEW p \in Spots
      PROVE  p = <<p[1], p[2]>> /\ Spot(room, p[1], p[2], WordAt(p))
  BY <1>1, <1>2 DEF Spots, Spot, WordAt
<1>4. ASSUME NEW k, NEW m, NEW w, Spot(room, k, m, w)
      PROVE  <<k, m>> \in Spots /\ WordAt(<<k, m>>) = w
  <2>1. k \in DOMAIN room.records /\ m \in DOMAIN room.records[k].text
    BY <1>1, <1>2, <1>4 DEF Spot
  <2>. QED  BY <1>4, <2>1 DEF Spots, Spot, WordAt
<1>5. ASSUME NEW p \in Spots
      PROVE  WordAt(p).n \in 1 .. said[WordAt(p).by][WordAt(p).on]
  <2>1. PICK w : w = WordAt(p)
    OBVIOUS
  <2>2. w \in Words /\ w.n <= said[w.by][w.on] /\ w.n # 0
    BY <1>3, <2>1 DEF Heard
  <2>3. w.n \in Nat /\ w.by \in Inc /\ w.on \in Streams
    BY <2>2 DEF Words
  <2>4. said[w.by][w.on] \in Nat
    BY <2>3 DEF Crew
  <2>5. w.n \in 1 .. said[w.by][w.on]
    BY <2>2, <2>3, <2>4
  <2>. QED  BY <2>1, <2>5
<1>6. ASSUME NEW i \in Inc, NEW s \in Streams, NEW n \in 1 .. said[i][s]
      PROVE  \E p \in Spots : WordAt(p) = [by |-> i, on |-> s, n |-> n]
  <2>1. PICK w : w = [by |-> i, on |-> s, n |-> n]
    OBVIOUS
  <2>2. PICK k, m : Spot(room, k, m, w)
    BY <2>1 DEF Heard
  <2>3. <<k, m>> \in Spots /\ WordAt(<<k, m>>) = w
    BY <1>4, <2>2
  <2>. QED  BY <2>1, <2>3
<1>7. ASSUME NEW p \in Spots, NEW q \in Spots,
             WordAt(p).by = WordAt(q).by, WordAt(p).on = WordAt(q).on, Earlier(p, q)
      PROVE  WordAt(p).n < WordAt(q).n
  <2>1. Spot(room, p[1], p[2], WordAt(p)) /\ Spot(room, q[1], q[2], WordAt(q))
    BY <1>3
  <2>. QED  BY <1>7, <2>1 DEF Heard, Earlier
<1>. QED  BY <1>5, <1>6, <1>7 DEF SpokenIsShown

(***************************************************************************)
(* Theorems                                                                *)
(***************************************************************************)

\* Whatever the room makes of messages that arrive late, of streams that are
\* cut by a departure and opened again, and of an alias that is invited again
\* (events.go), a record holds only words of the participant in its header,
\* provided that no two backends name a stream alike.
THEOREM WordsAreOwn == ASSUME ~ SharedIds PROVE Spec => []OwnWords
<1>1. ASSUME IInv PROVE OwnWords
  <2>1. SUFFICES ASSUME NEW k \in 1 .. Len(room.records),
                        NEW w \in ToSet(room.records[k].text)
                 PROVE  aliasOf[w.by] = room.records[k].alias
    <3>1. DOMAIN room.records = 1 .. Len(room.records)
      BY <1>1 DEF IInv, Good, Shaped
    <3>. QED  BY <3>1 DEF OwnWords
  <2>. DEFINE record == room.records[k]
  <2>2. record \in Records /\ OwnRecord(record, aliasOf)
    BY <1>1 DEF IInv, Good, Shaped, Owned
  <2>3. PICK n \in 1 .. Len(record.text) : w = record.text[n]
    <3>1. DOMAIN record.text = 1 .. Len(record.text)
      BY <2>2 DEF Records
    <3>. QED  BY <2>1, <3>1 DEF ToSet
  <2>. HIDE DEF record
  <2>4. record.kind \in Authored
    BY <2>2, <2>3 DEF OwnRecord
  <2>. QED  BY <2>2, <2>3, <2>4 DEF OwnRecord, record
<1>. QED  BY Inductive, <1>1, PTL

\* The bookkeeping of handoff.go, which touches only the cached and the next
\* source and only when the session tells of an end, keeps exactly one mark
\* for a participant, on the cached record, and that record is the one a scan
\* of the transcript finds, unless its stream was opened again.
THEOREM MarksFollow == ASSUME ~ SharedIds PROVE Spec => []MarkIsLatest
<1>1. ASSUME IInv PROVE MarkIsLatest
  <2>1. SUFFICES ASSUME NEW a \in Alias
                 PROVE  /\ {i \in DOMAIN room.records :
                                room.records[i].marked /\ room.records[i].alias = a}
                              = {room.latest[a]} \ {0}
                        /\ \/ room.latest[a] = LatestHandoffSource(room, a)
                           \/ /\ room.latest[a] # 0
                              /\ room.records[room.latest[a]].id \in DOMAIN room.streaming
    BY DEF MarkIsLatest
  <2>2. CachedAt(room, a) /\ Fresh(room, a)
    BY <1>1 DEF IInv, Good
  <2>3. DOMAIN room.records = 1 .. Len(room.records) /\ Len(room.records) \in Nat
    BY <1>1 DEF IInv, Good, Shaped
  <2>4. room.latest[a] # 0 => /\ room.latest[a] \in 1 .. Len(room.records)
                              /\ room.records[room.latest[a]].alias = a
    BY <2>2, <2>3 DEF CachedAt
  <2>5. ASSUME NEW i \in 1 .. Len(room.records), room.records[i].alias = a
        PROVE  room.records[i].marked <=> i = room.latest[a]
    <3>1. room.records[i].marked = (i = room.latest[a])
      BY <2>2, <2>5 DEF CachedAt
    <3>. QED  BY <3>1
  <2>6. {i \in DOMAIN room.records : room.records[i].marked /\ room.records[i].alias = a}
            = {room.latest[a]} \ {0}
    BY <2>3, <2>4, <2>5
  <2>. QED  BY <2>2, <2>6 DEF Fresh
<1>. QED  BY Inductive, <1>1, PTL

\* Whatever goroutines of overlapping incarnations make the room change, and
\* however many notices of the front end come in between (projection.go,
\* delta.go), the screen has every record in its last form and in the room's
\* order, for any history limit, and also where two backends name their
\* streams alike.
THEOREM ScreenFollowsRoom == Spec => []ProjectionFollows
<1>1. Init => Crew /\ Screen
  BY CrewStarts, ScreenStarts
<1>2. Crew /\ Screen /\ [Next]_vars => (Crew /\ Screen)'
  BY CrewKeeps, ScreenKeeps
<1>. QED  BY <1>1, <1>2, ScreenShows, PTL DEF Spec

\* Whatever goroutines speak at once, and however departures cut their streams
\* (events.go), every fragment an agent says is in the transcript exactly once,
\* and the fragments of one stream are in the order they were said, also where
\* two backends name their streams alike.
THEOREM NoWordIsLost == Spec => []SpokenIsShown
<1>1. Init => Crew /\ Screen /\ Heard(room, said)
  BY CrewStarts, ScreenStarts, HeardStarts
<1>2. Crew /\ Screen /\ Heard(room, said) /\ [Next]_vars => (Crew /\ Screen /\ Heard(room, said))'
  BY CrewKeeps, ScreenKeeps, HeardKeeps
<1>3. Crew /\ Screen /\ Heard(room, said) => SpokenIsShown
  BY HeardIsShown
<1>. QED  BY <1>1, <1>2, <1>3, PTL DEF Spec
===============================================================================
