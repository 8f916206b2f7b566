--------------------------- MODULE AuditLoggerProofs ---------------------------
(* Theorems about AuditLogger: the chain breaks where a lost reply made it *)
(* and nowhere else, tampering is located, what was accepted is kept, and  *)
(* the writer keeps the promise of AuditLog.                               *)
EXTENDS AuditLogger, FiniteSetTheorems, SequenceTheorems, TLAPS

-----------------------------------------------------------------------------
(* The inductive invariant.                                                *)

Row == [event : Event, prev : Hash, hash : Hash]

Label == {"idle", "append", "swap", "write", "connect", "commit"}

TypesOK ==
    /\ rows \in Seq(Row)
    /\ buffer \in Seq(Buffered)
    /\ tail \in Hash \cup {None}
    /\ pc \in [Thread -> Label]
    /\ batch \in [Thread -> Seq(Event)]
    /\ staged \in [Thread -> Seq(Row)]
    /\ holds \subseteq Worker
    /\ told \subseteq issued /\ issued \subseteq Event /\ lost \subseteq issued
    /\ fork \in {"none", "behind", "forked"}

(* What a thread has in hand at each step of it.                           *)
HandOK(t) ==
    /\ pc[t] \in {"idle", "swap"} <=> batch[t] = <<>>
    /\ pc[t] = "append" => EventsIn(batch[t]) \subseteq Buffered
    /\ pc[t] # "commit" => staged[t] = <<>>
    /\ pc[t] = "commit" => tail # None /\ staged[t] = Chained(tail, batch[t])

(* One thread is in _write_batch, so the tail is still that its rows were  *)
(* chained to when it commits.                                             *)
Writing(t) == pc[t] \in {"connect", "commit"}

LockOK == \A t, u \in Thread : Writing(t) /\ Writing(u) => t = u

(* An event is in one place: a row, the buffer, or one thread's hands.     *)
Distinct(s) == \A i, j \in DOMAIN s : s[i] = s[j] => i = j

LogOf(rs) == [i \in DOMAIN rs |-> rs[i].event]

Apart(t, u) == EventsIn(batch[t]) \cap EventsIn(batch[u]) = {}

OnceOK ==
    /\ Distinct(LogOf(rows)) /\ Distinct(buffer)
    /\ Written \cup Volatile \subseteq issued
    /\ Written \cap Volatile = {}
    /\ \A t \in Thread :
         /\ Distinct(batch[t])
         /\ EventsIn(batch[t]) \cap EventsIn(buffer) = {}
    /\ \A t, u \in Thread : t # u => Apart(t, u)

(* The tail is the tip of the table unless a lost reply left it behind;    *)
(* the next batch then forks the chain, at one place.                      *)
Intact(rs) == \A i \in DOMAIN rs : ~Broken(rs, i)

BreaksAt(rs, i) ==
    /\ i \in DOMAIN rs /\ Broken(rs, i)
    /\ \A j \in DOMAIN rs : j < i => ~Broken(rs, j)

ChainOK ==
    /\ fork # "forked" => Intact(rows)
    /\ fork = "none" => tail \in {None, Tip(rows)}
    /\ fork = "behind" => tail \notin {None, Tip(rows)}
    /\ fork = "forked" => \E i \in DOMAIN rows : BreaksAt(rows, i)

IInv ==
    /\ TypesOK
    /\ Free >= 0
    /\ \A t \in Thread : HandOK(t)
    /\ LockOK
    /\ OnceOK
    /\ ChainOK
    /\ AcceptedIsKept

-----------------------------------------------------------------------------
(* Sequences, and the chain.                                               *)

LEMMA FunctionIsSeq ==
    ASSUME NEW S, NEW n \in Nat, NEW f \in [1 .. n -> S]
    PROVE  f \in Seq(S) /\ Len(f) = n /\ DOMAIN f = 1 .. n
OBVIOUS

LEMMA Prefix ==
    ASSUME NEW S, NEW s \in Seq(S), NEW n \in 0 .. Len(s)
    PROVE  /\ SubSeq(s, 1, n) \in Seq(S)
           /\ Len(SubSeq(s, 1, n)) = n
           /\ \A i \in 1 .. n : SubSeq(s, 1, n)[i] = s[i]
<1>1. \A i \in 1 .. n : s[i] \in S
  OBVIOUS
<1>2. 1 \in Int /\ n \in Int
  OBVIOUS
<1> QED  BY <1>1, <1>2, SubSeqProperties

LEMMA AppendOne ==
    ASSUME NEW S, NEW s \in Seq(S), NEW v \in Seq(S), NEW i \in 1 .. Len(v)
    PROVE  /\ s \o SubSeq(v, 1, i) \in Seq(S)
           /\ s \o SubSeq(v, 1, i - 1) \in Seq(S)
           /\ Len(s \o SubSeq(v, 1, i)) = Len(s) + i
           /\ Append(s \o SubSeq(v, 1, i - 1), v[i]) = s \o SubSeq(v, 1, i)
<1> DEFINE short == SubSeq(v, 1, i - 1)
           long  == SubSeq(v, 1, i)
<1>1. /\ short \in Seq(S) /\ Len(short) = i - 1
      /\ \A j \in 1 .. i - 1 : short[j] = v[j]
  BY Prefix, i - 1 \in 0 .. Len(v)
<1>2. /\ long \in Seq(S) /\ Len(long) = i
      /\ \A j \in 1 .. i : long[j] = v[j]
  BY Prefix, i \in 0 .. Len(v)
<1> HIDE DEF short, long
<1> DEFINE a == Append(s \o short, v[i])
           b == s \o long
<1>3. /\ s \o short \in Seq(S) /\ Len(s \o short) = Len(s) + i - 1
      /\ \A j \in 1 .. Len(s) + i - 1 :
           (s \o short)[j] = IF j <= Len(s) THEN s[j] ELSE v[j - Len(s)]
  <2>1. /\ s \o short \in Seq(S) /\ Len(s \o short) = Len(s) + Len(short)
        /\ \A j \in 1 .. Len(s) + Len(short) :
             (s \o short)[j] = IF j <= Len(s) THEN s[j] ELSE short[j - Len(s)]
    BY <1>1, ConcatProperties
  <2> QED  BY <1>1, <2>1
<1>4. /\ b \in Seq(S) /\ Len(b) = Len(s) + i
      /\ \A j \in 1 .. Len(s) + i : b[j] = IF j <= Len(s) THEN s[j] ELSE v[j - Len(s)]
  <2>1. /\ b \in Seq(S) /\ Len(b) = Len(s) + Len(long)
        /\ \A j \in 1 .. Len(s) + Len(long) :
             b[j] = IF j <= Len(s) THEN s[j] ELSE long[j - Len(s)]
    BY <1>2, ConcatProperties
  <2> HIDE DEF b
  <2> QED  BY <1>2, <2>1
<1>5. /\ a \in Seq(S) /\ Len(a) = Len(s) + i
      /\ \A j \in 1 .. Len(s) + i - 1 : a[j] = (s \o short)[j]
      /\ a[Len(s) + i] = v[i]
  <2>1. v[i] \in S
    OBVIOUS
  <2> DEFINE c == s \o short
  <2>2. /\ c \in Seq(S) /\ Len(c) = Len(s) + i - 1
    BY <1>3
  <2> HIDE DEF c
  <2>3. /\ Append(c, v[i]) \in Seq(S)
        /\ Len(Append(c, v[i])) = Len(c) + 1
        /\ \A j \in 1 .. Len(c) : Append(c, v[i])[j] = c[j]
        /\ Append(c, v[i])[Len(c) + 1] = v[i]
    BY <2>1, <2>2, AppendProperties
  <2> QED  BY <2>2, <2>3 DEF c
<1>6. a = b
  <2> DEFINE c == s \o short
  <2>1. \A j \in 1 .. Len(s) + i - 1 : c[j] = IF j <= Len(s) THEN s[j] ELSE v[j - Len(s)]
    BY <1>3
  <2>2. \A j \in 1 .. Len(s) + i - 1 : a[j] = c[j]
    BY <1>5
  <2> HIDE DEF a, b, c
  <2>3. \A j \in 1 .. Len(s) + i - 1 : a[j] = b[j]
    BY <2>1, <2>2, <1>4
  <2>4. a[Len(s) + i] = b[Len(s) + i]
    BY <1>4, <1>5
  <2>5. ASSUME NEW j \in 1 .. Len(a)
        PROVE  a[j] = b[j]
    <3>1. Len(s) \in Nat /\ i \in Nat /\ Len(a) = Len(s) + i
      BY <1>5
    <3>2. j \in 1 .. Len(s) + i - 1 \/ j = Len(s) + i
      BY <3>1
    <3> QED  BY <3>2, <2>3, <2>4
  <2> QED  BY <1>4, <1>5, <2>5, SeqEqual
<1> QED  BY <1>1, <1>2, <1>3, <1>4, <1>6 DEF short, long

(* The rows of a batch, one by one.                                        *)
LEMMA ChainedShape ==
    ASSUME NEW prev \in Hash, NEW v \in Seq(Event)
    PROVE  /\ Chained(prev, v) \in Seq(Row)
           /\ Len(Chained(prev, v)) = Len(v)
           /\ \A i \in 1 .. Len(v) :
                /\ Chained(prev, v)[i].event = v[i]
                /\ Chained(prev, v)[i].prev = prev \o SubSeq(v, 1, i - 1)
                /\ Chained(prev, v)[i].hash = prev \o SubSeq(v, 1, i)
                /\ RowHash(Chained(prev, v)[i].prev, v[i]) = prev \o SubSeq(v, 1, i)
<1> DEFINE row(i) == [event |-> v[i], prev |-> prev \o SubSeq(v, 1, i - 1),
                      hash |-> RowHash(prev \o SubSeq(v, 1, i - 1), v[i])]
<1>1. Chained(prev, v) = [i \in 1 .. Len(v) |-> row(i)]
  BY DEF Chained
<1>2. ASSUME NEW i \in 1 .. Len(v)
      PROVE  /\ row(i) \in Row
             /\ RowHash(prev \o SubSeq(v, 1, i - 1), v[i]) = prev \o SubSeq(v, 1, i)
  <2>1. v[i] \in Event
    OBVIOUS
  <2>2. /\ prev \o SubSeq(v, 1, i) \in Seq(Event)
        /\ prev \o SubSeq(v, 1, i - 1) \in Seq(Event)
        /\ Append(prev \o SubSeq(v, 1, i - 1), v[i]) = prev \o SubSeq(v, 1, i)
    BY AppendOne DEF Hash
  <2> QED  BY <2>1, <2>2 DEF Row, Hash, RowHash
<1>3. \A i \in 1 .. Len(v) :
        /\ row(i).event = v[i]
        /\ row(i).prev = prev \o SubSeq(v, 1, i - 1)
        /\ row(i).hash = RowHash(prev \o SubSeq(v, 1, i - 1), v[i])
  OBVIOUS
<1> HIDE DEF row
<1>4. Len(v) \in Nat
  OBVIOUS
<1>5. Chained(prev, v) \in Seq(Row) /\ Len(Chained(prev, v)) = Len(v)
  <2>1. Chained(prev, v) \in [1 .. Len(v) -> Row]
    BY <1>1, <1>2
  <2> QED  BY <2>1, <1>4, FunctionIsSeq
<1> QED  BY <1>1, <1>2, <1>3, <1>5

(* The hash that the row at i must name.                                   *)
Before(rs, i) == IF i = 1 THEN Genesis ELSE rs[i - 1].hash

LEMMA BrokenIs ==
    ASSUME NEW rs \in Seq(Row), NEW i \in DOMAIN rs
    PROVE  /\ Tip(SubSeq(rs, 1, i - 1)) = Before(rs, i)
           /\ Broken(rs, i) <=> \/ rs[i].prev # Before(rs, i)
                                \/ rs[i].hash # RowHash(rs[i].prev, rs[i].event)
<1>1. i \in 1 .. Len(rs)
  OBVIOUS
<1>2. CASE i = 1
  <2>1. SubSeq(rs, 1, i - 1) = <<>>
    BY <1>2, SubSeqEmpty
  <2> QED  BY <2>1, <1>2 DEF Tip, Before, Broken
<1>3. CASE i # 1
  <2>1. /\ SubSeq(rs, 1, i - 1) \in Seq(Row)
        /\ Len(SubSeq(rs, 1, i - 1)) = i - 1
        /\ SubSeq(rs, 1, i - 1)[i - 1] = rs[i - 1]
    BY <1>1, <1>3, Prefix, i - 1 \in 0 .. Len(rs)
  <2>2. SubSeq(rs, 1, i - 1) # <<>>
    BY <2>1, <1>1, <1>3, EmptySeq
  <2> QED  BY <2>1, <2>2, <1>3 DEF Tip, Before, Broken
<1> QED  BY <1>2, <1>3

LEMMA TipIs ==
    ASSUME NEW rs \in Seq(Row)
    PROVE  /\ Tip(rs) = IF Len(rs) = 0 THEN Genesis ELSE rs[Len(rs)].hash
           /\ Tip(rs) \in Hash
<1>1. CASE rs = <<>>
  BY <1>1, EmptySeq DEF Tip, Genesis, Hash
<1>2. CASE rs # <<>>
  <2>1. Len(rs) \in Nat \ {0} /\ rs[Len(rs)] \in Row
    BY <1>2, EmptySeq
  <2> QED  BY <2>1, <1>2 DEF Tip, Row
<1> QED  BY <1>1, <1>2

(* A table that grows is broken where it was.                              *)
LEMMA Grows ==
    ASSUME NEW rs \in Seq(Row), NEW more \in Seq(Row)
    PROVE  /\ rs \o more \in Seq(Row)
           /\ Len(rs \o more) = Len(rs) + Len(more)
           /\ \A i \in DOMAIN rs :
                /\ i \in DOMAIN (rs \o more)
                /\ (rs \o more)[i] = rs[i]
                /\ Broken(rs \o more, i) <=> Broken(rs, i)
           /\ \A i \in 1 .. Len(more) :
                /\ Len(rs) + i \in DOMAIN (rs \o more)
                /\ (rs \o more)[Len(rs) + i] = more[i]
                /\ Before(rs \o more, Len(rs) + i) =
                     IF i = 1 THEN Tip(rs) ELSE Before(more, i)
<1> DEFINE all == rs \o more
<1>1. /\ all \in Seq(Row) /\ Len(all) = Len(rs) + Len(more)
      /\ \A i \in 1 .. Len(rs) : all[i] = rs[i]
      /\ \A i \in 1 .. Len(more) : all[Len(rs) + i] = more[i]
      /\ Len(rs) \in Nat /\ Len(more) \in Nat
      /\ DOMAIN rs = 1 .. Len(rs) /\ DOMAIN all = 1 .. Len(all)
  OBVIOUS
<1> HIDE DEF all
<1>2. ASSUME NEW i \in DOMAIN rs
      PROVE  i \in DOMAIN all /\ all[i] = rs[i] /\ Before(all, i) = Before(rs, i)
  BY <1>1, <1>2 DEF Before
<1>3. ASSUME NEW i \in 1 .. Len(more)
      PROVE  Before(all, Len(rs) + i) = IF i = 1 THEN Tip(rs) ELSE Before(more, i)
  <2>1. CASE i = 1
    <3>1. Tip(rs) = IF Len(rs) = 0 THEN Genesis ELSE rs[Len(rs)].hash
      BY TipIs
    <3>2. Len(rs) # 0 => all[Len(rs)] = rs[Len(rs)]
      BY <1>1
    <3>3. Before(all, Len(rs) + 1) = IF Len(rs) = 0 THEN Genesis ELSE all[Len(rs)].hash
      BY <1>1 DEF Before
    <3> QED  BY <2>1, <3>1, <3>2, <3>3
  <2>2. CASE i # 1
    <3>1. i - 1 \in 1 .. Len(more) /\ Len(rs) + i # 1
      BY <2>2, <1>1
    <3>2. all[Len(rs) + (i - 1)] = more[i - 1]
      BY <3>1, <1>1
    <3>3. Len(rs) + i - 1 = Len(rs) + (i - 1)
      BY <1>1
    <3> QED  BY <2>2, <3>1, <3>2, <3>3 DEF Before
  <2> QED  BY <2>1, <2>2
<1>4. \A i \in DOMAIN rs : Broken(all, i) <=> Broken(rs, i)
  BY <1>1, <1>2, BrokenIs
<1>5. \A i \in 1 .. Len(more) : Len(rs) + i \in DOMAIN all
  BY <1>1
<1> QED  BY <1>1, <1>2, <1>3, <1>4, <1>5 DEF all

(* A batch chained to the tip leaves the table intact, and its own tip is  *)
(* the new one; a batch chained to another hash breaks it at its first row.*)
LEMMA ChainedToTip ==
    ASSUME NEW rs \in Seq(Row), NEW prev \in Hash, NEW v \in Seq(Event), v # <<>>
    PROVE  LET all == rs \o Chained(prev, v) IN
           /\ Chained(prev, v) \in Seq(Row)
           /\ Tip(all) = Tip(Chained(prev, v))
           /\ Tip(all) = prev \o v
           /\ Len(Tip(all)) > Len(prev)
           /\ Intact(rs) /\ prev = Tip(rs) => Intact(all)
           /\ Intact(rs) /\ prev # Tip(rs) => BreaksAt(all, Len(rs) + 1)
<1> DEFINE new == Chained(prev, v)
           all == rs \o new
           hash(i) == prev \o SubSeq(v, 1, i)
<1>1. /\ new \in Seq(Row) /\ Len(new) = Len(v) /\ Len(v) \in Nat \ {0} /\ Len(rs) \in Nat
      /\ \A i \in 1 .. Len(v) :
           /\ new[i].event = v[i]
           /\ new[i].prev = hash(i - 1)
           /\ new[i].hash = hash(i)
           /\ RowHash(new[i].prev, v[i]) = hash(i)
  BY ChainedShape, EmptySeq
<1>2. /\ hash(0) = prev /\ hash(Len(v)) = prev \o v
      /\ Len(prev \o v) = Len(prev) + Len(v) /\ Len(prev) \in Nat
  <2>1. SubSeq(v, 1, 0) = <<>>
    BY SubSeqEmpty
  <2>2. SubSeq(v, 1, Len(v)) = v
    BY SubSeqFull
  <2>3. prev \o <<>> = prev
    BY ConcatEmptySeq DEF Hash
  <2>4. Len(prev \o v) = Len(prev) + Len(v) /\ Len(prev) \in Nat
    BY DEF Hash
  <2> QED  BY <2>1, <2>2, <2>3, <2>4
<1> HIDE DEF new, hash
<1>3. /\ all \in Seq(Row) /\ Len(all) = Len(rs) + Len(new)
      /\ \A i \in DOMAIN rs : all[i] = rs[i] /\ (Broken(all, i) <=> Broken(rs, i))
      /\ \A i \in 1 .. Len(new) :
           /\ Len(rs) + i \in DOMAIN all
           /\ all[Len(rs) + i] = new[i]
           /\ Before(all, Len(rs) + i) = IF i = 1 THEN Tip(rs) ELSE Before(new, i)
  BY <1>1, Grows
<1> HIDE DEF all
<1>9. DOMAIN all = 1 .. Len(all) /\ DOMAIN rs = 1 .. Len(rs)
  BY <1>3, LenProperties
<1>4. Tip(new) = prev \o v /\ Tip(all) = prev \o v
  <2>1. new # <<>> /\ all # <<>>
    BY <1>1, <1>3, EmptySeq
  <2>2. new[Len(new)].hash = prev \o v
    <3>1. Len(v) \in 1 .. Len(v)
      BY <1>1
    <3>2. new[Len(v)].hash = hash(Len(v))
      BY <3>1, <1>1
    <3> QED  BY <3>2, <1>1, <1>2
  <2>3. all[Len(all)] = new[Len(new)]
    BY <1>1, <1>3
  <2> QED  BY <2>1, <2>2, <2>3 DEF Tip
<1>5. ASSUME NEW i \in 1 .. Len(v)
      PROVE  Broken(all, Len(rs) + i) <=> i = 1 /\ prev # Tip(rs)
  <2> DEFINE k == Len(rs) + i
  <2>1. /\ all[k] = new[i] /\ k \in DOMAIN all
        /\ Before(all, k) = IF i = 1 THEN Tip(rs) ELSE Before(new, i)
        /\ new[i].prev = hash(i - 1)
        /\ new[i].hash = RowHash(new[i].prev, new[i].event)
    BY <1>1, <1>3
  <2>2. i # 1 => Before(new, i) = hash(i - 1)
    <3>1. SUFFICES ASSUME i # 1 PROVE new[i - 1].hash = hash(i - 1)
      BY DEF Before
    <3>2. i - 1 \in 1 .. Len(v)
      BY <3>1, <1>1
    <3> QED  BY <3>2, <1>1
  <2>3. i = 1 => new[i].prev = prev
    <3>1. 1 - 1 = 0
      OBVIOUS
    <3> QED  BY <2>1, <3>1, <1>2
  <2> HIDE DEF k
  <2>4. Broken(all, k) <=> \/ all[k].prev # Before(all, k)
                          \/ all[k].hash # RowHash(all[k].prev, all[k].event)
    BY <2>1, <1>3, BrokenIs
  <2> QED  BY <2>1, <2>2, <2>3, <2>4 DEF k
<1>6. ASSUME NEW j \in DOMAIN all, j \notin DOMAIN rs
      PROVE  j - Len(rs) \in 1 .. Len(v) /\ j = Len(rs) + (j - Len(rs))
  BY <1>1, <1>3, <1>9, <1>6
<1>7. Intact(rs) /\ prev = Tip(rs) => Intact(all)
  BY <1>3, <1>5, <1>6 DEF Intact
<1>8. Intact(rs) /\ prev # Tip(rs) => BreaksAt(all, Len(rs) + 1)
  <2>1. 1 \in 1 .. Len(v) /\ Len(rs) + 1 \in DOMAIN all
    BY <1>1, <1>3
  <2>2. \A j \in DOMAIN all : j < Len(rs) + 1 => j \in DOMAIN rs
    BY <1>1, <1>9
  <2> QED  BY <2>1, <2>2, <1>3, <1>5 DEF Intact, BreaksAt
<1> QED  BY <1>1, <1>2, <1>4, <1>7, <1>8 DEF all, new

LEMMA FirstBrokenIs ==
    ASSUME NEW rs \in Seq(Row)
    PROVE  /\ Intact(rs) => FirstBroken(rs) = 0
           /\ \A i \in DOMAIN rs : BreaksAt(rs, i) => FirstBroken(rs) = i /\ i # 0
<1> DEFINE broken == {i \in DOMAIN rs : Broken(rs, i)}
<1>1. FirstBroken(rs) = IF broken = {} THEN 0
                        ELSE CHOOSE i \in broken : \A j \in broken : i <= j
  BY DEF FirstBroken
<1>2. Intact(rs) => broken = {}
  BY DEF Intact
<1>3. ASSUME NEW i \in DOMAIN rs, BreaksAt(rs, i)
      PROVE  FirstBroken(rs) = i /\ i # 0
  <2>1. /\ i \in broken /\ \A j \in broken : i <= j
        /\ broken \subseteq Nat /\ i # 0
    BY <1>3 DEF BreaksAt
  <2> HIDE DEF broken
  <2>2. \A k \in broken : (\A j \in broken : k <= j) => k = i
    BY <2>1
  <2> QED  BY <2>1, <2>2, <1>1
<1> QED  BY <1>1, <1>2, <1>3

-----------------------------------------------------------------------------
(* Who holds which events.                                                 *)

LEMMA EventsOfNone == EventsIn(<<>>) = {} /\ Distinct(<<>>)
BY DEF EventsIn, Distinct

LEMMA EventsOfOne ==
    ASSUME NEW S, NEW e \in S
    PROVE  EventsIn(<<e>>) = {e} /\ Distinct(<<e>>) /\ <<e>> \in Seq(S) /\ <<e>> # <<>>
<1>1. DOMAIN <<e>> = {1} /\ <<e>>[1] = e
  OBVIOUS
<1> QED  BY <1>1 DEF EventsIn, Distinct

LEMMA EventsOfConcat ==
    ASSUME NEW S, NEW s \in Seq(S), NEW v \in Seq(S)
    PROVE  /\ s \o v \in Seq(S)
           /\ EventsIn(s \o v) = EventsIn(s) \cup EventsIn(v)
           /\ Distinct(s) /\ Distinct(v) /\ EventsIn(s) \cap EventsIn(v) = {} => Distinct(s \o v)
<1> DEFINE b == s \o v
<1>1. /\ b \in Seq(S) /\ Len(b) = Len(s) + Len(v)
      /\ \A i \in 1 .. Len(s) + Len(v) :
           b[i] = IF i <= Len(s) THEN s[i] ELSE v[i - Len(s)]
  BY ConcatProperties
<1>2. /\ DOMAIN b = 1 .. Len(s) + Len(v)
      /\ DOMAIN s = 1 .. Len(s) /\ DOMAIN v = 1 .. Len(v)
      /\ Len(s) \in Nat /\ Len(v) \in Nat
  BY <1>1, LenProperties
<1> HIDE DEF b
<1>3. ASSUME NEW i \in DOMAIN b
      PROVE  \/ i \in DOMAIN s /\ b[i] = s[i]
             \/ i \notin DOMAIN s /\ i - Len(s) \in DOMAIN v /\ b[i] = v[i - Len(s)]
  BY <1>1, <1>2
<1>4. ASSUME NEW i \in DOMAIN s
      PROVE  i \in DOMAIN b /\ b[i] = s[i]
  BY <1>1, <1>2
<1>5. ASSUME NEW i \in DOMAIN v
      PROVE  Len(s) + i \in DOMAIN b /\ b[Len(s) + i] = v[i]
  <2>1. Len(s) + i \in 1 .. Len(s) + Len(v) /\ ~(Len(s) + i <= Len(s))
        /\ (Len(s) + i) - Len(s) = i
    BY <1>2
  <2> QED  BY <2>1, <1>1, <1>2
<1>6. EventsIn(b) = EventsIn(s) \cup EventsIn(v)
  BY <1>3, <1>4, <1>5 DEF EventsIn
<1>7. ASSUME Distinct(s), Distinct(v), EventsIn(s) \cap EventsIn(v) = {},
             NEW i \in DOMAIN b, NEW j \in DOMAIN b, b[i] = b[j]
      PROVE  i = j
  <2>1. CASE i \in DOMAIN s /\ j \in DOMAIN s
    BY <1>3, <1>7, <2>1 DEF Distinct
  <2>2. CASE i \notin DOMAIN s /\ j \notin DOMAIN s
    <3>1. v[i - Len(s)] = v[j - Len(s)] /\ i - Len(s) \in DOMAIN v /\ j - Len(s) \in DOMAIN v
      BY <1>3, <1>7, <2>2
    <3>2. i - Len(s) = j - Len(s)
      BY <3>1, <1>7 DEF Distinct
    <3> QED  BY <3>2, <1>2
  <2>3. CASE i \in DOMAIN s /\ j \notin DOMAIN s
    BY <1>3, <1>7, <2>3 DEF EventsIn
  <2>4. CASE i \notin DOMAIN s /\ j \in DOMAIN s
    BY <1>3, <1>7, <2>4 DEF EventsIn
  <2> QED  BY <2>1, <2>2, <2>3, <2>4
<1> QED  BY <1>1, <1>6, <1>7 DEF Distinct, b

LEMMA LogOfRows ==
    ASSUME NEW rs \in Seq(Row)
    PROVE  /\ LogOf(rs) \in Seq(Event)
           /\ Len(LogOf(rs)) = Len(rs)
           /\ \A i \in 1 .. Len(rs) : LogOf(rs)[i] = rs[i].event
           /\ EventsIn(LogOf(rs)) = {rs[i].event : i \in DOMAIN rs}
<1>1. /\ Len(rs) \in Nat /\ DOMAIN rs = 1 .. Len(rs)
      /\ \A i \in 1 .. Len(rs) : rs[i].event \in Event
  <2>1. Len(rs) \in Nat /\ DOMAIN rs = 1 .. Len(rs)
    BY LenProperties
  <2>2. \A i \in 1 .. Len(rs) : rs[i] \in Row
    BY ElementOfSeq
  <2> QED  BY <2>1, <2>2 DEF Row
<1>2. LogOf(rs) \in [1 .. Len(rs) -> Event]
  BY <1>1 DEF LogOf
<1>3. LogOf(rs) \in Seq(Event) /\ Len(LogOf(rs)) = Len(rs) /\ DOMAIN LogOf(rs) = 1 .. Len(rs)
  BY <1>1, <1>2, FunctionIsSeq
<1>4. \A i \in 1 .. Len(rs) : LogOf(rs)[i] = rs[i].event
  BY <1>1 DEF LogOf
<1> QED  BY <1>1, <1>3, <1>4 DEF EventsIn

LEMMA LogOfCommit ==
    ASSUME NEW rs \in Seq(Row), NEW prev \in Hash, NEW v \in Seq(Event)
    PROVE  LogOf(rs \o Chained(prev, v)) = LogOf(rs) \o v
<1> DEFINE new == Chained(prev, v)
           all == rs \o new
<1>1. /\ new \in Seq(Row) /\ Len(new) = Len(v)
      /\ \A i \in 1 .. Len(v) : new[i].event = v[i]
  BY ChainedShape
<1> HIDE DEF new
<1>2. /\ all \in Seq(Row) /\ Len(all) = Len(rs) + Len(new)
      /\ \A i \in 1 .. Len(rs) + Len(new) :
           all[i] = IF i <= Len(rs) THEN rs[i] ELSE new[i - Len(rs)]
  BY <1>1, ConcatProperties
<1> HIDE DEF all
<1>3. /\ LogOf(rs) \in Seq(Event) /\ Len(LogOf(rs)) = Len(rs)
      /\ \A i \in 1 .. Len(rs) : LogOf(rs)[i] = rs[i].event
  BY LogOfRows
<1>4. /\ LogOf(all) \in Seq(Event) /\ Len(LogOf(all)) = Len(rs) + Len(v)
      /\ \A i \in 1 .. Len(rs) + Len(v) : LogOf(all)[i] = all[i].event
  BY <1>1, <1>2, LogOfRows
<1>5. /\ LogOf(rs) \o v \in Seq(Event) /\ Len(LogOf(rs) \o v) = Len(rs) + Len(v)
      /\ \A i \in 1 .. Len(rs) + Len(v) :
           (LogOf(rs) \o v)[i] = IF i <= Len(rs) THEN LogOf(rs)[i] ELSE v[i - Len(rs)]
  <2> DEFINE l == LogOf(rs)
  <2>1. l \in Seq(Event) /\ Len(l) = Len(rs)
    BY <1>3
  <2> HIDE DEF l
  <2>2. /\ l \o v \in Seq(Event) /\ Len(l \o v) = Len(l) + Len(v)
        /\ \A i \in 1 .. Len(l) + Len(v) :
             (l \o v)[i] = IF i <= Len(l) THEN l[i] ELSE v[i - Len(l)]
    BY <2>1, ConcatProperties
  <2> QED  BY <2>1, <2>2 DEF l
<1> DEFINE a == LogOf(all)
           b == LogOf(rs) \o v
<1>6. ASSUME NEW i \in 1 .. Len(rs) + Len(v)
      PROVE  a[i] = b[i]
  <2>1. Len(rs) \in Nat /\ Len(v) \in Nat
    OBVIOUS
  <2>2. CASE i <= Len(rs)
    <3>1. i \in 1 .. Len(rs)
      BY <2>1, <2>2
    <3>2. a[i] = rs[i].event
      BY <2>1, <3>1, <1>1, <1>2, <1>4
    <3>3. b[i] = rs[i].event
      BY <2>1, <3>1, <1>3, <1>5
    <3> QED  BY <3>2, <3>3
  <2>3. CASE ~(i <= Len(rs))
    <3>1. i - Len(rs) \in 1 .. Len(v)
      BY <2>1, <2>3
    <3> QED  BY <3>1, <2>3, <1>1, <1>2, <1>4, <1>5
  <2> QED  BY <2>2, <2>3
<1>7. a = b
  <2>1. a \in Seq(Event) /\ b \in Seq(Event) /\ Len(a) = Len(rs) + Len(v) /\ Len(b) = Len(rs) + Len(v)
    BY <1>4, <1>5
  <2> HIDE DEF a, b
  <2>2. \A i \in 1 .. Len(a) : a[i] = b[i]
    BY <1>6, <2>1
  <2> QED  BY <2>1, <2>2, SeqEqual
<1> QED  BY <1>7 DEF all, new

-----------------------------------------------------------------------------
(* The parts of the invariant that many steps leave alone.                 *)

LEMMA ThreadsFinite ==
    ASSUME NEW P \in [Thread -> Label], NEW l
    PROVE  IsFiniteSet({t \in Thread : P[t] = l})
<1>1. IsFiniteSet(Worker)
  BY AuditAssumption
<1>2. IsFiniteSet(Thread)
  BY <1>1, FS_AddElement DEF Thread
<1> QED  BY <1>2, FS_Subset

Committing == {t \in Thread : pc[t] = "commit"}

Counted ==
    /\ Free = PoolSize - Cardinality(holds) - Cardinality(Committing)
    /\ IsFiniteSet(holds) /\ IsFiniteSet(Committing)
    /\ Cardinality(holds) \in Nat /\ Cardinality(Committing) \in Nat
    /\ PoolSize \in Nat

LEMMA FreeIs == TypesOK => Counted
<1> SUFFICES ASSUME TypesOK PROVE Counted
  OBVIOUS
<1>1. IsFiniteSet(holds)
  <2>1. IsFiniteSet(Worker) /\ holds \subseteq Worker
    BY AuditAssumption DEF TypesOK
  <2> QED  BY <2>1, FS_Subset
<1>2. IsFiniteSet(Committing)
  BY ThreadsFinite DEF Committing, TypesOK
<1> QED  BY <1>1, <1>2, FS_CardinalityType, AuditAssumption DEF Free, Committing, Counted

(* Nobody takes a connection.                                              *)
LEMMA FreeKept ==
    ASSUME TypesOK, TypesOK', Free >= 0, holds' \subseteq holds,
           \A t \in Thread : pc'[t] = "commit" => pc[t] = "commit"
    PROVE  Free' >= 0
<1>1. Committing' \subseteq Committing
  BY DEF Committing
<1>2. Counted
  BY FreeIs
<1>3. Counted'
  <2>1. TypesOK' => Counted'
    BY FreeIs, PTL
  <2> QED  BY <2>1
<1>4. Cardinality(holds') <= Cardinality(holds)
      /\ Cardinality(Committing') <= Cardinality(Committing)
  BY <1>1, <1>2, FS_Subset DEF Counted
<1> QED  BY <1>2, <1>3, <1>4 DEF Counted

(* Nobody enters _write_batch.                                             *)
LEMMA LockKept ==
    ASSUME LockOK, \A t \in Thread : Writing(t)' => Writing(t)
    PROVE  LockOK'
BY DEF LockOK

(* The events stay where they are.                                         *)
LEMMA OnceKept ==
    ASSUME OnceOK, rows' = rows, buffer' = buffer, batch' = batch, issued \subseteq issued'
    PROVE  OnceOK' /\ Written' = Written /\ Volatile' = Volatile
BY DEF OnceOK, Written, Volatile, Apart

LEMMA ChainKept ==
    ASSUME ChainOK, rows' = rows, tail' = tail, fork' = fork
    PROVE  ChainOK'
BY DEF ChainOK

(* What has settled stays so, and what is accepted now is settled.         *)
Settled == Written \cup Volatile \cup lost

LEMMA AcceptedKept ==
    ASSUME AcceptedIsKept, Written \subseteq Written', Settled \subseteq Settled',
           \A e \in told' \ told : e \in Sync => e \in Written',
           \A e \in told' \ told : e \in Buffered => e \in Settled'
    PROVE  AcceptedIsKept'
<1>1. SyncIsDurable'
  BY DEF AcceptedIsKept, SyncIsDurable
<1>2. NothingVanishes'
  <2>1. NothingVanishes <=> told \cap Buffered \subseteq Settled
    BY DEF NothingVanishes, Settled
  <2>2. NothingVanishes' <=> told' \cap Buffered \subseteq Settled'
    BY DEF NothingVanishes, Settled
  <2> QED  BY <2>1, <2>2 DEF AcceptedIsKept
<1> QED  BY <1>1, <1>2 DEF AcceptedIsKept

(* A thread is out of the logger, and what it had is no longer in memory.  *)
LEMMA Dropped ==
    ASSUME TypesOK, OnceOK, NEW t \in Thread, buffer' = buffer,
           batch' = [batch EXCEPT ![t] = <<>>]
    PROVE  /\ Volatile' = Volatile \ EventsIn(batch[t])
           /\ EventsIn(batch[t]) \subseteq Volatile
           /\ Distinct(buffer)'
           /\ \A u \in Thread :
                /\ Distinct(batch[u])'
                /\ (EventsIn(batch[u]) \cap EventsIn(buffer) = {})'
           /\ \A u, v \in Thread : u # v => Apart(u, v)'
<1>1. /\ batch'[t] = <<>>
      /\ \A u \in Thread \ {t} : batch'[u] = batch[u]
  BY DEF TypesOK
<1>2. EventsIn(batch'[t]) = {} /\ Distinct(batch'[t])
  BY <1>1, EventsOfNone
<1>3. /\ Volatile = EventsIn(buffer) \cup UNION {EventsIn(batch[u]) : u \in Thread}
      /\ Volatile' = EventsIn(buffer) \cup UNION {EventsIn(batch'[u]) : u \in Thread}
  BY DEF Volatile
<1>4. /\ EventsIn(batch[t]) \cap EventsIn(buffer) = {}
      /\ \A u \in Thread \ {t} : EventsIn(batch[u]) \cap EventsIn(batch[t]) = {}
  BY DEF OnceOK, Apart
<1>5. Volatile' = Volatile \ EventsIn(batch[t])
  <2>1. \A e : e \in Volatile' <=> \/ e \in EventsIn(buffer)
                                   \/ \E u \in Thread \ {t} : e \in EventsIn(batch[u])
    BY <1>1, <1>2, <1>3
  <2>2. \A e : e \in Volatile <=> \/ e \in EventsIn(buffer) \/ e \in EventsIn(batch[t])
                                  \/ \E u \in Thread \ {t} : e \in EventsIn(batch[u])
    BY <1>3
  <2>3. \A e : e \in Volatile' <=> e \in Volatile /\ e \notin EventsIn(batch[t])
    BY <2>1, <2>2, <1>4
  <2> QED  BY <2>3
<1>6. EventsIn(batch[t]) \subseteq Volatile
  BY <1>3
<1>7. \A u \in Thread : Distinct(batch'[u]) /\ EventsIn(batch'[u]) \cap EventsIn(buffer) = {}
  BY <1>1, <1>2 DEF OnceOK
<1>8. \A u, v \in Thread : u # v => EventsIn(batch'[u]) \cap EventsIn(batch'[v]) = {}
  BY <1>1, <1>2 DEF OnceOK, Apart
<1>9. Distinct(buffer)'
  BY DEF OnceOK
<1>10. /\ \A u \in Thread :
            Distinct(batch[u])' /\ (EventsIn(batch[u]) \cap EventsIn(buffer) = {})'
       /\ \A u, v \in Thread : u # v => Apart(u, v)'
  BY <1>7, <1>8 DEF Apart
<1> QED  BY <1>5, <1>6, <1>9, <1>10

-----------------------------------------------------------------------------
(* Every step preserves the invariant.                                     *)

LEMMA InitInv == Init => IInv
<1> SUFFICES ASSUME Init
             PROVE  IInv
  OBVIOUS
<1>1. TypesOK
  BY EmptySeq DEF Init, TypesOK, Label, Hash, Genesis
<1>2. Free >= 0
  <2>1. holds = {} /\ Committing = {}
    BY DEF Init, Committing
  <2>2. Counted
    BY <1>1, FreeIs
  <2> QED  BY <2>1, <2>2, FS_EmptySet DEF Counted
<1>3. rows = <<>> /\ buffer = <<>> /\ \A t \in Thread : batch[t] = <<>>
  BY DEF Init
<1>4. Written = {} /\ Volatile = {}
  BY <1>3, EventsOfNone DEF Written, Volatile
<1>5. \A t \in Thread : HandOK(t)
  BY EventsOfNone DEF Init, HandOK
<1>6. LockOK
  BY DEF Init, LockOK, Writing
<1>7. OnceOK
  <2>1. LogOf(rows) = <<>>
    BY <1>3 DEF LogOf
  <2> QED  BY <1>3, <1>4, <2>1, EventsOfNone DEF OnceOK, Apart, Init
<1>8. ChainOK
  BY EmptySeq DEF Init, ChainOK, Intact, Tip
<1>9. AcceptedIsKept
  BY DEF Init, AcceptedIsKept, SyncIsDurable, NothingVanishes
<1> QED  BY <1>1, <1>2, <1>5, <1>6, <1>7, <1>8, <1>9 DEF IInv

(* The session of a request.                                               *)
LEMMA RequestInv ==
    ASSUME IInv, NEW w \in Worker, Query(w) \/ EndRequest(w)
    PROVE  IInv'
<1>1. UNCHANGED <<rows, buffer, tail, pc, batch, staged, issued, told, lost, fork>>
  BY DEF Query, EndRequest, work
<1>2. TypesOK'
  BY <1>1 DEF IInv, TypesOK, Query, EndRequest
<1>3. Free' >= 0
  <2>1. CASE Query(w)
    <3>1. Committing' = Committing
      BY <1>1 DEF Committing
    <3>2. Counted /\ Counted'
      <4>1. TypesOK' => Counted'
        BY FreeIs, PTL
      <4> QED  BY <1>2, <4>1, FreeIs DEF IInv
    <3>3. Cardinality(holds') = Cardinality(holds) + 1
      BY <2>1, <3>2, FS_AddElement DEF Query, Counted
    <3> QED  BY <2>1, <3>1, <3>2, <3>3 DEF Query, Counted
  <2>2. CASE EndRequest(w)
    BY <2>2, <1>1, <1>2, FreeKept DEF EndRequest, IInv
  <2> QED  BY <2>1, <2>2
<1>4. \A t \in Thread : HandOK(t)'
  BY <1>1 DEF IInv, HandOK
<1>5. LockOK'
  BY <1>1, LockKept DEF IInv, Writing
<1>6. OnceOK' /\ Written' = Written /\ Volatile' = Volatile
  BY <1>1, OnceKept DEF IInv
<1>7. ChainOK'
  BY <1>1, ChainKept DEF IInv
<1>8. AcceptedIsKept'
  BY <1>1, <1>6, AcceptedKept DEF IInv, Settled
<1> QED  BY <1>2, <1>3, <1>4, <1>5, <1>6, <1>7, <1>8 DEF IInv

(* A thread goes where nothing happens yet.                                *)
LEMMA GotoInv ==
    ASSUME IInv, NEW t \in Thread, Flush(t) \/ Acquire(t)
    PROVE  IInv'
<1>1. /\ UNCHANGED <<rows, buffer, tail, batch, staged, holds, issued, told, lost, fork>>
      /\ pc' = [pc EXCEPT ![t] = IF pc[t] = "idle" THEN "swap" ELSE "connect"]
      /\ pc[t] = "idle" \/ (pc[t] = "write" /\ ~Locked)
  BY DEF Flush, Acquire, Goto
<1>2. TypesOK'
  BY <1>1 DEF IInv, TypesOK, Label
<1>3. /\ pc'[t] = IF pc[t] = "idle" THEN "swap" ELSE "connect"
      /\ \A u \in Thread \ {t} : pc'[u] = pc[u]
  BY <1>1 DEF IInv, TypesOK
<1>4. Free' >= 0
  BY <1>1, <1>2, <1>3, FreeKept DEF IInv
<1>5. \A u \in Thread : HandOK(u)'
  BY <1>1, <1>3 DEF IInv, HandOK
<1>6. LockOK'
  BY <1>1, <1>3 DEF IInv, LockOK, Writing, Locked
<1>7. OnceOK' /\ Written' = Written /\ Volatile' = Volatile
  BY <1>1, OnceKept DEF IInv
<1>8. ChainOK'
  BY <1>1, ChainKept DEF IInv
<1>9. AcceptedIsKept'
  BY <1>1, <1>7, AcceptedKept DEF IInv, Settled
<1> QED  BY <1>2, <1>4, <1>5, <1>6, <1>7, <1>8, <1>9 DEF IInv

(* An event that was never seen is in one thread's hands.                  *)
LEMMA LogInv ==
    ASSUME IInv, NEW w \in Worker, Log(w)
    PROVE  /\ IInv'
           /\ rows' = rows
           /\ \E e \in Event \ (Written \cup Volatile) : Volatile' = Volatile \cup {e}
<1>1. PICK e \in Event \ issued :
        /\ pc[w] = "idle"
        /\ issued' = issued \cup {e}
        /\ batch' = [batch EXCEPT ![w] = <<e>>]
        /\ pc' = [pc EXCEPT ![w] = IF e \in Buffered THEN "append" ELSE "write"]
        /\ UNCHANGED <<rows, buffer, tail, staged, holds, told, lost, fork>>
  BY DEF Log, Take, Goto
<1>2. /\ w \in Thread /\ e \in Event /\ e \notin issued
      /\ EventsIn(<<e>>) = {e} /\ Distinct(<<e>>) /\ <<e>> \in Seq(Event) /\ <<e>> # <<>>
  BY <1>1, EventsOfOne DEF Thread
<1>3. TypesOK'
  BY <1>1, <1>2 DEF IInv, TypesOK, Label
<1>4. /\ batch'[w] = <<e>> /\ pc'[w] = IF e \in Buffered THEN "append" ELSE "write"
      /\ \A u \in Thread \ {w} : batch'[u] = batch[u] /\ pc'[u] = pc[u]
      /\ batch[w] = <<>>
  BY <1>1, <1>2 DEF IInv, TypesOK, HandOK
<1>5. Free' >= 0
  BY <1>1, <1>3, <1>4, FreeKept DEF IInv
<1>6. \A u \in Thread : HandOK(u)'
  BY <1>1, <1>2, <1>4 DEF IInv, HandOK
<1>7. LockOK'
  BY <1>4, LockKept DEF IInv, Writing
<1>8. Volatile' = Volatile \cup {e}
  <2>1. /\ Volatile = EventsIn(buffer) \cup UNION {EventsIn(batch[u]) : u \in Thread}
        /\ Volatile' = EventsIn(buffer) \cup UNION {EventsIn(batch'[u]) : u \in Thread}
    BY <1>1 DEF Volatile
  <2>2. EventsIn(batch'[w]) = {e} /\ EventsIn(batch[w]) = {}
    BY <1>2, <1>4, EventsOfNone
  <2> QED  BY <1>2, <1>4, <2>1, <2>2
<1>9. rows' = rows /\ Written' = Written
  BY <1>1 DEF Written
<1>10. e \notin Written \cup Volatile
  BY <1>2 DEF IInv, OnceOK
<1>11. OnceOK'
  <2>1. \A u \in Thread : EventsIn(batch[u]) \subseteq Volatile
    BY DEF Volatile
  <2>2. EventsIn(buffer) \subseteq Volatile
    BY DEF Volatile
  <2>3. EventsIn(batch'[w]) = {e} /\ Distinct(batch'[w])
    BY <1>2, <1>4
  <2>4. \A u \in Thread : Distinct(batch'[u]) /\ EventsIn(batch'[u]) \cap EventsIn(buffer) = {}
    BY <1>4, <1>10, <2>2, <2>3 DEF IInv, OnceOK
  <2>5. \A u, v \in Thread : u # v => EventsIn(batch'[u]) \cap EventsIn(batch'[v]) = {}
    BY <1>4, <1>10, <2>1, <2>3 DEF IInv, OnceOK, Apart
  <2>6. /\ Written' \cup Volatile' \subseteq issued'
        /\ Written' \cap Volatile' = {}
        /\ Distinct(LogOf(rows')) /\ Distinct(buffer')
    BY <1>1, <1>8, <1>9, <1>10 DEF IInv, OnceOK
  <2> QED  BY <1>1, <2>4, <2>5, <2>6 DEF OnceOK, Apart
<1>12. ChainOK'
  BY <1>1, ChainKept DEF IInv
<1>13. AcceptedIsKept'
  BY <1>1, <1>8, <1>9, AcceptedKept DEF IInv, Settled
<1> QED  BY <1>2, <1>3, <1>5, <1>6, <1>7, <1>8, <1>9, <1>10, <1>11, <1>12, <1>13 DEF IInv

-----------------------------------------------------------------------------
LEMMA SeqNarrow ==
    ASSUME NEW S, NEW T, NEW s \in Seq(S), EventsIn(s) \subseteq T
    PROVE  s \in Seq(T)
<1>1. Len(s) \in Nat /\ s \in [1 .. Len(s) -> S]
  BY LenProperties
<1>2. s \in [1 .. Len(s) -> T]
  BY <1>1 DEF EventsIn
<1> QED  BY <1>1, <1>2, FunctionIsSeq

LEMMA BufferOfEvents ==
    ASSUME TypesOK
    PROVE  buffer \in Seq(Event) /\ Buffered \subseteq Event /\ EventsIn(buffer) \subseteq Buffered
<1>1. Buffered \subseteq Event /\ buffer \in Seq(Buffered)
  BY DEF Event, TypesOK
<1> QED  BY <1>1, SeqMonotonic, ElementOfSeq, LenProperties DEF EventsIn

(* The buffer takes the event of a thread.                                 *)
LEMMA EnqueueInv ==
    ASSUME IInv, NEW w \in Worker, Enqueue(w)
    PROVE  IInv' /\ rows' = rows /\ Volatile' = Volatile
<1>1. /\ pc[w] = "append" /\ ~Locked
      /\ buffer' = buffer \o batch[w]
      /\ batch' = [batch EXCEPT ![w] = <<>>]
      /\ told \subseteq told' /\ told' \subseteq told \cup EventsIn(batch[w])
      /\ pc' = [pc EXCEPT ![w] = IF Len(buffer') >= MaxBuffer THEN "swap" ELSE "idle"]
      /\ UNCHANGED <<rows, tail, staged, holds, issued, lost, fork>>
  BY DEF Enqueue, Take, Goto
<1>2. /\ w \in Thread
      /\ EventsIn(batch[w]) \subseteq Buffered
      /\ batch[w] \in Seq(Event) /\ batch[w] \in Seq(Buffered)
      /\ buffer \in Seq(Buffered)
  <2>1. w \in Thread
    BY DEF Thread
  <2>2. EventsIn(batch[w]) \subseteq Buffered /\ batch[w] \in Seq(Event)
    BY <1>1, <2>1 DEF IInv, HandOK, TypesOK
  <2> QED  BY <2>1, <2>2, SeqNarrow DEF IInv, TypesOK
<1>3. /\ buffer' \in Seq(Buffered)
      /\ EventsIn(buffer') = EventsIn(buffer) \cup EventsIn(batch[w])
      /\ Distinct(buffer')
  <2>1. EventsIn(buffer) \cap EventsIn(batch[w]) = {} /\ Distinct(buffer) /\ Distinct(batch[w])
    BY <1>2 DEF IInv, OnceOK
  <2> QED  BY <2>1, <1>1, <1>2, EventsOfConcat
<1>4. EventsIn(batch[w]) \subseteq Volatile /\ Volatile \subseteq issued
  BY <1>2 DEF Volatile, IInv, OnceOK
<1>5. TypesOK'
  <2>1. /\ <<>> \in Seq(Event) /\ told' \subseteq issued'
    BY <1>1, <1>4, EmptySeq DEF IInv, TypesOK
  <2> QED  BY <1>1, <1>2, <1>3, <2>1 DEF IInv, TypesOK, Label
<1>6. /\ batch'[w] = <<>> /\ pc'[w] \in {"idle", "swap"}
      /\ \A u \in Thread \ {w} : batch'[u] = batch[u] /\ pc'[u] = pc[u]
  BY <1>1, <1>2 DEF IInv, TypesOK
<1>7. Free' >= 0
  BY <1>1, <1>5, <1>6, FreeKept DEF IInv
<1>8. \A u \in Thread : HandOK(u)'
  BY <1>1, <1>2, <1>6 DEF IInv, HandOK
<1>9. LockOK'
  BY <1>6, LockKept DEF IInv, Writing
<1>10. Volatile' = Volatile
  <2>1. /\ Volatile = EventsIn(buffer) \cup UNION {EventsIn(batch[u]) : u \in Thread}
        /\ Volatile' = EventsIn(buffer') \cup UNION {EventsIn(batch'[u]) : u \in Thread}
    BY DEF Volatile
  <2>2. EventsIn(batch'[w]) = {}
    BY <1>6, EventsOfNone
  <2> QED  BY <1>2, <1>3, <1>6, <2>1, <2>2
<1>11. rows' = rows /\ Written' = Written
  BY <1>1 DEF Written
<1>12. OnceOK'
  <2>1. EventsIn(batch'[w]) = {} /\ Distinct(batch'[w])
    BY <1>6, EventsOfNone
  <2>2. \A u \in Thread : Distinct(batch'[u]) /\ EventsIn(batch'[u]) \cap EventsIn(buffer') = {}
    <3>1. \A u \in Thread \ {w} : /\ EventsIn(batch[u]) \cap EventsIn(buffer) = {}
                                  /\ EventsIn(batch[u]) \cap EventsIn(batch[w]) = {}
                                  /\ Distinct(batch[u])
      BY <1>2 DEF IInv, OnceOK, Apart
    <3> QED  BY <3>1, <2>1, <1>3, <1>6
  <2>3. \A u, v \in Thread : u # v => EventsIn(batch'[u]) \cap EventsIn(batch'[v]) = {}
    BY <1>6, <2>1 DEF IInv, OnceOK, Apart
  <2>4. /\ Written' \cup Volatile' \subseteq issued'
        /\ Written' \cap Volatile' = {}
        /\ Distinct(LogOf(rows')) /\ Distinct(buffer')
    BY <1>1, <1>3, <1>10, <1>11 DEF IInv, OnceOK
  <2> QED  BY <2>2, <2>3, <2>4 DEF OnceOK, Apart
<1>13. ChainOK'
  BY <1>1, ChainKept DEF IInv
<1>14. AcceptedIsKept'
  <2>1. \A e \in told' \ told : e \notin Sync /\ e \in Volatile
    BY <1>1, <1>2, <1>4, AuditAssumption
  <2> QED  BY <2>1, <1>1, <1>10, <1>11, AcceptedKept DEF IInv, Settled
<1> QED  BY <1>5, <1>7, <1>8, <1>9, <1>10, <1>11, <1>12, <1>13, <1>14 DEF IInv

(* A thread takes the buffer.                                              *)
LEMMA SwapInv ==
    ASSUME IInv, NEW t \in Thread, Swap(t)
    PROVE  IInv' /\ rows' = rows /\ Volatile' = Volatile
<1>1. /\ pc[t] = "swap" /\ ~Locked
      /\ buffer' = <<>>
      /\ batch' = [batch EXCEPT ![t] = buffer]
      /\ pc' = [pc EXCEPT ![t] = IF buffer = <<>> THEN "idle" ELSE "write"]
      /\ UNCHANGED <<rows, tail, staged, holds, issued, told, lost, fork>>
  BY DEF Swap, Take, Goto
<1>2. /\ buffer \in Seq(Event) /\ batch[t] = <<>>
      /\ <<>> \in Seq(Buffered)
      /\ EventsIn(buffer') = {} /\ Distinct(buffer') /\ EventsIn(batch[t]) = {}
  BY <1>1, BufferOfEvents, EventsOfNone, EmptySeq DEF IInv, HandOK
<1>3. TypesOK'
  BY <1>1, <1>2 DEF IInv, TypesOK, Label
<1>4. /\ batch'[t] = buffer /\ pc'[t] = IF buffer = <<>> THEN "idle" ELSE "write"
      /\ \A u \in Thread \ {t} : batch'[u] = batch[u] /\ pc'[u] = pc[u]
  BY <1>1 DEF IInv, TypesOK
<1>5. Free' >= 0
  BY <1>1, <1>3, <1>4, FreeKept DEF IInv
<1>6. \A u \in Thread : HandOK(u)'
  BY <1>1, <1>4 DEF IInv, HandOK
<1>7. LockOK'
  BY <1>4, LockKept DEF IInv, Writing
<1>8. Volatile' = Volatile
  <2>1. /\ Volatile = EventsIn(buffer) \cup UNION {EventsIn(batch[u]) : u \in Thread}
        /\ Volatile' = EventsIn(buffer') \cup UNION {EventsIn(batch'[u]) : u \in Thread}
    BY DEF Volatile
  <2> QED  BY <1>2, <1>4, <2>1
<1>9. rows' = rows /\ Written' = Written
  BY <1>1 DEF Written
<1>10. OnceOK'
  <2>1. \A u \in Thread : Distinct(batch'[u]) /\ EventsIn(batch'[u]) \cap EventsIn(buffer') = {}
    BY <1>2, <1>4 DEF IInv, OnceOK
  <2>2. \A u, v \in Thread : u # v => EventsIn(batch'[u]) \cap EventsIn(batch'[v]) = {}
    <3>1. \A u \in Thread : EventsIn(batch[u]) \cap EventsIn(buffer) = {}
      BY DEF IInv, OnceOK
    <3> QED  BY <3>1, <1>4 DEF IInv, OnceOK, Apart
  <2>3. /\ Written' \cup Volatile' \subseteq issued'
        /\ Written' \cap Volatile' = {}
        /\ Distinct(LogOf(rows')) /\ Distinct(buffer')
    BY <1>1, <1>2, <1>8, <1>9 DEF IInv, OnceOK
  <2> QED  BY <2>1, <2>2, <2>3 DEF OnceOK, Apart
<1>11. ChainOK'
  BY <1>1, ChainKept DEF IInv
<1>12. AcceptedIsKept'
  BY <1>1, <1>8, <1>9, AcceptedKept DEF IInv, Settled
<1> QED  BY <1>3, <1>5, <1>6, <1>7, <1>8, <1>9, <1>10, <1>11, <1>12 DEF IInv

(* The rows of a batch are chained to the tail and staged.                 *)
LEMMA ConnectInv ==
    ASSUME IInv, NEW t \in Thread, Connect(t)
    PROVE  IInv' /\ rows' = rows /\ Volatile' = Volatile
<1>1. /\ pc[t] = "connect" /\ Free > 0
      /\ tail' = IF tail = None THEN Tip(rows) ELSE tail
      /\ staged' = [staged EXCEPT ![t] = Chained(tail', batch[t])]
      /\ pc' = [pc EXCEPT ![t] = "commit"]
      /\ UNCHANGED <<rows, buffer, batch, holds, issued, told, lost, fork>>
  BY DEF Connect, Goto
<1>2. tail' \in Hash /\ tail' # None
  <2>1. Tip(rows) \in Hash
    BY TipIs DEF IInv, TypesOK
  <2> QED  BY <1>1, <2>1, AuditAssumption DEF IInv, TypesOK, Hash
<1>3. Chained(tail', batch[t]) \in Seq(Row)
  BY <1>2, ChainedShape DEF IInv, TypesOK
<1>4. TypesOK'
  BY <1>1, <1>2, <1>3 DEF IInv, TypesOK, Label
<1>5. /\ pc'[t] = "commit" /\ staged'[t] = Chained(tail', batch[t])
      /\ \A u \in Thread \ {t} : pc'[u] = pc[u] /\ staged'[u] = staged[u]
  BY <1>1 DEF IInv, TypesOK
<1>6. \A u \in Thread \ {t} : ~Writing(u)
  BY <1>1 DEF IInv, LockOK, Writing
<1>7. Free' >= 0
  <2>1. Committing' = Committing \cup {t} /\ t \notin Committing
    BY <1>1, <1>5 DEF Committing
  <2>2. Counted /\ Counted'
    <3>1. TypesOK' => Counted'
      BY FreeIs, PTL
    <3> QED  BY <1>4, <3>1, FreeIs DEF IInv
  <2>3. Cardinality(Committing') = Cardinality(Committing) + 1
    BY <2>1, <2>2, FS_AddElement DEF Counted
  <2> QED  BY <1>1, <2>2, <2>3 DEF Counted
<1>8. \A u \in Thread : HandOK(u)'
  BY <1>1, <1>2, <1>5, <1>6 DEF IInv, HandOK, Writing
<1>9. LockOK'
  BY <1>1, <1>5, LockKept DEF IInv, Writing
<1>10. OnceOK' /\ Written' = Written /\ Volatile' = Volatile
  BY <1>1, OnceKept DEF IInv
<1>11. ChainOK'
  BY <1>1, <1>2 DEF IInv, ChainOK
<1>12. AcceptedIsKept'
  BY <1>1, <1>10, AcceptedKept DEF IInv, Settled
<1> QED  BY <1>1, <1>4, <1>7, <1>8, <1>9, <1>10, <1>11, <1>12 DEF IInv

(* A batch is dropped.                                                     *)
LEMMA FailInv ==
    ASSUME IInv, NEW t \in Thread, pc[t] \in {"connect", "commit"}, Fail(t)
    PROVE  IInv' /\ rows' = rows /\ Volatile' = Volatile \ EventsIn(batch[t])
<1>1. /\ lost' = lost \cup EventsIn(batch[t])
      /\ batch' = [batch EXCEPT ![t] = <<>>]
      /\ staged' = [staged EXCEPT ![t] = <<>>]
      /\ pc' = [pc EXCEPT ![t] = "idle"]
      /\ UNCHANGED <<rows, buffer, tail, holds, issued, told, fork>>
  BY DEF Fail, Leave, Take, Goto
<1>2. /\ Volatile' = Volatile \ EventsIn(batch[t])
      /\ EventsIn(batch[t]) \subseteq Volatile
      /\ Distinct(buffer)'
      /\ \A u \in Thread : Distinct(batch[u])' /\ (EventsIn(batch[u]) \cap EventsIn(buffer) = {})'
      /\ \A u, v \in Thread : u # v => Apart(u, v)'
  BY <1>1, Dropped DEF IInv
<1>3. TypesOK'
  <2>1. EventsIn(batch[t]) \subseteq issued
    BY <1>2 DEF IInv, OnceOK
  <2> QED  BY <2>1, <1>1, EmptySeq DEF IInv, TypesOK, Label
<1>4. /\ pc'[t] = "idle" /\ staged'[t] = <<>> /\ batch'[t] = <<>>
      /\ \A u \in Thread \ {t} : pc'[u] = pc[u] /\ staged'[u] = staged[u] /\ batch'[u] = batch[u]
  BY <1>1 DEF IInv, TypesOK
<1>5. Free' >= 0
  BY <1>1, <1>3, <1>4, FreeKept DEF IInv
<1>6. \A u \in Thread : HandOK(u)'
  BY <1>1, <1>4 DEF IInv, HandOK
<1>7. LockOK'
  BY <1>4, LockKept DEF IInv, Writing
<1>8. rows' = rows /\ Written' = Written
  BY <1>1 DEF Written
<1>9. OnceOK'
  <2>1. /\ Written' \cup Volatile' \subseteq issued'
        /\ Written' \cap Volatile' = {}
        /\ Distinct(LogOf(rows'))
    BY <1>1, <1>2, <1>8 DEF IInv, OnceOK
  <2> QED  BY <1>2, <2>1 DEF OnceOK
<1>10. ChainOK'
  BY <1>1, ChainKept DEF IInv
<1>11. AcceptedIsKept'
  BY <1>1, <1>2, <1>8, AcceptedKept DEF IInv, Settled
<1> QED  BY <1>2, <1>3, <1>5, <1>6, <1>7, <1>8, <1>9, <1>10, <1>11 DEF IInv

-----------------------------------------------------------------------------
(* The rows of a batch are in the table, whether the writer is told or not.*)
LEMMA CommitInv ==
    ASSUME IInv, NEW t \in Thread, Commit(t) \/ CommitLost(t)
    PROVE  /\ IInv'
           /\ LogOf(rows') = LogOf(rows) \o batch[t]
           /\ batch[t] \in Seq(Event) /\ batch[t] # <<>> /\ Distinct(batch[t])
           /\ EventsIn(batch[t]) \subseteq Volatile
           /\ Volatile' = Volatile \ EventsIn(batch[t])
<1>1. /\ pc[t] = "commit"
      /\ rows' = rows \o staged[t]
      /\ batch' = [batch EXCEPT ![t] = <<>>]
      /\ staged' = [staged EXCEPT ![t] = <<>>]
      /\ pc' = [pc EXCEPT ![t] = "idle"]
      /\ told \subseteq told' /\ told' \subseteq told \cup EventsIn(batch[t])
      /\ UNCHANGED <<buffer, holds, issued, lost>>
  BY DEF Commit, CommitLost, Leave, Take, Goto
<1>2. /\ tail \in Hash /\ staged[t] = Chained(tail, batch[t])
      /\ batch[t] \in Seq(Event) /\ batch[t] # <<>> /\ Distinct(batch[t])
      /\ rows \in Seq(Row)
  BY <1>1 DEF IInv, TypesOK, HandOK, OnceOK
<1>3. /\ Volatile' = Volatile \ EventsIn(batch[t])
      /\ EventsIn(batch[t]) \subseteq Volatile
      /\ Distinct(buffer)'
      /\ \A u \in Thread : Distinct(batch[u])' /\ (EventsIn(batch[u]) \cap EventsIn(buffer) = {})'
      /\ \A u, v \in Thread : u # v => Apart(u, v)'
  BY <1>1, Dropped DEF IInv
<1>4. /\ staged[t] \in Seq(Row)
      /\ Tip(rows') = Tip(staged[t])
      /\ Len(Tip(rows')) > Len(tail)
      /\ Intact(rows) /\ tail = Tip(rows) => Intact(rows')
      /\ Intact(rows) /\ tail # Tip(rows) => BreaksAt(rows', Len(rows) + 1)
  BY <1>1, <1>2, ChainedToTip
<1>5. /\ rows' \in Seq(Row)
      /\ \A i \in DOMAIN rows : i \in DOMAIN rows' /\ (Broken(rows', i) <=> Broken(rows, i))
  BY <1>1, <1>2, <1>4, Grows
<1>6. Tip(rows') \in Hash
  BY <1>5, TipIs
<1>7. LogOf(rows') = LogOf(rows) \o batch[t]
  BY <1>1, <1>2, LogOfCommit
<1>8. /\ Written = EventsIn(LogOf(rows)) /\ Written' = EventsIn(LogOf(rows'))
      /\ LogOf(rows) \in Seq(Event)
  BY <1>2, <1>5, LogOfRows DEF Written
<1>9. Written' = Written \cup EventsIn(batch[t]) /\ Distinct(LogOf(rows'))
  <2>1. Distinct(LogOf(rows)) /\ EventsIn(LogOf(rows)) \cap EventsIn(batch[t]) = {}
    BY <1>3, <1>8 DEF IInv, OnceOK
  <2> QED  BY <2>1, <1>2, <1>7, <1>8, EventsOfConcat
<1>10. tail' \in Hash \cup {None} /\ fork' \in {"none", "behind", "forked"}
  BY <1>2, <1>4, <1>6 DEF Commit, CommitLost, IInv, TypesOK
<1>11. TypesOK'
  <2>1. told' \subseteq issued'
    BY <1>1, <1>3 DEF IInv, TypesOK, OnceOK
  <2> QED  BY <2>1, <1>1, <1>5, <1>10, EmptySeq DEF IInv, TypesOK, Label
<1>12. /\ pc'[t] = "idle" /\ staged'[t] = <<>> /\ batch'[t] = <<>>
       /\ \A u \in Thread \ {t} : pc'[u] = pc[u] /\ staged'[u] = staged[u] /\ batch'[u] = batch[u]
       /\ \A u \in Thread \ {t} : ~Writing(u)
  BY <1>1 DEF IInv, TypesOK, LockOK, Writing
<1>13. Free' >= 0
  BY <1>1, <1>11, <1>12, FreeKept DEF IInv
<1>14. \A u \in Thread : HandOK(u)'
  BY <1>1, <1>12 DEF IInv, HandOK, Writing
<1>15. LockOK'
  BY <1>12, LockKept DEF IInv, Writing
<1>16. OnceOK'
  <2>1. /\ Written' \cup Volatile' \subseteq issued'
        /\ Written' \cap Volatile' = {}
    BY <1>1, <1>3, <1>9 DEF IInv, OnceOK
  <2> QED  BY <1>3, <1>9, <2>1 DEF OnceOK
<1>17. ChainOK'
  <2>1. CASE fork = "forked"
    <3>1. PICK i \in DOMAIN rows : BreaksAt(rows, i)
      BY <2>1 DEF IInv, ChainOK
    <3>2. BreaksAt(rows', i)
      <4>1. \A j \in DOMAIN rows' : j < i => j \in DOMAIN rows
        BY <1>2, <1>5, LenProperties
      <4> QED  BY <3>1, <4>1, <1>5 DEF BreaksAt
    <3>3. fork' = "forked"
      BY <2>1 DEF Commit, CommitLost
    <3> QED  BY <3>1, <3>2, <3>3, <1>5 DEF ChainOK
  <2>2. CASE fork = "behind"
    <3>1. BreaksAt(rows', Len(rows) + 1)
      BY <2>2, <1>4 DEF IInv, ChainOK
    <3>2. fork' = "forked"
      BY <2>2 DEF Commit, CommitLost
    <3> QED  BY <3>1, <3>2 DEF ChainOK, BreaksAt
  <2>3. CASE fork = "none"
    <3>1. tail # None /\ tail = Tip(rows)
      BY <2>3, <1>2, AuditAssumption DEF IInv, ChainOK, Hash
    <3>2. Intact(rows')
      BY <2>3, <3>1, <1>4 DEF IInv, ChainOK
    <3>3. CASE Commit(t)
      <4>1. fork' = "none" /\ tail' = Tip(rows')
        BY <2>3, <3>3, <1>4 DEF Commit
      <4> QED  BY <3>2, <4>1 DEF ChainOK
    <3>4. CASE CommitLost(t)
      <4>1. fork' = "behind" /\ tail' = tail
        BY <2>3, <3>4 DEF CommitLost
      <4>2. tail # Tip(rows')
        <5>1. Len(tail) \in Nat
          BY <1>2 DEF Hash
        <5> QED  BY <5>1, <1>4
      <4> QED  BY <3>1, <3>2, <4>1, <4>2 DEF ChainOK
    <3> QED  BY <3>3, <3>4
  <2> QED  BY <2>1, <2>2, <2>3 DEF IInv, TypesOK
<1>18. AcceptedIsKept'
  BY <1>1, <1>3, <1>9, AcceptedKept DEF IInv, Settled
<1> QED  BY <1>2, <1>3, <1>7, <1>11, <1>13, <1>14, <1>15, <1>16, <1>17, <1>18 DEF IInv

(* What was in memory is lost, and the tail is read from the table.        *)
LEMMA RestartInv ==
    ASSUME IInv, Restart
    PROVE  IInv' /\ rows' = rows /\ Volatile' = {}
<1>1. /\ tail' = Tip(rows) /\ buffer' = <<>>
      /\ pc' = [t \in Thread |-> "idle"]
      /\ batch' = [t \in Thread |-> <<>>]
      /\ staged' = [t \in Thread |-> <<>>]
      /\ holds' = {}
      /\ lost' = lost \cup Volatile
      /\ fork' = IF fork = "behind" THEN "none" ELSE fork
      /\ UNCHANGED <<rows, issued, told>>
  BY DEF Restart, LoadTail
<1>2. /\ Tip(rows) \in Hash /\ Volatile \subseteq issued
      /\ <<>> \in Seq(Event) /\ <<>> \in Seq(Row) /\ <<>> \in Seq(Buffered)
  BY TipIs, EmptySeq DEF IInv, TypesOK, OnceOK
<1>3. TypesOK'
  BY <1>1, <1>2 DEF IInv, TypesOK, Label
<1>4. \A t \in Thread : pc'[t] = "idle" /\ batch'[t] = <<>> /\ staged'[t] = <<>>
  BY <1>1
<1>5. Free' >= 0
  BY <1>1, <1>3, <1>4, FreeKept DEF IInv
<1>6. \A t \in Thread : HandOK(t)'
  BY <1>4, EventsOfNone DEF HandOK
<1>7. LockOK'
  BY <1>4, LockKept DEF IInv, Writing
<1>8. Volatile' = {}
  BY <1>1, <1>4, EventsOfNone DEF Volatile
<1>9. rows' = rows /\ Written' = Written
  BY <1>1 DEF Written
<1>10. OnceOK'
  <2>1. \A t \in Thread : EventsIn(batch'[t]) = {} /\ Distinct(batch'[t])
    BY <1>4, EventsOfNone
  <2>2. Distinct(buffer')
    BY <1>1, EventsOfNone
  <2>3. /\ Written' \cup Volatile' \subseteq issued' /\ Distinct(LogOf(rows'))
    BY <1>1, <1>8, <1>9 DEF IInv, OnceOK
  <2> QED  BY <2>1, <2>2, <2>3, <1>8 DEF OnceOK, Apart
<1>11. ChainOK'
  BY <1>1 DEF IInv, TypesOK, ChainOK
<1>12. AcceptedIsKept'
  BY <1>1, <1>8, <1>9, AcceptedKept DEF IInv, Settled
<1> QED  BY <1>3, <1>5, <1>6, <1>7, <1>8, <1>9, <1>10, <1>11, <1>12 DEF IInv

LEMMA StutterInv ==
    ASSUME IInv, UNCHANGED vars
    PROVE  IInv'
<1>1. UNCHANGED <<rows, buffer, tail, pc, batch, staged, holds, issued, told, lost, fork>>
  BY DEF vars
<1>2. TypesOK' /\ LockOK' /\ \A t \in Thread : HandOK(t)'
  BY <1>1 DEF IInv, TypesOK, LockOK, Writing, HandOK
<1>3. Free' >= 0
  BY <1>1 DEF IInv, Free
<1>4. OnceOK' /\ Written' = Written /\ Volatile' = Volatile
  BY <1>1, OnceKept DEF IInv
<1>5. ChainOK'
  BY <1>1, ChainKept DEF IInv
<1>6. AcceptedIsKept'
  BY <1>1, <1>4, AcceptedKept DEF IInv, Settled
<1> QED  BY <1>2, <1>3, <1>4, <1>5, <1>6 DEF IInv

LEMMA StepInv == IInv /\ [Next]_vars => IInv'
<1> SUFFICES ASSUME IInv, [Next]_vars
             PROVE  IInv'
  OBVIOUS
<1>1. ASSUME NEW w \in Worker, Handles(w)
      PROVE  IInv'
  BY <1>1, RequestInv, LogInv, EnqueueInv DEF Handles
<1>2. ASSUME NEW t \in Thread, Writes(t)
      PROVE  IInv'
  <2>1. CASE Flush(t) \/ Acquire(t)
    BY <2>1, GotoInv
  <2>2. CASE Swap(t)
    BY <2>2, SwapInv
  <2>3. CASE Connect(t)
    BY <2>3, ConnectInv
  <2>4. CASE PoolTimeout(t) \/ WriteFails(t)
    <3>1. pc[t] \in {"connect", "commit"} /\ Fail(t)
      BY <2>4 DEF PoolTimeout, WriteFails
    <3> QED  BY <3>1, FailInv
  <2>5. CASE Commit(t) \/ CommitLost(t)
    BY <2>5, CommitInv
  <2> QED  BY <1>2, <2>1, <2>2, <2>3, <2>4, <2>5 DEF Writes
<1>3. CASE Restart
  BY <1>3, RestartInv
<1>4. CASE UNCHANGED vars
  BY <1>4, StutterInv
<1> QED  BY <1>1, <1>2, <1>3, <1>4 DEF Next

LEMMA IInvHolds == Spec => []IInv
BY InitInv, StepInv, PTL DEF Spec

-----------------------------------------------------------------------------
(* The theorems.                                                           *)

(* Every variable of the writer keeps its type: one thread at most is in   *)
(* _write_batch, and the pool never hands out more than it has.            *)
THEOREM AuditTypeCorrect == Spec => []AuditTypeOK
<1>1. IInv => AuditTypeOK
  <2> SUFFICES ASSUME IInv
               PROVE  AuditTypeOK
    OBVIOUS
  <2> DEFINE W == {t \in Thread : pc[t] \in {"connect", "commit"}}
  <2>1. Cardinality(W) <= 1
    <3>1. CASE W = {}
      BY <3>1, FS_EmptySet
    <3>2. CASE W # {}
      <4>1. PICK t \in Thread : t \in W
        BY <3>2
      <4>2. W = {t}
        BY <4>1 DEF IInv, LockOK, Writing
      <4> HIDE DEF W
      <4> QED  BY <4>2, FS_Singleton
    <3> QED  BY <3>1, <3>2
  <2>2. \A t \in Thread : /\ pc[t] \in {"idle", "swap"} <=> batch[t] = <<>>
                          /\ pc[t] # "commit" => staged[t] = <<>>
    BY DEF IInv, HandOK
  <2> QED  BY <2>1, <2>2 DEF IInv, TypesOK, AuditTypeOK, Row, Label
<1> QED  BY <1>1, IInvHolds, PTL

(* What log said it would keep is kept: a synchronous event whose log has  *)
(* returned is a row, a buffered one is a row, on its way or lost to a     *)
(* failed write or a crash.                                                *)
THEOREM AcceptedIsKeptHolds == Spec => []AcceptedIsKept
<1>1. IInv => AcceptedIsKept
  BY DEF IInv
<1> QED  BY <1>1, IInvHolds, PTL

(* verify_integrity finds a break exactly when a batch was chained to a    *)
(* tail that a commit with a lost reply had left behind.                   *)
THEOREM ChainIntactHolds == Spec => []ChainIntact
<1>1. IInv => ChainIntact
  <2> SUFFICES ASSUME IInv
               PROVE  FirstBroken(rows) = 0 <=> fork # "forked"
    BY DEF ChainIntact
  <2>1. rows \in Seq(Row)
    BY DEF IInv, TypesOK
  <2>2. CASE fork # "forked"
    BY <2>1, <2>2, FirstBrokenIs DEF IInv, ChainOK
  <2>3. CASE fork = "forked"
    <3>1. PICK i \in DOMAIN rows : BreaksAt(rows, i)
      BY <2>3 DEF IInv, ChainOK
    <3>2. FirstBroken(rows) = i /\ i # 0
      BY <2>1, <3>1, FirstBrokenIs
    <3> QED  BY <2>3, <3>2
  <2> QED  BY <2>2, <2>3
<1> QED  BY <1>1, IInvHolds, PTL

-----------------------------------------------------------------------------
(* Tampering, in any intact table.                                         *)

(* A row hash is longer than the one before it, and tells its event.       *)
LEMMA HashOfRow ==
    ASSUME NEW prev \in Hash, NEW e \in Event, NEW f \in Event
    PROVE  /\ RowHash(prev, e) # prev
           /\ RowHash(prev, e) = RowHash(prev, f) => e = f
<1>1. prev \in Seq(Event)
  BY DEF Hash
<1>2. Len(Append(prev, e)) = Len(prev) + 1 /\ Len(prev) \in Nat
  BY <1>1, AppendProperties
<1>3. /\ Append(prev, e)[Len(prev) + 1] = e
      /\ Append(prev, f)[Len(prev) + 1] = f
  BY <1>1, AppendProperties
<1> QED  BY <1>2, <1>3 DEF RowHash

(* Two tables that agree up to a row are broken alike up to it.            *)
LEMMA SameUpTo ==
    ASSUME NEW rs \in Seq(Row), NEW other \in Seq(Row), NEW n \in Nat,
           n <= Len(rs), n <= Len(other), \A i \in 1 .. n : other[i] = rs[i],
           Intact(rs)
    PROVE  \A i \in 1 .. n : ~Broken(other, i)
<1>1. DOMAIN rs = 1 .. Len(rs) /\ DOMAIN other = 1 .. Len(other)
      /\ Len(rs) \in Nat /\ Len(other) \in Nat
  BY LenProperties
<1> SUFFICES ASSUME NEW i \in 1 .. n
             PROVE  ~Broken(other, i)
  OBVIOUS
<1>2. /\ i \in DOMAIN rs /\ i \in DOMAIN other
      /\ i # 1 => i - 1 \in 1 .. n
  BY <1>1
<1>3. other[i] = rs[i] /\ Before(other, i) = Before(rs, i)
  BY <1>2 DEF Before
<1>4. ~Broken(rs, i)
  BY <1>2 DEF Intact
<1> QED  BY <1>2, <1>3, <1>4, BrokenIs

(* So a table that agrees with an intact one up to a row, and is broken at *)
(* that row, is found broken there.                                        *)
LEMMA FoundAt ==
    ASSUME NEW rs \in Seq(Row), Intact(rs), NEW other \in Seq(Row), NEW i \in 1 .. Len(other),
           i - 1 <= Len(rs), \A j \in 1 .. i - 1 : other[j] = rs[j],
           Broken(other, i)
    PROVE  FirstBroken(other) = i
<1>1. DOMAIN other = 1 .. Len(other) /\ Len(other) \in Nat
  BY LenProperties
<1>2. \A j \in 1 .. i - 1 : ~Broken(other, j)
  <2>1. i - 1 \in Nat /\ i - 1 <= Len(other)
    BY <1>1
  <2> QED  BY <2>1, SameUpTo
<1>3. \A j \in DOMAIN other : j < i => j \in 1 .. i - 1
  BY <1>1
<1>4. BreaksAt(other, i)
  BY <1>1, <1>2, <1>3 DEF BreaksAt
<1> QED  BY <1>1, <1>4, FirstBrokenIs

LEMMA IntactRow ==
    ASSUME NEW rs \in Seq(Row), Intact(rs), NEW i \in 1 .. Len(rs)
    PROVE  /\ rs[i] \in Row
           /\ rs[i].event \in Event /\ rs[i].prev \in Hash /\ rs[i].hash \in Hash
           /\ rs[i].prev = Before(rs, i)
           /\ rs[i].hash = RowHash(rs[i].prev, rs[i].event)
           /\ rs[i].hash # rs[i].prev
           /\ \A e \in Event \ {rs[i].event} : rs[i].hash # RowHash(rs[i].prev, e)
<1>1. i \in DOMAIN rs /\ rs[i] \in Row
  BY LenProperties, ElementOfSeq
<1>2. ~Broken(rs, i)
  BY <1>1 DEF Intact
<1>3. rs[i].prev = Before(rs, i) /\ rs[i].hash = RowHash(rs[i].prev, rs[i].event)
  BY <1>1, <1>2, BrokenIs
<1>4. rs[i].event \in Event /\ rs[i].prev \in Hash /\ rs[i].hash \in Hash
  BY <1>1 DEF Row
<1> QED  BY <1>1, <1>3, <1>4, HashOfRow

LEMMA EditedFound ==
    ASSUME NEW rs \in Seq(Row), Intact(rs), NEW i \in 1 .. Len(rs),
           NEW other \in Edited(rs, i)
    PROVE  FirstBroken(other) = i
<1>1. PICK e \in Event \ {rs[i].event} : other = [rs EXCEPT ![i] = [rs[i] EXCEPT !.event = e]]
  BY DEF Edited
<1> DEFINE row == [rs[i] EXCEPT !.event = e]
<1>2. /\ row \in Row
      /\ row.event = e /\ row.prev = rs[i].prev /\ row.hash = rs[i].hash
  BY IntactRow DEF Row
<1> HIDE DEF row
<1>3. other = [rs EXCEPT ![i] = row]
  BY <1>1 DEF row
<1>4. /\ other \in Seq(Row) /\ Len(other) = Len(rs)
      /\ \A j \in 1 .. Len(rs) : other[j] = IF j = i THEN row ELSE rs[j]
  BY <1>2, <1>3, ExceptSeq
<1>5. i \in DOMAIN other /\ i \in 1 .. Len(other)
  BY <1>4, LenProperties
<1>6. other[i].hash # RowHash(other[i].prev, other[i].event)
  BY <1>2, <1>4, IntactRow
<1>7. Broken(other, i)
  BY <1>4, <1>5, <1>6, BrokenIs
<1>8. i - 1 <= Len(rs) /\ \A j \in 1 .. i - 1 : other[j] = rs[j]
  BY <1>4
<1> QED  BY <1>4, <1>5, <1>7, <1>8, FoundAt

(* The row that comes to stand at i names the row that stood there.        *)
LEMMA SuccessorAt ==
    ASSUME NEW rs \in Seq(Row), Intact(rs), NEW i \in 1 .. Len(rs) - 1,
           NEW other \in Seq(Row), i <= Len(other),
           \A j \in 1 .. i - 1 : other[j] = rs[j], other[i] = rs[i + 1]
    PROVE  FirstBroken(other) = i
<1>1. /\ i \in 1 .. Len(rs) /\ i + 1 \in 1 .. Len(rs) /\ i \in 1 .. Len(other)
      /\ i \in DOMAIN other /\ Len(rs) \in Nat /\ i - 1 <= Len(rs)
  BY LenProperties
<1>2. other[i].prev = rs[i].hash
  <2>1. rs[i + 1].prev = Before(rs, i + 1)
    BY <1>1, IntactRow
  <2>2. Before(rs, i + 1) = rs[i].hash
    <3>1. i + 1 # 1 /\ (i + 1) - 1 = i
      BY <1>1
    <3> QED  BY <3>1 DEF Before
  <2> QED  BY <2>1, <2>2
<1>3. Before(other, i) = rs[i].prev
  <2>1. rs[i].prev = Before(rs, i)
    BY <1>1, IntactRow
  <2>2. i # 1 => i - 1 \in 1 .. i - 1
    BY <1>1
  <2> QED  BY <2>1, <2>2 DEF Before
<1>4. rs[i].hash # rs[i].prev
  BY <1>1, IntactRow
<1>5. Broken(other, i)
  BY <1>1, <1>2, <1>3, <1>4, BrokenIs
<1> QED  BY <1>1, <1>5, FoundAt

LEMMA RemovedFound ==
    ASSUME NEW rs \in Seq(Row), Intact(rs), NEW i \in 1 .. Len(rs) - 1
    PROVE  FirstBroken(Removed(rs, i)) = i
<1> DEFINE front == SubSeq(rs, 1, i - 1)
           back  == SubSeq(rs, i + 1, Len(rs))
           other == front \o back
<1>1. Len(rs) \in Nat /\ i - 1 \in 0 .. Len(rs) /\ i + 1 \in 1 .. Len(rs)
  BY LenProperties
<1>2. /\ front \in Seq(Row) /\ Len(front) = i - 1
      /\ \A j \in 1 .. i - 1 : front[j] = rs[j]
  BY <1>1, Prefix
<1>3. /\ back \in Seq(Row) /\ Len(back) = Len(rs) - i
      /\ back[1] = rs[i + 1]
  <2>1. \A j \in i + 1 .. Len(rs) : rs[j] \in Row
    BY <1>1, ElementOfSeq
  <2>2. /\ back \in Seq(Row)
        /\ Len(back) = IF i + 1 <= Len(rs) THEN Len(rs) - (i + 1) + 1 ELSE 0
        /\ \A j \in 1 .. Len(rs) - (i + 1) + 1 : back[j] = rs[i + 1 + j - 1]
    BY <1>1, <2>1, SubSeqProperties
  <2> HIDE DEF back
  <2>3. 1 \in 1 .. Len(rs) - (i + 1) + 1 /\ i + 1 + 1 - 1 = i + 1
    BY <1>1
  <2>4. back[1] = rs[i + 1 + 1 - 1]
    BY <2>2, <2>3
  <2> QED  BY <1>1, <2>2, <2>3, <2>4
<1> HIDE DEF front, back
<1>4. /\ other \in Seq(Row) /\ Len(other) = Len(front) + Len(back)
      /\ \A j \in 1 .. Len(front) + Len(back) :
           other[j] = IF j <= Len(front) THEN front[j] ELSE back[j - Len(front)]
  BY <1>2, <1>3, ConcatProperties
<1> HIDE DEF other
<1>5. \A j \in 1 .. i - 1 : other[j] = rs[j]
  BY <1>1, <1>2, <1>3, <1>4
<1>6. i <= Len(other) /\ other[i] = rs[i + 1]
  <2>1. /\ i \in 1 .. Len(front) + Len(back) /\ ~(i <= Len(front)) /\ i - Len(front) = 1
    BY <1>1, <1>2, <1>3
  <2> QED  BY <1>3, <1>4, <2>1
<1>7. FirstBroken(other) = i
  BY <1>4, <1>5, <1>6, SuccessorAt
<1> QED  BY <1>7 DEF Removed, other, front, back

LEMMA SwappedFound ==
    ASSUME NEW rs \in Seq(Row), Intact(rs), NEW i \in 1 .. Len(rs) - 1
    PROVE  FirstBroken(Swapped(rs, i)) = i
<1>1. /\ Len(rs) \in Nat /\ i \in 1 .. Len(rs) /\ i + 1 \in 1 .. Len(rs)
      /\ rs[i] \in Row /\ rs[i + 1] \in Row
  BY LenProperties, ElementOfSeq
<1> DEFINE half  == [rs EXCEPT ![i] = rs[i + 1]]
           other == [half EXCEPT ![i + 1] = rs[i]]
<1>2. /\ half \in Seq(Row) /\ Len(half) = Len(rs)
      /\ \A j \in 1 .. Len(rs) : half[j] = IF j = i THEN rs[i + 1] ELSE rs[j]
  BY <1>1, ExceptSeq
<1>3. Swapped(rs, i) = other
  BY DEF Swapped
<1> HIDE DEF half
<1>4. /\ other \in Seq(Row) /\ Len(other) = Len(half)
      /\ \A j \in 1 .. Len(half) : other[j] = IF j = i + 1 THEN rs[i] ELSE half[j]
  <2>1. i + 1 \in 1 .. Len(half)
    BY <1>1, <1>2
  <2> QED  BY <1>1, <1>2, <2>1, ExceptSeq
<1> HIDE DEF other
<1>5. /\ \A j \in 1 .. i - 1 : other[j] = rs[j]
      /\ other[i] = rs[i + 1] /\ i <= Len(other)
  BY <1>1, <1>2, <1>4
<1> QED  BY <1>3, <1>4, <1>5, SuccessorAt

LEMMA ForgedFound ==
    ASSUME NEW rs \in Seq(Row), Intact(rs), NEW i \in 1 .. Len(rs) - 1,
           NEW other \in Forged(rs, i)
    PROVE  FirstBroken(other) = i + 1
<1>1. /\ Len(rs) \in Nat /\ i \in 1 .. Len(rs) /\ i + 1 \in 1 .. Len(rs)
      /\ i \in DOMAIN rs
  BY LenProperties
<1>2. PICK e \in Event \ {rs[i].event} :
        other = [rs EXCEPT ![i].event = e, ![i].hash = RowHash(rs[i].prev, e)]
  BY DEF Forged
<1> DEFINE row == [event |-> e, prev |-> rs[i].prev, hash |-> RowHash(rs[i].prev, e)]
<1>3. row \in Row
  <2>1. rs[i].prev \in Seq(Event) /\ e \in Event
    BY <1>1, IntactRow DEF Hash
  <2>2. RowHash(rs[i].prev, e) \in Hash
    BY <2>1, AppendProperties DEF RowHash, Hash
  <2> QED  BY <2>1, <2>2 DEF Row, Hash
<1>4. other = [rs EXCEPT ![i] = row]
  <2>1. rs[i] \in Row
    BY <1>1, IntactRow
  <2>2. [[rs[i] EXCEPT !.event = e] EXCEPT !.hash = RowHash(rs[i].prev, e)] = row
    <3>1. [rs[i] EXCEPT !.event = e] = [event |-> e, prev |-> rs[i].prev, hash |-> rs[i].hash]
      BY <2>1 DEF Row
    <3>2. [[event |-> e, prev |-> rs[i].prev, hash |-> rs[i].hash]
             EXCEPT !.hash = RowHash(rs[i].prev, e)] = row
      OBVIOUS
    <3> QED  BY <3>1, <3>2, Zenon
  <2>3. other = [[rs EXCEPT ![i] = [rs[i] EXCEPT !.event = e]]
                   EXCEPT ![i] = [@ EXCEPT !.hash = RowHash(rs[i].prev, e)]]
    BY <1>2
  <2> QED  BY <1>1, <2>2, <2>3
<1>5. row.event = e /\ row.prev = rs[i].prev /\ row.hash = RowHash(rs[i].prev, e)
  OBVIOUS
<1> HIDE DEF row
<1>6. /\ other \in Seq(Row) /\ Len(other) = Len(rs)
      /\ \A j \in 1 .. Len(rs) : other[j] = IF j = i THEN row ELSE rs[j]
  BY <1>1, <1>3, <1>4, ExceptSeq
<1>7. /\ i + 1 \in DOMAIN other /\ i + 1 \in 1 .. Len(other)
      /\ i \in DOMAIN other
      /\ i + 1 # 1 /\ (i + 1) - 1 = i /\ i + 1 # i
  BY <1>1, <1>6, LenProperties
<1>8. other[i + 1] = rs[i + 1] /\ other[i] = row
  BY <1>1, <1>6, <1>7
<1>9. rs[i + 1].prev = rs[i].hash
  <2>1. rs[i + 1].prev = Before(rs, i + 1)
    BY <1>1, IntactRow
  <2> QED  BY <2>1, <1>7 DEF Before
<1>10. Broken(other, i + 1)
  <2>1. Before(other, i + 1) = RowHash(rs[i].prev, e)
    BY <1>5, <1>7, <1>8 DEF Before
  <2>2. rs[i].hash # RowHash(rs[i].prev, e)
    BY <1>1, IntactRow
  <2> QED  BY <1>6, <1>7, <1>8, <1>9, <2>1, <2>2, BrokenIs
<1>11. ASSUME NEW j \in 1 .. i
       PROVE  ~Broken(other, j)
  <2>1. j \in 1 .. Len(rs) /\ j \in DOMAIN other /\ j \in DOMAIN rs
    BY <1>1, <1>6, LenProperties
  <2>2. Before(other, j) = Before(rs, j)
    <3>1. j # 1 => j - 1 \in 1 .. Len(rs) /\ j - 1 # i
      BY <2>1, <1>1
    <3> QED  BY <3>1, <1>6 DEF Before
  <2>3. /\ other[j].prev = rs[j].prev
        /\ other[j].hash = RowHash(other[j].prev, other[j].event)
    BY <2>1, <1>5, <1>6, IntactRow
  <2>4. rs[j].prev = Before(rs, j)
    BY <2>1, IntactRow
  <2> QED  BY <1>6, <2>1, <2>2, <2>3, <2>4, BrokenIs
<1>12. BreaksAt(other, i + 1)
  <2>1. \A j \in DOMAIN other : j < i + 1 => j \in 1 .. i
    BY <1>1, <1>6, LenProperties
  <2> QED  BY <1>7, <1>10, <1>11, <2>1 DEF BreaksAt
<1> QED  BY <1>6, <1>7, <1>12, FirstBrokenIs

(* What was changed after it was written is found, and where.              *)
THEOREM TamperLocatedHolds == Spec => []TamperLocated
<1>1. IInv => TamperLocated
  <2> SUFFICES ASSUME IInv, FirstBroken(rows) = 0
               PROVE  /\ \A i \in DOMAIN rows : \A rs \in Edited(rows, i) : FirstBroken(rs) = i
                      /\ \A i \in 1 .. Len(rows) - 1 :
                           /\ \A rs \in {Removed(rows, i), Swapped(rows, i)} : FirstBroken(rs) = i
                           /\ \A rs \in Forged(rows, i) : FirstBroken(rs) = i + 1
    BY DEF TamperLocated
  <2>1. rows \in Seq(Row) /\ DOMAIN rows = 1 .. Len(rows)
    BY LenProperties DEF IInv, TypesOK
  <2>2. Intact(rows)
    <3>1. CASE fork # "forked"
      BY <3>1 DEF IInv, ChainOK
    <3>2. CASE fork = "forked"
      <4>1. PICK i \in DOMAIN rows : BreaksAt(rows, i)
        BY <3>2 DEF IInv, ChainOK
      <4>2. FirstBroken(rows) # 0
        BY <2>1, <4>1, FirstBrokenIs
      <4> QED  BY <4>2
    <3> QED  BY <3>1, <3>2
  <2> QED  BY <2>1, <2>2, EditedFound, RemovedFound, SwappedFound, ForgedFound
<1> QED  BY <1>1, IInvHolds, PTL

-----------------------------------------------------------------------------
(* The promise.                                                            *)

LEMMA PromisedEvents ==
    ASSUME TypesOK
    PROVE  /\ LogOf(rows) \in Seq(Event)
           /\ Promise!EventsOf(LogOf(rows)) = Written
BY LogOfRows DEF TypesOK, Promise!EventsOf, EventsIn, Written

(* Rows that come after the others are one Write of what was pending.      *)
LEMMA WritesBatch ==
    ASSUME NEW l \in Seq(Event), NEW v \in Seq(Event), v # <<>>, Distinct(v),
           EventsIn(v) \subseteq Volatile,
           LogOf(rows) = l, LogOf(rows') = l \o v,
           Volatile' = Volatile \ EventsIn(v)
    PROVE  Promise!Write
<1> DEFINE all == l \o v
<1>1. /\ Len(l) \in Nat /\ Len(v) \in Nat \ {0}
      /\ all \in Seq(Event) /\ Len(all) = Len(l) + Len(v)
      /\ \A i \in 1 .. Len(l) + Len(v) : all[i] = IF i <= Len(l) THEN l[i] ELSE v[i - Len(l)]
  <2>1. Len(l) \in Nat /\ Len(v) \in Nat \ {0}
    BY EmptySeq, LenProperties
  <2> QED  BY <2>1, ConcatProperties
<1> HIDE DEF all
<1>2. l = SubSeq(all, 1, Len(l))
  <2> DEFINE front == SubSeq(all, 1, Len(l))
  <2>1. /\ front \in Seq(Event) /\ Len(front) = Len(l)
        /\ \A i \in 1 .. Len(l) : front[i] = all[i]
    <3>1. Len(l) \in 0 .. Len(all)
      BY <1>1
    <3> QED  BY <3>1, <1>1, Prefix
  <2> HIDE DEF front
  <2>2. \A i \in 1 .. Len(l) : l[i] = front[i]
    BY <1>1, <2>1
  <2>3. l = front
    BY <2>1, <2>2, SeqEqual
  <2> QED  BY <2>3 DEF front
<1> DEFINE new == Len(l) + 1 .. Len(all)
<1>3. ASSUME NEW i \in new
      PROVE  i - Len(l) \in DOMAIN v /\ all[i] = v[i - Len(l)]
  BY <1>1, LenProperties
<1>4. ASSUME NEW j \in DOMAIN v
      PROVE  Len(l) + j \in new /\ all[Len(l) + j] = v[j]
  <2>1. j \in 1 .. Len(v)
    BY LenProperties
  <2>2. /\ Len(l) + j \in 1 .. Len(l) + Len(v) /\ ~(Len(l) + j <= Len(l))
        /\ (Len(l) + j) - Len(l) = j /\ Len(l) + j \in new
    BY <1>1, <2>1
  <2> QED  BY <1>1, <2>2
<1>5. {all[i] : i \in new} = EventsIn(v)
  <2> HIDE DEF new
  <2> QED  BY <1>3, <1>4 DEF EventsIn
<1>6. \A i \in new : all[i] \in Volatile
  <2> HIDE DEF new
  <2> QED  BY <1>5
<1>7. ASSUME NEW i \in new, NEW j \in new, all[i] = all[j]
      PROVE  i = j
  <2>1. i - Len(l) = j - Len(l)
    BY <1>3, <1>7 DEF Distinct
  <2> QED  BY <2>1, <1>1
<1>8. Len(l) < Len(all)
  BY <1>1
<1>9. LogOf(rows') = all
  BY DEF all
<1>10. /\ \A i \in new : all[i] \in Volatile
       /\ \A i, j \in new : all[i] = all[j] => i = j
       /\ Volatile' = Volatile \ {all[i] : i \in new}
  BY <1>5, <1>6, <1>7
<1> DEFINE m == LogOf(rows)
           n == LogOf(rows')
<1>11. /\ Len(m) < Len(n)
       /\ m = SubSeq(n, 1, Len(m))
       /\ \A i \in Len(m) + 1 .. Len(n) : n[i] \in Volatile
       /\ \A i, j \in Len(m) + 1 .. Len(n) : n[i] = n[j] => i = j
       /\ Volatile' = Volatile \ {n[i] : i \in Len(m) + 1 .. Len(n)}
  BY <1>2, <1>8, <1>9, <1>10
<1> HIDE DEF all, new
<1> QED  BY ONLY <1>11 DEF Promise!Write, LogOf

(* Every step of the writer is a step of AuditLog, or none.                *)
LEMMA StepKeepsPromise ==
    ASSUME IInv, [Next]_vars
    PROVE  [Promise!Next]_<<[i \in DOMAIN rows |-> rows[i].event], Volatile>>
<1> DEFINE Still == rows' = rows /\ Volatile' = Volatile
           Lost  == rows' = rows /\ Volatile' \subseteq Volatile
           Goal  == [Promise!Next]_<<[i \in DOMAIN rows |-> rows[i].event], Volatile>>
<1>1. Still => Goal
  OBVIOUS
<1>2. Lost => Goal
  <2> SUFFICES ASSUME Lost
               PROVE  Promise!Lose
    BY DEF Promise!Next
  <2>1. Volatile' = Volatile \ (Volatile \ Volatile') /\ Volatile \ Volatile' \in SUBSET Volatile
    OBVIOUS
  <2> QED  BY <2>1 DEF Promise!Lose
<1>3. ASSUME NEW w \in Worker, Handles(w)
      PROVE  Goal
  <2>1. CASE Query(w) \/ EndRequest(w)
    BY <2>1, <1>1 DEF Query, EndRequest, work, Volatile
  <2>2. CASE Log(w)
    <3>1. PICK e \in Event \ (Written \cup Volatile) : Volatile' = Volatile \cup {e}
      BY <2>2, LogInv
    <3>2. rows' = rows
      BY <2>2, LogInv
    <3>3. e \notin Volatile \cup Promise!EventsOf(LogOf(rows))
      BY <3>1, PromisedEvents DEF IInv
    <3>4. Promise!Accept
      BY <3>1, <3>2, <3>3 DEF Promise!Accept, LogOf
    <3> QED  BY <3>4 DEF Promise!Next
  <2>3. CASE Enqueue(w)
    BY <2>3, <1>1, EnqueueInv
  <2> QED  BY <1>3, <2>1, <2>2, <2>3 DEF Handles
<1>4. ASSUME NEW t \in Thread, Writes(t)
      PROVE  Goal
  <2>1. CASE Flush(t) \/ Acquire(t)
    BY <2>1, <1>1 DEF Flush, Acquire, Volatile
  <2>2. CASE Swap(t)
    BY <2>2, <1>1, SwapInv
  <2>3. CASE Connect(t)
    BY <2>3, <1>1, ConnectInv
  <2>4. CASE PoolTimeout(t) \/ WriteFails(t)
    <3>1. pc[t] \in {"connect", "commit"} /\ Fail(t)
      BY <2>4 DEF PoolTimeout, WriteFails
    <3>2. rows' = rows /\ Volatile' = Volatile \ EventsIn(batch[t])
      BY <3>1, FailInv
    <3> QED  BY <3>2, <1>2
  <2>5. CASE Commit(t) \/ CommitLost(t)
    <3>1. /\ LogOf(rows') = LogOf(rows) \o batch[t]
          /\ batch[t] \in Seq(Event) /\ batch[t] # <<>> /\ Distinct(batch[t])
          /\ EventsIn(batch[t]) \subseteq Volatile
          /\ Volatile' = Volatile \ EventsIn(batch[t])
      BY <2>5, CommitInv
    <3>2. PICK v \in Seq(Event) : v = batch[t]
      BY <3>1
    <3>3. PICK l \in Seq(Event) : l = LogOf(rows)
      BY PromisedEvents DEF IInv
    <3>4. Promise!Write
      BY <3>1, <3>2, <3>3, WritesBatch
    <3> QED  BY <3>4 DEF Promise!Next
  <2> QED  BY <1>4, <2>1, <2>2, <2>3, <2>4, <2>5 DEF Writes
<1>5. CASE Restart
  BY <1>5, <1>2, RestartInv
<1>6. CASE UNCHANGED vars
  BY <1>6, <1>1 DEF vars, Volatile
<1> QED  BY <1>3, <1>4, <1>5, <1>6 DEF Next

(* The writer is an AuditLog: the table only ever grows, and what log      *)
(* accepted enters it at most once, or is lost on the way.                 *)
THEOREM KeepsPromiseHolds == Spec => KeepsPromise
<1>1. Init => Promise!Init
  <2> SUFFICES ASSUME Init
               PROVE  Promise!Init
    OBVIOUS
  <2>1. [i \in DOMAIN rows |-> rows[i].event] = <<>>
    BY DEF Init
  <2>2. Volatile = {}
    BY EventsOfNone DEF Init, Volatile
  <2> QED  BY <2>1, <2>2 DEF Promise!Init
<1>2. IInv /\ [Next]_vars =>
        [Promise!Next]_<<[i \in DOMAIN rows |-> rows[i].event], Volatile>>
  BY StepKeepsPromise
<1> QED  BY <1>1, <1>2, IInvHolds, PTL DEF Spec, KeepsPromise, Promise!Spec
=============================================================================
