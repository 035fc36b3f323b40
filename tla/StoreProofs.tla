---------------------------- MODULE StoreProofs ----------------------------
(***************************************************************************)
(* Facts about the operators Store is built from (the bounded history, and *)
(* what the replay of a journal recovers) and the proofs about it.  With no *)
(* hypothesis on what crashes or fails, every variable keeps its shape, the *)
(* history its bound, and the journal its order.  Across crashes and       *)
(* restarts, it keeps what it acknowledged, for every value of its         *)
(* constants under which crashes stay out of the fragile windows and a     *)
(* failed write leaves no torn record and no store without a journal; and  *)
(* for every value of them, it implements the durable map, its history     *)
(* comes back, what a restart fences stays fenced, and its incarnations    *)
(* advance.  The loop of the replay computes what its definitions say.     *)
(***************************************************************************)
EXTENDS Replay, ListLemmas, SequenceTheorems

-----------------------------------------------------------------------------
(* The replay of a journal *)

Logs == Seq([seq : Nat, op : Records])

\* Every number in the journal is below s.
Below(l, s) == \A i \in DOMAIN l : l[i].seq < s

Ascending(l) == \A j \in DOMAIN l : \A i \in 1 .. (j - 1) : l[i].seq < l[j].seq

\* A record numbered after all others keeps a journal in order.
LEMMA AppendAscends ==
  ASSUME NEW l \in Logs, Ascending(l), NEW t \in Nat, Below(l, t),
         NEW s \in Nat, t <= s, NEW op \in Records,
         NEW l2, l2 = Append(l, [seq |-> s, op |-> op])
  PROVE  /\ l2 \in Logs /\ Ascending(l2)
         /\ \A b \in Nat : s < b => Below(l2, b)
<1> DEFINE rec == [seq |-> s, op |-> op]
<1>1. rec \in [seq : Nat, op : Records] /\ rec.seq = s
  OBVIOUS
<1>2. l2 = Append(l, rec)
  OBVIOUS
<1> HIDE DEF rec
<1>3. /\ l2 \in Logs /\ Len(l) \in Nat
      /\ DOMAIN l = 1 .. Len(l) /\ DOMAIN l2 = 1 .. (Len(l) + 1)
      /\ \A i \in 1 .. Len(l) : l2[i] = l[i]
      /\ l2[Len(l) + 1] = rec
  BY <1>1, <1>2, AppendProperties, LenProperties DEF Logs
<1>4. \A i \in 1 .. Len(l) : l[i].seq \in Nat /\ l[i].seq < t
  <2>1. l \in [1 .. Len(l) -> [seq : Nat, op : Records]]
    BY LenProperties DEF Logs
  <2>2. \A i \in 1 .. Len(l) : l[i] \in [seq : Nat, op : Records]
    BY <2>1
  <2>3. QED
    BY <1>3, <2>2 DEF Below
<1>5. ASSUME NEW j \in DOMAIN l2
      PROVE  /\ \A i \in 1 .. (j - 1) : l2[i].seq < l2[j].seq
             /\ \A b \in Nat : s < b => l2[j].seq < b
  <2>1. CASE j = Len(l) + 1
    <3>1. l2[j].seq = s
      BY <1>1, <1>3, <2>1
    <3>2. \A i \in 1 .. (j - 1) : l2[i] = l[i] /\ i \in 1 .. Len(l)
      BY <1>3, <2>1
    <3>3. QED
      BY <1>4, <3>1, <3>2
  <2>2. CASE j # Len(l) + 1
    <3>1. j \in 1 .. Len(l)
      BY <1>3, <2>2
    <3>2. l2[j] = l[j] /\ \A i \in 1 .. (j - 1) : l2[i] = l[i]
      BY <1>3, <3>1
    <3>3. \A i \in 1 .. (j - 1) : l[i].seq < l[j].seq
      BY <1>3, <3>1 DEF Ascending
    <3>4. QED
      BY <1>4, <3>1, <3>2, <3>3
  <2>3. QED
    BY <2>1, <2>2
<1>6. QED
  BY <1>3, <1>5 DEF Ascending, Below

\* Trimming keeps a history a history and bounds its length.
LEMMA TrimProperty ==
  ASSUME NEW S, NEW h \in Seq(S)
  PROVE  Trim(h) \in Seq(S) /\ Len(Trim(h)) <= MaxHistory
<1>1. Len(h) \in Nat /\ h \in [1 .. Len(h) -> S]
  BY LenProperties
<1>2. MaxHistory \in Nat \ {0}
  BY StoreAssumption
<1>3. CASE Len(h) > MaxHistory
  <2> DEFINE from == Len(h) - MaxHistory + 1
  <2>1. from \in Int /\ from <= Len(h) /\ 1 <= from
    BY <1>1, <1>2, <1>3
  <2>2. \A i \in from .. Len(h) : h[i] \in S
    BY <1>1, <2>1
  <2>3. /\ SubSeq(h, from, Len(h)) \in Seq(S)
        /\ Len(SubSeq(h, from, Len(h))) = Len(h) - from + 1
    <3> HIDE DEF from
    <3>1. QED
      BY <1>1, <2>1, <2>2, SubSeqProperties
  <2>4. QED
    BY <1>1, <1>2, <1>3, <2>3 DEF Trim
<1>4. CASE ~ (Len(h) > MaxHistory)
  BY <1>1, <1>2, <1>4 DEF Trim
<1>5. QED
  BY <1>3, <1>4

\* Trimming keeps the last entries.
LEMMA TrimKeepsLast ==
  ASSUME NEW S, NEW h \in Seq(S), NEW k,
         k = IF Len(h) > MaxHistory THEN MaxHistory ELSE Len(h)
  PROVE  /\ Trim(h) \in Seq(S) /\ Len(Trim(h)) = k
         /\ \A i \in 1 .. k : Trim(h)[i] = h[Len(h) - k + i]
<1>1. Len(h) \in Nat /\ MaxHistory \in Nat \ {0}
  BY LenProperties, StoreAssumption
<1>2. CASE Len(h) > MaxHistory
  <2> DEFINE from == Len(h) - MaxHistory + 1
  <2>1. from \in Int /\ from <= Len(h) /\ 1 <= from
        /\ Len(h) - from + 1 = MaxHistory /\ k = MaxHistory
    BY <1>1, <1>2
  <2>2. \A i \in from .. Len(h) : h[i] \in S
    BY <1>1, <2>1, LenProperties
  <2>3. \A i \in 1 .. k : from + i - 1 = Len(h) - k + i
    <3>1. from = Len(h) - k + 1 /\ k \in Nat
      BY <1>1, <2>1
    <3> HIDE DEF from
    <3>2. QED
      BY <1>1, <3>1
  <2>4. Trim(h) = SubSeq(h, from, Len(h))
    BY <1>2 DEF Trim
  <2> HIDE DEF from
  <2>5. /\ SubSeq(h, from, Len(h)) \in Seq(S)
        /\ Len(SubSeq(h, from, Len(h))) = k
        /\ \A i \in 1 .. k : SubSeq(h, from, Len(h))[i] = h[from + i - 1]
    BY <1>1, <2>1, <2>2, SubSeqProperties
  <2>6. QED
    BY <2>3, <2>4, <2>5
<1>3. CASE ~ (Len(h) > MaxHistory)
  BY <1>1, <1>3 DEF Trim
<1>4. QED
  BY <1>2, <1>3

\* Trimming before an entry is appended changes nothing.
LEMMA TrimThenAppend ==
  ASSUME NEW S, NEW h \in Seq(S), NEW p \in S
  PROVE  Trim(Append(Trim(h), p)) = Trim(Append(h, p))
<1> DEFINE k == IF Len(h) > MaxHistory THEN MaxHistory ELSE Len(h)
           a == Append(h, p)
           b == Append(Trim(h), p)
           m == IF Len(a) > MaxHistory THEN MaxHistory ELSE Len(a)
           n == IF Len(b) > MaxHistory THEN MaxHistory ELSE Len(b)
<1>1. Len(h) \in Nat /\ MaxHistory \in Nat \ {0}
  BY LenProperties, StoreAssumption
<1>2. /\ Trim(h) \in Seq(S) /\ Len(Trim(h)) = k
      /\ \A i \in 1 .. k : Trim(h)[i] = h[Len(h) - k + i]
  BY TrimKeepsLast
<1>3. /\ a \in Seq(S) /\ Len(a) = Len(h) + 1
      /\ \A i \in 1 .. Len(h) : a[i] = h[i]
      /\ a[Len(h) + 1] = p
  BY AppendProperties
<1>4. /\ b \in Seq(S) /\ Len(b) = k + 1
      /\ \A i \in 1 .. k : b[i] = Trim(h)[i]
      /\ b[k + 1] = p
  BY <1>2, AppendProperties
<1> HIDE DEF a, b
<1>5. /\ Trim(a) \in Seq(S) /\ Len(Trim(a)) = m
      /\ \A i \in 1 .. m : Trim(a)[i] = a[Len(a) - m + i]
  BY <1>3, TrimKeepsLast
<1>6. /\ Trim(b) \in Seq(S) /\ Len(Trim(b)) = n
      /\ \A i \in 1 .. n : Trim(b)[i] = b[Len(b) - n + i]
  <2>1. b \in Seq(S)
    BY <1>4
  <2>2. QED
    BY <2>1, TrimKeepsLast
<1>7. m = n /\ m \in Nat /\ m <= k + 1 /\ k \in Nat /\ k <= Len(h)
  BY <1>1, <1>3, <1>4
<1> HIDE DEF k, m, n
<1>8. ASSUME NEW i \in 1 .. m PROVE Trim(a)[i] = Trim(b)[i]
  <2>1. CASE k + 1 - m + i = k + 1
    <3>1. Len(a) - m + i = Len(h) + 1 /\ Len(b) - n + i = k + 1
      BY <1>1, <1>3, <1>4, <1>7, <2>1
    <3>2. QED
      BY <1>3, <1>4, <1>5, <1>6, <1>7, <3>1
  <2>2. CASE k + 1 - m + i # k + 1
    <3> DEFINE j == k + 1 - m + i
    <3>1. j \in 1 .. k /\ Len(b) - n + i = j /\ Len(h) - k + j \in 1 .. Len(h)
          /\ Len(a) - m + i = Len(h) - k + j
      BY <1>1, <1>3, <1>4, <1>7, <2>2
    <3> HIDE DEF j
    <3>2. Trim(b)[i] = h[Len(h) - k + j]
      BY <1>2, <1>4, <1>6, <1>7, <3>1
    <3>3. Trim(a)[i] = h[Len(h) - k + j]
      BY <1>3, <1>5, <3>1
    <3>4. QED
      BY <3>2, <3>3
  <2>3. QED
    BY <2>1, <2>2
<1>9. Trim(a) = Trim(b)
  BY <1>5, <1>6, <1>7, <1>8, SeqEqual
<1>10. QED
  BY <1>9 DEF a, b

\* In a journal whose records are numbered in order, the replay applies
\* exactly the records the checkpoint does not cover.
LEMMA AppliedInOrder ==
  ASSUME NEW c, NEW l, Ascending(l)
  PROVE  Applied(c, l) = {i \in DOMAIN l : c.lastSeq < l[i].seq}
BY DEF Applied, Ascending

\* Among positions of a journal there is a last one, which decides what the
\* replay leaves behind.
LEMMA LastWrite ==
  ASSUME NEW l \in Logs, NEW A \in SUBSET (DOMAIN l), A # {}
  PROVE  Max(A) \in A /\ \A i \in A : i <= Max(A)
<1>1. DOMAIN l = 1 .. Len(l) /\ Len(l) \in Nat
  BY LenProperties DEF Logs
<1>2. A \in SUBSET Nat /\ \A i \in A : i <= Len(l)
  BY <1>1
<1>3. QED
  BY <1>1, <1>2, MaxProperty

\* The replay ends with a sequence number that is the checkpoint's or a
\* record's, and no record it applied is numbered above it.
LEMMA RecoveredSeqProperty ==
  ASSUME NEW c \in States, NEW l \in Logs, NEW b \in Nat, Below(l, b)
  PROVE  /\ RecoveredSeq(c, l) \in Nat
         /\ c.lastSeq <= RecoveredSeq(c, l)
         /\ \A i \in Applied(c, l) : l[i].seq <= RecoveredSeq(c, l)
         /\ RecoveredSeq(c, l) = c.lastSeq \/ RecoveredSeq(c, l) < b
<1> DEFINE S == {c.lastSeq} \cup {l[i].seq : i \in Applied(c, l)}
<1>1. Applied(c, l) \subseteq DOMAIN l
  BY DEF Applied
<1>2. c.lastSeq \in Nat
  BY DEF States
<1>3. \A i \in DOMAIN l : l[i].seq \in Nat /\ l[i].seq < b
  <2>1. DOMAIN l = 1 .. Len(l) /\ l \in [1 .. Len(l) -> [seq : Nat, op : Records]]
    BY LenProperties DEF Logs
  <2>2. \A i \in DOMAIN l : l[i] \in [seq : Nat, op : Records]
    BY <2>1
  <2>3. QED
    BY <2>2 DEF Below
<1>4. S \in SUBSET Nat /\ S # {}
  BY <1>1, <1>2, <1>3
<1>5. c.lastSeq + b \in Nat /\ \A x \in S : x <= c.lastSeq + b
  BY <1>1, <1>2, <1>3
<1>6. Max(S) \in S /\ \A x \in S : x <= Max(S)
  <2> HIDE DEF S
  <2>1. QED
    BY <1>4, <1>5, MaxProperty
<1>7. RecoveredSeq(c, l) \in S /\ \A x \in S : x <= RecoveredSeq(c, l)
  BY <1>6 DEF RecoveredSeq
<1>8. QED
  BY <1>1, <1>2, <1>3, <1>4, <1>7

\* The points the replay appends to the history of the checkpoint.
Replayed(c, l) ==
  [n \in 1 .. Cardinality(Appends(c, l)) |-> l[InOrder(Appends(c, l))[n]].op.val]

LEMMA ReplayedType ==
  ASSUME NEW c, NEW l \in Logs
  PROVE  Replayed(c, l) \in Seq(Points)
<1> DEFINE H == Appends(c, l)
<1>1. /\ DOMAIN l = 1 .. Len(l) /\ Len(l) \in Nat
      /\ l \in [1 .. Len(l) -> [seq : Nat, op : Records]]
  BY LenProperties DEF Logs
<1>2. H \in SUBSET (1 .. Len(l)) /\ \A i \in H : l[i].op.kind = "history"
  BY <1>1 DEF Appends, Applied
<1> HIDE DEF H
<1>3. Cardinality(H) \in Nat /\ InOrder(H) \in [1 .. Cardinality(H) -> H]
  BY <1>1, <1>2, InOrderType
<1>4. \A i \in H : l[i].op.val \in Points
  <2>1. SUFFICES ASSUME NEW i \in H PROVE l[i].op.val \in Points
    OBVIOUS
  <2>2. l[i].op \in Records /\ l[i].op.kind = "history"
    BY <1>1, <1>2
  <2>3. QED
    BY <2>2 DEF Records
<1>5. \A n \in 1 .. Cardinality(H) : l[InOrder(H)[n]].op.val \in Points
  BY <1>3, <1>4
<1>6. Replayed(c, l) = [n \in 1 .. Cardinality(H) |-> l[InOrder(H)[n]].op.val]
  BY DEF Replayed, H
<1>7. Replayed(c, l) \in [1 .. Cardinality(H) -> Points]
  BY <1>5, <1>6
<1>8. QED
  BY <1>3, <1>7, SeqDef

\* What the replay recovers is a state: the shape of every part of it.
LEMMA RecoveredTypes ==
  ASSUME NEW c \in States, NEW l \in Logs
  PROVE  /\ RecoveredEntries(c, l) \in [Ids -> Contents]
         /\ RecoveredHistory(c, l) \in Seq(Points)
         /\ Len(RecoveredHistory(c, l)) <= MaxHistory
         /\ RecoveredEpoch(c, l) \in Nat
         /\ RecoveredBoot(c, l) \in Nat
<1>1. DOMAIN l = 1 .. Len(l) /\ Len(l) \in Nat
  BY LenProperties DEF Logs
<1>2. \A i \in DOMAIN l : l[i] \in [seq : Nat, op : Records]
  <2>1. l \in [1 .. Len(l) -> [seq : Nat, op : Records]]
    BY LenProperties DEF Logs
  <2>2. QED
    BY <1>1, <2>1
<1>3. Applied(c, l) \subseteq DOMAIN l
  BY DEF Applied
<1>4. ASSUME NEW id \in Ids PROVE RecoveredEntry(c, l, id) \in Contents
  <2>1. CASE Writes(c, l, id) = {}
    BY <2>1 DEF RecoveredEntry, States
  <2>2. CASE Writes(c, l, id) # {}
    <3>1. Writes(c, l, id) \in SUBSET (DOMAIN l)
      BY <1>3 DEF Writes
    <3>2. Max(Writes(c, l, id)) \in Writes(c, l, id)
      BY <2>2, <3>1, LastWrite
    <3>3. PICK i \in DOMAIN l : i = Max(Writes(c, l, id)) /\ l[i].op.kind = "write"
      BY <3>1, <3>2 DEF Writes
    <3>4. l[i].op \in Records /\ l[i].op.kind = "write"
      BY <1>2, <3>3
    <3>5. l[i].op.val \in Contents
      BY <3>4 DEF Records
    <3>6. QED
      BY <2>2, <3>3, <3>5 DEF RecoveredEntry
  <2>3. QED
    BY <2>1, <2>2
<1>5. RecoveredEntries(c, l) \in [Ids -> Contents]
  BY <1>4 DEF RecoveredEntries, Fence, Contents
<1>6. /\ RecoveredHistory(c, l) \in Seq(Points)
      /\ Len(RecoveredHistory(c, l)) <= MaxHistory
  <2>1. c.history \in Seq(Points) /\ Replayed(c, l) \in Seq(Points)
    BY ReplayedType DEF States
  <2>2. c.history \o Replayed(c, l) \in Seq(Points)
    BY <2>1, ConcatProperties
  <2>3. RecoveredHistory(c, l) = Trim(c.history \o Replayed(c, l))
    BY DEF RecoveredHistory, Replayed
  <2>4. QED
    BY <2>2, <2>3, TrimProperty
<1>7. RecoveredEpoch(c, l) \in Nat /\ RecoveredBoot(c, l) \in Nat
  <2>1. CASE Incarnations(c, l) = {}
    BY <2>1, StoreAssumption DEF RecoveredEpoch, RecoveredBoot, States
  <2>2. CASE Incarnations(c, l) # {}
    <3>1. Incarnations(c, l) \in SUBSET (DOMAIN l)
      BY <1>3 DEF Incarnations
    <3>2. Max(Incarnations(c, l)) \in Incarnations(c, l)
      BY <2>2, <3>1, LastWrite
    <3>3. PICK i \in DOMAIN l : /\ i = Max(Incarnations(c, l))
                                /\ l[i].op.kind = "epoch"
      BY <3>1, <3>2 DEF Incarnations
    <3>4. l[i].op \in Records /\ l[i].op.kind = "epoch"
      BY <1>2, <3>3
    <3>5. l[i].op.epoch \in Nat /\ l[i].op.boot \in Nat
      BY <3>4 DEF Records
    <3>6. QED
      BY <2>2, <3>3, <3>5 DEF RecoveredEpoch, RecoveredBoot
  <2>3. QED
    BY <2>1, <2>2
<1>8. QED
  BY <1>5, <1>6, <1>7

-----------------------------------------------------------------------------
(* What the replay recovers, before and after a transaction *)

\* A restart of what came back from a restart changes nothing more.
LEMMA FenceTwice ==
  ASSUME NEW id, NEW content
  PROVE  Fence(id, Fence(id, content)) = Fence(id, content)
BY StoreAssumption DEF Fence

\* With no journal the checkpoint is what comes back.
LEMMA RecoveredFromCheckpoint ==
  ASSUME NEW c, NEW id \in Ids
  PROVE  RecoveredEntry(c, <<>>, id) = c.entries[id]
BY DEF RecoveredEntry, Writes, Applied

\* What comes back of an identity is what the checkpoint holds, or what a
\* record numbered after the checkpoint wrote.
LEMMA RecoveredFrom ==
  ASSUME NEW c, NEW l \in Logs, NEW id \in Ids
  PROVE  \/ RecoveredEntry(c, l, id) = c.entries[id]
         \/ \E i \in DOMAIN l :
              /\ c.lastSeq < l[i].seq
              /\ l[i].op.kind = "write" /\ l[i].op.key = id
              /\ RecoveredEntry(c, l, id) = l[i].op.val
<1>1. CASE Writes(c, l, id) = {}
  BY <1>1 DEF RecoveredEntry
<1>2. CASE Writes(c, l, id) # {}
  <2>1. Writes(c, l, id) \in SUBSET (DOMAIN l)
    BY DEF Writes, Applied
  <2>2. Max(Writes(c, l, id)) \in Writes(c, l, id)
    BY <1>2, <2>1, LastWrite
  <2>3. PICK i \in Writes(c, l, id) : i = Max(Writes(c, l, id))
    BY <2>2
  <2>4. i \in DOMAIN l /\ c.lastSeq < l[i].seq
        /\ l[i].op.kind = "write" /\ l[i].op.key = id
    BY DEF Writes, Applied
  <2>5. RecoveredEntry(c, l, id) = l[i].op.val
    BY <1>2, <2>3 DEF RecoveredEntry
  <2>6. QED
    BY <2>4, <2>5
<1>3. QED
  BY <1>1, <1>2

\* l2 is the journal l, numbered below t, and a record numbered s after it.
Extended(c, l, t, s, op, l2) ==
  /\ c \in States /\ l \in Logs /\ Ascending(l)
  /\ t \in Nat /\ Below(l, t) /\ s \in Nat /\ t <= s /\ c.lastSeq < s
  /\ op \in Records /\ l2 = Append(l, [seq |-> s, op |-> op])

\* The replay applies such a record, and all it applied before.
LEMMA ExtendedApplies ==
  ASSUME NEW c, NEW l, NEW t, NEW s, NEW op, NEW l2,
         Extended(c, l, t, s, op, l2)
  PROVE  /\ l2 \in Logs /\ Len(l) \in Nat /\ Len(l2) = Len(l) + 1
         /\ DOMAIN l = 1 .. Len(l) /\ DOMAIN l2 = 1 .. (Len(l) + 1)
         /\ \A i \in 1 .. Len(l) : l2[i] = l[i]
         /\ l2[Len(l) + 1].op = op /\ l2[Len(l) + 1].seq = s
         /\ Applied(c, l) \subseteq 1 .. Len(l)
         /\ Applied(c, l2) = Applied(c, l) \cup {Len(l) + 1}
<1> USE DEF Extended
<1> DEFINE rec == [seq |-> s, op |-> op]
           n == Len(l) + 1
<1>1. rec \in [seq : Nat, op : Records] /\ rec.seq = s /\ rec.op = op
  OBVIOUS
<1>2. l2 = Append(l, rec)
  OBVIOUS
<1> HIDE DEF rec
<1>3. /\ l2 \in Logs /\ Len(l) \in Nat /\ Len(l2) = n
      /\ DOMAIN l = 1 .. Len(l) /\ DOMAIN l2 = 1 .. n
      /\ \A i \in 1 .. Len(l) : l2[i] = l[i]
      /\ l2[n] = rec
  BY <1>1, <1>2, AppendProperties, LenProperties DEF Logs
<1>4. Ascending(l) /\ Ascending(l2)
  BY AppendAscends
<1> HIDE DEF Extended
<1>5. Applied(c, l2) = Applied(c, l) \cup {n}
  <2>1. Applied(c, l2) = {i \in DOMAIN l2 : c.lastSeq < l2[i].seq}
    BY <1>4, AppliedInOrder
  <2>2. Applied(c, l) = {i \in DOMAIN l : c.lastSeq < l[i].seq}
    BY <1>4, AppliedInOrder
  <2>3. c.lastSeq < l2[n].seq
    BY <1>1, <1>3 DEF Extended
  <2>4. QED
    BY <1>3, <2>1, <2>2, <2>3
<1>6. Applied(c, l) \subseteq 1 .. Len(l)
  BY <1>3 DEF Applied
<1>7. QED
  BY <1>1, <1>3, <1>5, <1>6

\* A transaction numbered after the journal and the checkpoint changes what
\* comes back of the identity it writes, and of no other.
LEMMA AppendRecovers ==
  ASSUME NEW c, NEW l, NEW t, NEW s, NEW op, NEW l2,
         Extended(c, l, t, s, op, l2), NEW id \in Ids
  PROVE  RecoveredEntry(c, l2, id) =
           IF op.kind = "write" /\ op.key = id
             THEN op.val ELSE RecoveredEntry(c, l, id)
<1> DEFINE n == Len(l) + 1
<1>1. /\ l2 \in Logs /\ Len(l) \in Nat
      /\ DOMAIN l = 1 .. Len(l) /\ DOMAIN l2 = 1 .. n
      /\ \A i \in 1 .. Len(l) : l2[i] = l[i]
      /\ l2[n].op = op
  BY ExtendedApplies
<1> l \in Logs
  BY DEF Extended
<1>2. Applied(c, l2) = Applied(c, l) \cup {n}
  BY ExtendedApplies
<1>3. Applied(c, l) \subseteq 1 .. Len(l)
  BY ExtendedApplies
<1>4. CASE op.kind = "write" /\ op.key = id
  <2>1. Writes(c, l2, id) = Writes(c, l, id) \cup {n}
    BY <1>1, <1>2, <1>3, <1>4 DEF Writes
  <2>2. Writes(c, l2, id) \in SUBSET (DOMAIN l2) /\ n \in Writes(c, l2, id)
    BY <1>1, <1>2, <2>1 DEF Writes, Applied
  <2>3. Max(Writes(c, l2, id)) \in Writes(c, l2, id)
        /\ n <= Max(Writes(c, l2, id))
    BY <1>1, <2>2, LastWrite
  <2>4. Max(Writes(c, l2, id)) = n
    BY <1>1, <2>2, <2>3
  <2>5. QED
    BY <1>1, <1>4, <2>2, <2>4 DEF RecoveredEntry
<1>5. CASE ~ (op.kind = "write" /\ op.key = id)
  <2>1. Writes(c, l2, id) = Writes(c, l, id)
    BY <1>1, <1>2, <1>3, <1>5 DEF Writes
  <2>2. CASE Writes(c, l, id) = {}
    BY <1>5, <2>1, <2>2 DEF RecoveredEntry
  <2>3. CASE Writes(c, l, id) # {}
    <3>1. Writes(c, l, id) \in SUBSET (DOMAIN l)
      BY <1>1, <1>3 DEF Writes
    <3>2. Max(Writes(c, l, id)) \in 1 .. Len(l)
      BY <1>1, <2>3, <3>1, LastWrite
    <3>3. l2[Max(Writes(c, l, id))] = l[Max(Writes(c, l, id))]
      BY <1>1, <3>2
    <3>4. QED
      BY <1>5, <2>1, <2>3, <3>3 DEF RecoveredEntry
  <2>4. QED
    BY <2>2, <2>3
<1>6. QED
  BY <1>4, <1>5

LEMMA ConcatAppend ==
  ASSUME NEW S, NEW s \in Seq(S), NEW t \in Seq(S), NEW e \in S
  PROVE  s \o Append(t, e) = Append(s \o t, e)
OBVIOUS

\* It is appended to the history that comes back if it is a point of it, and
\* changes nothing of it otherwise.
LEMMA AppendReplays ==
  ASSUME NEW c, NEW l, NEW t, NEW s, NEW op, NEW l2,
         Extended(c, l, t, s, op, l2)
  PROVE  RecoveredHistory(c, l2) =
           IF op.kind = "history"
             THEN Trim(Append(RecoveredHistory(c, l), op.val))
             ELSE RecoveredHistory(c, l)
<1> DEFINE N == Len(l)
           H == Appends(c, l)
           K == Appends(c, l2)
<1>1. /\ l2 \in Logs /\ N \in Nat
      /\ \A i \in 1 .. N : l2[i] = l[i]
      /\ l2[N + 1].op = op
      /\ Applied(c, l) \subseteq 1 .. N
      /\ Applied(c, l2) = Applied(c, l) \cup {N + 1}
  BY ExtendedApplies
<1>2. l \in Logs /\ c \in States /\ op \in Records
  BY DEF Extended
<1>3. H \in SUBSET (1 .. N)
  BY <1>1 DEF Appends
<1>4. /\ Replayed(c, l) \in Seq(Points) /\ Replayed(c, l2) \in Seq(Points)
      /\ c.history \in Seq(Points)
  BY <1>1, <1>2, ReplayedType DEF States
<1>5. /\ RecoveredHistory(c, l) = Trim(c.history \o Replayed(c, l))
      /\ RecoveredHistory(c, l2) = Trim(c.history \o Replayed(c, l2))
  BY DEF RecoveredHistory, Replayed
<1>6. /\ Cardinality(H) \in Nat /\ InOrder(H) \in [1 .. Cardinality(H) -> H]
  BY <1>1, <1>3, InOrderType
<1>7. /\ Len(Replayed(c, l)) = Cardinality(H)
      /\ \A i \in 1 .. Cardinality(H) :
           Replayed(c, l)[i] = l[InOrder(H)[i]].op.val
  BY <1>6 DEF Replayed
<1>8. \A i \in 1 .. Cardinality(H) : l2[InOrder(H)[i]] = l[InOrder(H)[i]]
  BY <1>1, <1>3, <1>6
<1>9. CASE op.kind # "history"
  <2>1. K = H
    BY <1>1, <1>9 DEF Appends
  <2>2. Replayed(c, l2) = [n \in 1 .. Cardinality(H) |-> l2[InOrder(H)[n]].op.val]
    BY <2>1 DEF Replayed
  <2>3. Replayed(c, l) = [n \in 1 .. Cardinality(H) |-> l[InOrder(H)[n]].op.val]
    BY DEF Replayed
  <2>4. Replayed(c, l2) = Replayed(c, l)
    BY <1>8, <2>2, <2>3
  <2>5. QED
    BY <1>5, <1>9, <2>4
<1>10. CASE op.kind = "history"
  <2>1. K = H \cup {N + 1}
    BY <1>1, <1>10 DEF Appends
  <2>2. op.val \in Points
    BY <1>2, <1>10 DEF Records
  <2>3. /\ Cardinality(K) = Cardinality(H) + 1
        /\ InOrder(K)[Cardinality(K)] = N + 1
        /\ \A i \in 1 .. Cardinality(H) : InOrder(K)[i] = InOrder(H)[i]
    BY <1>1, <1>3, <2>1, InOrderExtends
  <2>4. Replayed(c, l2) = [n \in 1 .. Cardinality(K) |-> l2[InOrder(K)[n]].op.val]
    BY DEF Replayed
  <2> HIDE DEF H, K
  <2>5. /\ Len(Replayed(c, l2)) = Cardinality(H) + 1
        /\ Replayed(c, l2)[Cardinality(H) + 1] = op.val
        /\ \A i \in 1 .. Cardinality(H) :
             Replayed(c, l2)[i] = Replayed(c, l)[i]
    <3>1. Cardinality(K) \in Nat /\ Cardinality(K) = Cardinality(H) + 1 /\ Cardinality(K) >= 1
      BY <1>6, <2>3
    <3>2. /\ Len(Replayed(c, l2)) = Cardinality(K)
          /\ \A i \in 1 .. Cardinality(K) : Replayed(c, l2)[i] = l2[InOrder(K)[i]].op.val
      BY <2>4, <3>1
    <3>3. Replayed(c, l2)[Cardinality(K)] = op.val
      BY <1>1, <2>3, <3>1, <3>2
    <3>4. ASSUME NEW i \in 1 .. Cardinality(H)
          PROVE  Replayed(c, l2)[i] = Replayed(c, l)[i]
      BY <1>6, <1>7, <1>8, <2>3, <3>1, <3>2
    <3>5. QED
      BY <3>1, <3>2, <3>3, <3>4
  <2>6. Replayed(c, l2) = Append(Replayed(c, l), op.val)
    BY <1>4, <1>6, <1>7, <2>2, <2>5, AppendProperties, SeqEqual
  <2>7. c.history \o Replayed(c, l) \in Seq(Points)
    BY <1>4, ConcatProperties
  <2>8. c.history \o Append(Replayed(c, l), op.val)
          = Append(c.history \o Replayed(c, l), op.val)
    <3>1. PICK h \in Seq(Points), r \in Seq(Points), v \in Points :
            h = c.history /\ r = Replayed(c, l) /\ v = op.val
      BY <1>4, <2>2, Zenon
    <3>2. h \o Append(r, v) = Append(h \o r, v)
      BY ConcatAppend
    <3>3. QED
      BY <3>1, <3>2
  <2>9. Trim(Append(Trim(c.history \o Replayed(c, l)), op.val))
          = Trim(Append(c.history \o Replayed(c, l), op.val))
    BY <2>2, <2>7, TrimThenAppend
  <2>10. QED
    BY <1>5, <1>10, <2>6, <2>8, <2>9
<1>11. QED
  BY <1>9, <1>10

\* A checkpoint that covers the journal is the history that comes back.
LEMMA CoveredHistory ==
  ASSUME NEW c \in States, Len(c.history) <= MaxHistory, NEW l \in Logs,
         \A i \in DOMAIN l : ~ (c.lastSeq < l[i].seq)
  PROVE  RecoveredHistory(c, l) = c.history
<1>1. Appends(c, l) = {}
  BY DEF Appends, Applied
<1>2. Cardinality(Appends(c, l)) = 0
  BY <1>1, FS_EmptySet
<1>3. Replayed(c, l) = <<>>
  BY <1>2 DEF Replayed
<1>4. RecoveredHistory(c, l) = Trim(c.history \o <<>>)
  BY <1>3 DEF RecoveredHistory, Replayed
<1>5. c.history \in Seq(Points) /\ Len(c.history) \in Nat
  BY LenProperties DEF States
<1>6. QED
  BY <1>4, <1>5, StoreAssumption, ConcatEmptySeq DEF Trim

\* The incarnation that comes back is that of the last record of one, and it
\* was shut down if a CleanShutdown follows it.
LEMMA AppendIncarnates ==
  ASSUME NEW c, NEW l, NEW t, NEW s, NEW op, NEW l2,
         Extended(c, l, t, s, op, l2)
  PROVE  /\ RecoveredEpoch(c, l2) =
              IF op.kind = "epoch" THEN op.epoch ELSE RecoveredEpoch(c, l)
         /\ RecoveredBoot(c, l2) =
              IF op.kind = "epoch" THEN op.boot ELSE RecoveredBoot(c, l)
         /\ op.kind = "clean" => RecoveredClean(c, l2)
         /\ op.kind = "epoch" => ~ RecoveredClean(c, l2)
         /\ op.kind \notin {"clean", "epoch"}
              => (RecoveredClean(c, l2) <=> RecoveredClean(c, l))
<1> DEFINE N == Len(l)
<1>1. /\ l2 \in Logs /\ l \in Logs /\ N \in Nat
      /\ DOMAIN l = 1 .. N /\ DOMAIN l2 = 1 .. (N + 1)
      /\ \A i \in 1 .. N : l2[i] = l[i]
      /\ l2[N + 1].op = op
      /\ Applied(c, l) \subseteq 1 .. N
      /\ Applied(c, l2) = Applied(c, l) \cup {N + 1}
  <2>1. l \in Logs
    BY DEF Extended
  <2>2. QED
    BY <2>1, ExtendedApplies
<1>2. Incarnations(c, l) \subseteq 1 .. N /\ Shutdowns(c, l) \subseteq 1 .. N
  BY <1>1 DEF Incarnations, Shutdowns
<1>3. Incarnations(c, l2) = Incarnations(c, l)
                              \cup (IF op.kind = "epoch" THEN {N + 1} ELSE {})
  BY <1>1 DEF Incarnations
<1>4. Shutdowns(c, l2) = Shutdowns(c, l)
                           \cup (IF op.kind = "clean" THEN {N + 1} ELSE {})
  BY <1>1 DEF Shutdowns
<1> HIDE DEF N
<1>5. CASE op.kind = "epoch"
  <2>1. /\ Incarnations(c, l2) \in SUBSET (DOMAIN l2)
        /\ N + 1 \in Incarnations(c, l2)
    BY <1>1, <1>2, <1>3, <1>5
  <2>2. /\ Max(Incarnations(c, l2)) \in Incarnations(c, l2)
        /\ N + 1 <= Max(Incarnations(c, l2))
    BY <1>1, <2>1, LastWrite
  <2>3. Max(Incarnations(c, l2)) = N + 1
    BY <1>1, <2>1, <2>2
  <2>4. ~ RecoveredClean(c, l2)
    BY <1>1, <1>2, <1>4, <1>5, <2>1 DEF RecoveredClean
  <2>5. QED
    BY <1>1, <1>5, <2>1, <2>3, <2>4 DEF RecoveredEpoch, RecoveredBoot
<1>6. CASE op.kind # "epoch"
  <2>1. Incarnations(c, l2) = Incarnations(c, l)
    BY <1>3, <1>6
  <2>2. /\ RecoveredEpoch(c, l2) = RecoveredEpoch(c, l)
        /\ RecoveredBoot(c, l2) = RecoveredBoot(c, l)
    <3>1. CASE Incarnations(c, l) = {}
      BY <2>1, <3>1 DEF RecoveredEpoch, RecoveredBoot
    <3>2. CASE Incarnations(c, l) # {}
      <4>1. Max(Incarnations(c, l)) \in 1 .. N
        BY <1>1, <1>2, <3>2, LastWrite
      <4>2. l2[Max(Incarnations(c, l))] = l[Max(Incarnations(c, l))]
        BY <1>1, <4>1
      <4>3. QED
        BY <2>1, <3>2, <4>2 DEF RecoveredEpoch, RecoveredBoot
    <3>3. QED
      BY <3>1, <3>2
  <2>3. op.kind = "clean" => RecoveredClean(c, l2)
    <3>1. \A j \in Incarnations(c, l2) : j < N + 1
      BY <1>1, <1>2, <2>1
    <3>2. op.kind = "clean" => N + 1 \in Shutdowns(c, l2)
      BY <1>4
    <3>3. QED
      BY <3>1, <3>2 DEF RecoveredClean
  <2>4. op.kind # "clean" => (RecoveredClean(c, l2) <=> RecoveredClean(c, l))
    BY <1>4, <2>1 DEF RecoveredClean
  <2>5. QED
    BY <1>6, <2>2, <2>3, <2>4
<1>7. QED
  BY <1>5, <1>6

\* A checkpoint that covers the journal is the state that comes back; nothing
\* says that its process was shut down.
LEMMA CoveredState ==
  ASSUME NEW c, NEW l, \A i \in DOMAIN l : ~ (c.lastSeq < l[i].seq)
  PROVE  /\ RecoveredEpoch(c, l) = c.epoch /\ RecoveredBoot(c, l) = c.boot
         /\ ~ RecoveredClean(c, l)
         /\ \A id \in Ids : RecoveredEntry(c, l, id) = c.entries[id]
<1>1. Applied(c, l) = {}
  BY DEF Applied
<1>2. QED
  BY <1>1 DEF RecoveredEpoch, RecoveredBoot, RecoveredClean, RecoveredEntry,
     Incarnations, Shutdowns, Writes

-----------------------------------------------------------------------------
(* Inductive invariants *)

\* Numbers on disk grow with the file and stay below the next one handed out;
\* a journal that is being created has none.
Numbered ==
  /\ JournalOrdered
  /\ pc \in {"journal", "ready", "published"} => topSeq < nextSeq
  /\ file = "absent" \/ pc = "creating" => topSeq = 0
  /\ pc = "creating" => nextSeq = 1
  /\ pc \in {"removed", "recreating"} => topSeq = 0

ShapeInv == TypeOK /\ Numbered

-----------------------------------------------------------------------------
(* The shape of the state and the numbering of the journal *)

\* Every record a mutation writes has the shape of a record.
LEMMA WriteOpsType ==
  ASSUME TypeOK
  PROVE  Unfinished \subseteq Records
<1>1. mem.epoch \in 0 .. MaxEpoch /\ mem.boot \in 0 .. MaxBoot
  BY DEF TypeOK, ProcOK, States
<1>2. WriteOps \subseteq Records
  BY <1>1 DEF WriteOps, EvidenceOps, GrantOps, WriteOp, Claim, Records, Ids, Contents
<1>3. \A p \in Points : HistoryOp(p) \in Records
  BY DEF HistoryOp, Records
<1>4. EpochOp(mem.epoch + 1, mem.boot) \in Records
  BY <1>1, StoreAssumption DEF EpochOp, Records
<1>5. QED
  BY <1>2, <1>3, <1>4 DEF Unfinished

\* Blank is a state.
LEMMA BlankType == Blank \in States /\ Len(Blank.history) <= MaxHistory
BY StoreAssumption DEF Blank, States, Contents

\* Appending a transaction keeps the journal a numbered journal.
LEMMA LoggedShape ==
  ASSUME ShapeInv, NEW op \in Records, Logged(op),
         pc \in {"journal", "ready"}
  PROVE  /\ DiskOK'
         /\ topSeq' < nextSeq + 3
         /\ JournalOrdered'
         /\ file' = "absent" => topSeq' = 0
<1>1. nextSeq \in Nat /\ topSeq \in Nat /\ topSeq < nextSeq /\ log \in Logs
  BY DEF ShapeInv, TypeOK, DiskOK, ProcOK, Numbered, Logs
<1>2. CASE ~ (file = "ok" /\ ~torn)
  <2>1. UNCHANGED <<ckpt, log, topSeq, torn, entered>>
    BY <1>2 DEF Logged
  <2>2. file' \in {"absent", "empty", "ok", "bad"} /\ (file' = "absent" => file = "absent")
    BY DEF Logged, ShapeInv, TypeOK, DiskOK
  <2>3. QED
    BY <1>1, <2>1, <2>2 DEF ShapeInv, TypeOK, DiskOK, Numbered, JournalOrdered
<1>3. CASE file = "ok" /\ ~torn
  <2>1. log' = Append(log, [seq |-> nextSeq + 1, op |-> op])
        /\ topSeq' = nextSeq + 2 /\ UNCHANGED <<ckpt, file, torn, entered>>
    BY <1>3 DEF Logged
  <2>2. Below(log, topSeq) /\ Ascending(log)
    BY DEF ShapeInv, Numbered, JournalOrdered, Below, Ascending
  <2>3. log' \in Logs /\ Ascending(log') /\ Below(log', topSeq')
    <3>1. topSeq <= nextSeq + 1 /\ nextSeq + 1 \in Nat
      BY <1>1
    <3>2. /\ log' \in Logs /\ Ascending(log')
          /\ \A b \in Nat : nextSeq + 1 < b => Below(log', b)
      BY <1>1, <2>1, <2>2, <3>1, AppendAscends
    <3>3. QED
      BY <1>1, <2>1, <3>2
  <2>4. JournalOrdered'
    BY <2>3 DEF JournalOrdered, Below, Ascending
  <2>5. DiskOK'
    BY <1>1, <2>1, <2>3 DEF ShapeInv, TypeOK, DiskOK, Logs
  <2>6. QED
    BY <1>1, <1>3, <2>1, <2>4, <2>5
<1>4. QED
  BY <1>2, <1>3

\* So does cutting a transaction off, within a record or between two.
LEMMA TearsShape ==
  ASSUME ShapeInv, Tears \/ Dangles, pc \in {"journal", "ready"}
  PROVE  /\ DiskOK'
         /\ topSeq' < nextSeq + 3
         /\ JournalOrdered'
         /\ file' = "absent" => topSeq' = 0
<1>1. nextSeq \in Nat /\ topSeq \in Nat /\ topSeq < nextSeq /\ log \in Logs
  BY DEF ShapeInv, TypeOK, DiskOK, ProcOK, Numbered, Logs
<1>2. /\ UNCHANGED <<ckpt, log, entered>>
      /\ file' = IF file = "empty" THEN "bad" ELSE file
      /\ topSeq' = topSeq \/ (file = "ok" /\ topSeq' \in {nextSeq, nextSeq + 1})
  BY DEF Tears, Dangles
<1>3. topSeq' \in Nat /\ topSeq <= topSeq' /\ topSeq' < nextSeq + 3
  BY <1>1, <1>2
<1>4. torn' \in BOOLEAN /\ entered' \in BOOLEAN
  <2>1. torn' \in BOOLEAN
    BY Zenon DEF Tears, Dangles, ShapeInv, TypeOK, DiskOK
  <2>2. entered' \in BOOLEAN
    BY <1>2, Zenon DEF ShapeInv, TypeOK, DiskOK
  <2>3. QED
    BY <2>1, <2>2
<1>5. DiskOK'
  BY <1>2, <1>3, <1>4 DEF ShapeInv, TypeOK, DiskOK
<1>6. JournalOrdered'
  <2>1. \A j \in DOMAIN log : log[j].seq \in Nat
    <3>1. log \in [1 .. Len(log) -> [seq : Nat, op : Records]]
      BY <1>1, LenProperties DEF Logs
    <3>2. QED
      BY <3>1
  <2>2. QED
    BY <1>1, <1>2, <1>3, <2>1 DEF ShapeInv, Numbered, JournalOrdered
<1>7. QED
  BY <1>2, <1>3, <1>5, <1>6 DEF ShapeInv, Numbered

\* A transaction that fails keeps the journal a numbered journal.
LEMMA HalfLoggedShape ==
  ASSUME ShapeInv, NEW op \in Records, NEW outcome, HalfLogged(op, outcome),
         pc \in {"journal", "ready"}
  PROVE  /\ DiskOK'
         /\ topSeq' < nextSeq + 3
         /\ JournalOrdered'
         /\ file' = "absent" => topSeq' = 0
<1>1. nextSeq \in Nat /\ topSeq \in Nat /\ topSeq < nextSeq + 3
  BY DEF ShapeInv, TypeOK, DiskOK, ProcOK, Numbered
<1>2. CASE Logged(op)
  BY <1>2, LoggedShape
<1>3. CASE UNCHANGED disk
  <2>1. DiskOK'
    BY <1>3, Zenon DEF ShapeInv, TypeOK, DiskOK, disk
  <2>2. QED
    BY <1>1, <1>3, <2>1 DEF ShapeInv, Numbered, JournalOrdered, disk
<1>4. CASE Tears \/ Dangles
  BY <1>1, <1>4, TearsShape
<1>5. QED
  BY <1>2, <1>3, <1>4 DEF HalfLogged

\* A restart leaves content content.
LEMMA FenceType ==
  ASSUME NEW id, NEW content \in Contents
  PROVE  Fence(id, content) \in Contents
BY DEF Fence, Contents

\* A written record names an identity and a content, and so on.
LEMMA RecordFields ==
  ASSUME NEW op \in Records
  PROVE  /\ op.kind \in {"write", "history", "epoch", "clean"}
         /\ op.kind = "write" => op.key \in Ids /\ op.val \in Contents
         /\ op.kind = "history" => op.val \in Points
         /\ op.kind = "epoch" => op.epoch \in Nat /\ op.boot \in Nat
BY DEF Records

\* Appending to every history that may come back gives histories.
LEMMA AppendedHistories ==
  ASSUME NEW H, H \subseteq Seq(Points), NEW p \in Points
  PROVE  {Trim(Append(h, p)) : h \in H} \subseteq Seq(Points)
<1>1. \A h \in H : Append(h, p) \in Seq(Points)
  BY AppendProperties
<1>2. \A h \in H : Trim(Append(h, p)) \in Seq(Points)
  BY <1>1, TrimProperty
<1>3. QED
  BY <1>2

LEMMA AcknowledgeType ==
  ASSUME HistOK, NEW op \in Records, Acknowledge(op)
  PROVE  HistOK'
<1>1. may' \in [Ids -> SUBSET Contents]
  BY RecordFields, FenceType DEF HistOK, Acknowledge
<1>2. mayHist' \subseteq Seq(Points)
  <2>1. CASE op.kind = "history"
    BY <2>1, RecordFields, AppendedHistories DEF HistOK, Acknowledge
  <2>2. CASE op.kind # "history"
    BY <2>2 DEF HistOK, Acknowledge
  <2>3. QED
    BY <2>1, <2>2
<1>3. seen' \in [boot : Nat, epoch : Nat,
                 exit : {"none", "crashed", "clean", "unsure"}]
  BY RecordFields DEF HistOK, Acknowledge
<1>4. fresh' \subseteq Sources \cup Holders
  BY RecordFields DEF HistOK, Acknowledge
<1>5. QED
  BY <1>1, <1>2, <1>3, <1>4 DEF HistOK

LEMMA AttemptType ==
  ASSUME HistOK, NEW op \in Records, Attempt(op)
  PROVE  HistOK'
<1>1. may' \in [Ids -> SUBSET Contents]
  BY RecordFields, FenceType DEF HistOK, Attempt
<1>2. mayHist' \subseteq Seq(Points)
  <2>1. CASE op.kind = "history"
    BY <2>1, RecordFields, AppendedHistories DEF HistOK, Attempt
  <2>2. CASE op.kind # "history"
    BY <2>2 DEF HistOK, Attempt
  <2>3. QED
    BY <2>1, <2>2
<1>3. /\ seen' \in [boot : Nat, epoch : Nat,
                    exit : {"none", "crashed", "clean", "unsure"}]
      /\ fresh' \subseteq Sources \cup Holders
  BY DEF HistOK, Attempt
<1>4. QED
  BY <1>1, <1>2, <1>3 DEF HistOK

-----------------------------------------------------------------------------
(* ShapeInv is inductive *)

LEMMA InitShape == Init => ShapeInv
<1> SUFFICES ASSUME Init PROVE ShapeInv
  OBVIOUS
<1>1. ckpt = Blank /\ mem = Blank /\ log = <<>> /\ topSeq = 0 /\ nextSeq = 1
  BY DEF Init
<1>2. DiskOK
  <2>1. torn \in BOOLEAN /\ entered \in BOOLEAN
    BY Zenon DEF Init
  <2>2. QED
    BY <1>1, <2>1, BlankType DEF DiskOK, Init
<1>3. ProcOK
  BY <1>1, BlankType DEF ProcOK, Init
<1>4. HistOK
  BY DEF Init, HistOK, Contents
<1>5. Numbered
  BY <1>1 DEF Numbered, JournalOrdered, Init
<1>6. QED
  BY <1>2, <1>3, <1>4, <1>5 DEF ShapeInv, TypeOK

\* An open that recovers serves a state.
LEMMA OpenRecoverShape ==
  ASSUME ShapeInv, OpenRecover
  PROVE  ShapeInv'
<1>1. ckpt \in States /\ log \in Logs /\ topSeq \in Nat
  BY DEF ShapeInv, TypeOK, DiskOK, Logs
<1>2. mem' \in States /\ Len(mem'.history) <= MaxHistory
  <2>1. Below(log, topSeq)
    BY DEF ShapeInv, Numbered, JournalOrdered, Below
  <2>2. RecoveredSeq(ckpt, log) \in Nat
    BY <1>1, <2>1, RecoveredSeqProperty
  <2>3. OpenEpoch(ckpt, log) \in 0 .. MaxEpoch
    <3>1. RecoveredEpoch(ckpt, log) \in Nat
      BY <1>1, RecoveredTypes
    <3>2. OpenEpoch(ckpt, log) \in Nat
      BY <3>1 DEF OpenEpoch
    <3>3. QED
      BY <3>2, StoreAssumption DEF OpenRecover
  <2>4. OpenBoot(ckpt, log) \in 0 .. MaxBoot
    <3>1. RecoveredBoot(ckpt, log) \in Nat
      BY <1>1, RecoveredTypes
    <3>2. OpenBoot(ckpt, log) \in Nat
      BY <3>1 DEF OpenBoot
    <3>3. QED
      BY <3>2, StoreAssumption DEF OpenRecover
  <2>5. /\ RecoveredEntries(ckpt, log) \in [Ids -> Contents]
        /\ RecoveredHistory(ckpt, log) \in Seq(Points)
        /\ Len(RecoveredHistory(ckpt, log)) <= MaxHistory
    BY <1>1, RecoveredTypes
  <2>6. QED
    BY <2>2, <2>3, <2>4, <2>5 DEF OpenRecover, States
<1>3. DiskOK' /\ HistOK'
  BY Zenon DEF ShapeInv, TypeOK, DiskOK, HistOK, OpenRecover, disk, hist
<1>4. ProcOK'
  BY <1>2 DEF ShapeInv, TypeOK, ProcOK, OpenRecover, Opening
<1>5. Numbered'
  BY DEF ShapeInv, Numbered, JournalOrdered, OpenRecover, disk
<1>6. QED
  BY <1>3, <1>4, <1>5 DEF ShapeInv, TypeOK

\* Journal::open goes on with the journal it finds; what it keeps of a torn one
\* ends with a Commit.
LEMMA OpenExistingShape ==
  ASSUME ShapeInv, OpenExistingJournal
  PROVE  ShapeInv'
<1>1. /\ UNCHANGED <<ckpt, file, log, entered, mem, hist>>
      /\ pc' = "journal" /\ torn' = FALSE /\ nextSeq' = topSeq + 1
      /\ topSeq' = IF torn THEN CommittedTop ELSE topSeq
      /\ file # "absent"
  BY DEF OpenExistingJournal
<1>2. topSeq \in Nat /\ log \in Logs
  BY DEF ShapeInv, TypeOK, DiskOK, Logs
<1>3. DOMAIN log = 1 .. Len(log) /\ Len(log) \in Nat
      /\ \A j \in DOMAIN log : log[j].seq \in Nat /\ log[j].seq < topSeq
  <2>1. /\ DOMAIN log = 1 .. Len(log) /\ Len(log) \in Nat
        /\ log \in [1 .. Len(log) -> [seq : Nat, op : Records]]
    BY <1>2, LenProperties DEF Logs
  <2>2. \A j \in DOMAIN log : log[j].seq \in Nat
    BY <2>1
  <2>3. QED
    BY <2>1, <2>2 DEF ShapeInv, Numbered, JournalOrdered
<1>4. /\ CommittedTop \in Nat /\ CommittedTop <= topSeq
      /\ \A j \in DOMAIN log : log[j].seq < CommittedTop
  <2>1. CASE log = <<>>
    BY <1>2, <2>1 DEF CommittedTop
  <2>2. CASE log # <<>>
    <3>1. Len(log) \in DOMAIN log
      <4>1. Len(log) # 0
        BY <1>2, <2>2 DEF Logs
      <4>2. QED
        BY <1>3, <4>1
    <3>2. CommittedTop = log[Len(log)].seq + 1
      BY <2>2 DEF CommittedTop
    <3>3. CommittedTop \in Nat /\ CommittedTop <= topSeq
      BY <1>2, <1>3, <3>1, <3>2
    <3>4. ASSUME NEW j \in DOMAIN log PROVE log[j].seq < CommittedTop
      <4>1. CASE j = Len(log)
        BY <1>3, <3>1, <3>2, <4>1
      <4>2. CASE j # Len(log)
        <5>1. j \in 1 .. (Len(log) - 1)
          BY <1>3, <4>2
        <5>2. log[j].seq < log[Len(log)].seq
          BY <3>1, <5>1 DEF ShapeInv, Numbered, JournalOrdered
        <5>3. QED
          BY <1>3, <3>1, <3>2, <5>2
      <4>3. QED
        BY <4>1, <4>2
    <3>5. QED
      BY <3>3, <3>4
  <2>3. QED
    BY <2>1, <2>2
<1>5. topSeq' \in Nat /\ topSeq' <= topSeq
      /\ \A j \in DOMAIN log : log[j].seq < topSeq'
  <2>1. topSeq' = CommittedTop \/ topSeq' = topSeq
    BY <1>1
  <2>2. QED
    BY <1>2, <1>3, <1>4, <2>1
<1>6. torn' \in BOOLEAN /\ entered' \in BOOLEAN
  BY <1>1, Zenon DEF ShapeInv, TypeOK, DiskOK
<1>7. DiskOK'
  BY <1>1, <1>5, <1>6 DEF ShapeInv, TypeOK, DiskOK
<1>8. ProcOK'
  BY <1>1, <1>2 DEF ShapeInv, TypeOK, ProcOK, Opening
<1>9. HistOK'
  BY <1>1 DEF ShapeInv, TypeOK, HistOK, hist
<1>10. JournalOrdered'
  BY <1>1, <1>5 DEF ShapeInv, Numbered, JournalOrdered
<1>11. Numbered'
  BY <1>1, <1>2, <1>5, <1>10 DEF Numbered
<1>12. QED
  BY <1>7, <1>8, <1>9, <1>11 DEF ShapeInv, TypeOK

\* Journal::open creates a journal.
LEMMA OpenShape ==
  ASSUME ShapeInv, OpenCreatesJournal \/ OpenWritesHeader
  PROVE  ShapeInv'
<1> USE DEF OpenCreatesJournal, OpenWritesHeader
<1>1. torn' \in BOOLEAN /\ entered' \in BOOLEAN
  BY Zenon DEF ShapeInv, TypeOK, DiskOK
<1>2. DiskOK'
  BY <1>1 DEF ShapeInv, TypeOK, DiskOK
<1>3. ProcOK'
  BY DEF ShapeInv, TypeOK, DiskOK, ProcOK, Opening
<1>4. HistOK'
  BY DEF ShapeInv, TypeOK, HistOK, hist
<1>5. Numbered'
  BY DEF ShapeInv, TypeOK, DiskOK, Numbered, JournalOrdered
<1>6. QED
  BY <1>2, <1>3, <1>4, <1>5 DEF ShapeInv, TypeOK

\* A process that ends leaves the journal as it last was.
LEMMA DownShape ==
  ASSUME DiskOK', HistOK', JournalOrdered', file' = "absent" => topSeq' = 0,
         pc' = "down", mem' = Blank, nextSeq' = 1
  PROVE  ShapeInv'
<1>1. ProcOK'
  BY BlankType DEF ProcOK
<1>2. Numbered'
  BY DEF Numbered
<1>3. QED
  BY <1>1, <1>2 DEF ShapeInv, TypeOK

\* A process that gave out numbers beyond those on disk goes on, or starts,
\* serving.
LEMMA ReadyShape ==
  ASSUME ShapeInv, DiskOK', HistOK', JournalOrdered',
         file' = "absent" => topSeq' = 0, topSeq' < nextSeq', nextSeq' \in Nat,
         pc' = "ready", mem' \in States, Len(mem'.history) <= MaxHistory
  PROVE  ShapeInv'
<1>1. ProcOK'
  BY DEF ShapeInv, TypeOK, ProcOK, Serving
<1>2. Numbered'
  BY DEF Numbered
<1>3. QED
  BY <1>1, <1>2 DEF ShapeInv, TypeOK

LEMMA OpenRecordShape ==
  ASSUME ShapeInv, OpenRecord
  PROVE  ShapeInv'
<1>1. mem \in States /\ Len(mem.history) <= MaxHistory /\ nextSeq \in Nat
  BY DEF ShapeInv, TypeOK, ProcOK
<1>2. EpochOp(mem.epoch, mem.boot) \in Records
  BY <1>1, StoreAssumption DEF EpochOp, Records, States
<1>3. /\ DiskOK' /\ JournalOrdered' /\ topSeq' < nextSeq' /\ nextSeq' \in Nat
      /\ file' = "absent" => topSeq' = 0
  BY <1>1, <1>2, LoggedShape DEF OpenRecord
<1>4. HistOK'
  BY <1>1, StoreAssumption DEF OpenRecord, HistOK, States
<1>5. QED
  BY <1>1, <1>3, <1>4, ReadyShape DEF OpenRecord

\* The mutations hand out three numbers and leave a state.
LEMMA MutateShape ==
  ASSUME ShapeInv, NEW op \in Records, NEW state \in States,
         Len(state.history) <= MaxHistory, Mutate(op, state)
  PROVE  ShapeInv'
<1>1. /\ DiskOK' /\ JournalOrdered' /\ topSeq' < nextSeq' /\ nextSeq' \in Nat
      /\ file' = "absent" => topSeq' = 0
  BY LoggedShape DEF Mutate, ShapeInv, TypeOK, ProcOK
<1>2. HistOK'
  BY AcknowledgeType DEF Mutate, ShapeInv, TypeOK
<1>3. mem' \in States /\ mem'.history = state.history
  <2>1. nextSeq + 2 \in Nat
    BY DEF ShapeInv, TypeOK, ProcOK
  <2>2. [state EXCEPT !.lastSeq = nextSeq + 2] \in States
    BY <2>1 DEF States
  <2>3. [state EXCEPT !.lastSeq = nextSeq + 2].history = state.history
    BY DEF States
  <2>4. QED
    BY <2>2, <2>3 DEF Mutate
<1>4. QED
  BY <1>1, <1>2, <1>3, ReadyShape DEF Mutate

LEMMA MutationShape ==
  ASSUME ShapeInv, Mutation
  PROVE  ShapeInv'
<1>1. mem \in States /\ Len(mem.history) <= MaxHistory
  BY DEF ShapeInv, TypeOK, ProcOK
<1>2. ASSUME NEW id \in Ids, NEW content \in Contents,
             Write(WriteOp(id, content))
      PROVE  ShapeInv'
  <2> DEFINE op == WriteOp(id, content)
             state == [mem EXCEPT !.entries[id] = content]
  <2>1. op \in Records /\ state \in States /\ state.history = mem.history
    BY <1>1 DEF WriteOp, Records, States
  <2>2. Mutate(op, state)
    BY <1>2 DEF Write, WriteOp
  <2> HIDE DEF op, state
  <2>3. QED
    BY <1>1, <2>1, <2>2, MutateShape
<1>3. ASSUME NEW k \in Keys, NEW c \in Values, PutConfiguration(k, c)
      PROVE  ShapeInv'
  BY <1>2, <1>3 DEF PutConfiguration, Ids, Contents
<1>4. ASSUME NEW k \in Keys, RemoveConfiguration(k)
      PROVE  ShapeInv'
  BY <1>2, <1>4 DEF RemoveConfiguration, Ids, Contents
<1>5. ASSUME NEW s \in Sources, NEW flag \in {Current, Revalidate},
             PutEvidenceReference(s, flag)
      PROVE  ShapeInv'
  BY <1>2, <1>5 DEF PutEvidenceReference, Ids, Contents
<1>6. ASSUME NEW h \in Holders, GrantLiveAuthority(h)
      PROVE  ShapeInv'
  <2>1. Claim(mem.epoch, mem.boot) \in Contents
    BY <1>1 DEF Claim, Contents, States
  <2>2. QED
    BY <1>2, <1>6, <2>1 DEF GrantLiveAuthority, Ids
<1>7. ASSUME NEW p \in Points, AppendHistory(p)
      PROVE  ShapeInv'
  <2> DEFINE state == [mem EXCEPT !.history = Trim(Append(@, p))]
  <2>1. Append(mem.history, p) \in Seq(Points)
    BY <1>1, AppendProperties DEF States
  <2>2. /\ Trim(Append(mem.history, p)) \in Seq(Points)
        /\ Len(Trim(Append(mem.history, p))) <= MaxHistory
    BY <2>1, TrimProperty
  <2>3. state \in States /\ Len(state.history) <= MaxHistory
    BY <1>1, <2>2 DEF States
  <2>4. HistoryOp(p) \in Records
    BY DEF HistoryOp, Records
  <2>5. Mutate(HistoryOp(p), state)
    BY <1>7 DEF AppendHistory
  <2> HIDE DEF state
  <2>6. QED
    BY <2>3, <2>4, <2>5, MutateShape
<1>8. ASSUME AdvanceEpoch PROVE ShapeInv'
  <2> DEFINE state == [mem EXCEPT !.epoch = @ + 1]
  <2>1. state \in States /\ state.history = mem.history
    BY <1>1, <1>8, StoreAssumption DEF AdvanceEpoch, States
  <2>2. EpochOp(mem.epoch + 1, mem.boot) \in Records
    BY <1>1, StoreAssumption DEF EpochOp, Records, States
  <2>3. Mutate(EpochOp(mem.epoch + 1, mem.boot), state)
    BY <1>8 DEF AdvanceEpoch
  <2> HIDE DEF state
  <2>4. QED
    BY <1>1, <2>1, <2>2, <2>3, MutateShape
<1>9. ASSUME MutationFails PROVE ShapeInv'
  <2>1. PICK op \in Unfinished, outcome \in {"kept", "none", "torn"} :
          /\ HalfLogged(op, outcome) /\ Attempt(op)
          /\ \E used \in 0 .. 3 : nextSeq' = nextSeq + used
          /\ topSeq' < nextSeq' /\ pc' = pc /\ mem' = mem
    BY <1>9 DEF MutationFails, Consumed
  <2>2. /\ nextSeq' \in Nat /\ topSeq' < nextSeq'
        /\ pc' = pc /\ mem' = mem
    BY <2>1 DEF ShapeInv, TypeOK, ProcOK
  <2>3. op \in Records /\ pc = "ready"
    BY <2>1, WriteOpsType DEF ShapeInv, Unfinished
  <2>4. HistOK'
    BY <2>1, <2>3, AttemptType DEF ShapeInv, TypeOK
  <2>5. /\ DiskOK' /\ JournalOrdered' /\ topSeq' < nextSeq + 3
        /\ file' = "absent" => topSeq' = 0
    BY <2>1, <2>3, HalfLoggedShape
  <2>6. QED
    BY <1>1, <2>2, <2>3, <2>4, <2>5, ReadyShape
<1>10. QED
  BY <1>3, <1>4, <1>5, <1>6, <1>7, <1>8, <1>9 DEF Mutation

\* An open that fails to record its incarnation, and the record its destructor
\* writes.
LEMMA OpenRecordFailsShape ==
  ASSUME ShapeInv, OpenRecordFails
  PROVE  ShapeInv'
<1>1. /\ nextSeq \in Nat /\ topSeq \in Nat /\ topSeq < nextSeq /\ log \in Logs
      /\ torn \in BOOLEAN /\ mem \in States
  BY DEF OpenRecordFails, ShapeInv, TypeOK, DiskOK, ProcOK, Numbered, Logs
<1>2. HistOK'
  BY DEF OpenRecordFails, ShapeInv, TypeOK, HistOK, hist
<1>3. pc = "journal" /\ pc' = "down" /\ mem' = Blank /\ nextSeq' = 1
  BY DEF OpenRecordFails, Down
<1>4. PICK outcome \in {"kept", "none", "torn"} :
        IF outcome = "torn" THEN Tears
          ELSE /\ file' = IF file = "empty" THEN "bad" ELSE file
               /\ UNCHANGED <<ckpt, torn, entered>>
               /\ \E used \in Consumed(outcome) :
                    LET incarnation == [seq |-> nextSeq + 1,
                                        op |-> EpochOp(mem.epoch, mem.boot)]
                        shutdown == [seq |-> nextSeq + used + 1, op |-> CleanOp]
                        before == IF outcome = "kept"
                                    THEN Append(log, incarnation) ELSE log
                    IN  IF file = "ok"
                          THEN /\ log' = Append(before, shutdown)
                               /\ topSeq' = nextSeq + used + 2
                          ELSE UNCHANGED <<log, topSeq>>
  BY DEF OpenRecordFails
<1>5. Below(log, topSeq) /\ Ascending(log) /\ (file = "absent" => topSeq = 0)
  BY DEF ShapeInv, Numbered, JournalOrdered, Below, Ascending
<1>6. CleanOp \in Records /\ EpochOp(mem.epoch, mem.boot) \in Records
  BY <1>1, StoreAssumption DEF CleanOp, EpochOp, Records, States
<1>7. CASE outcome = "torn"
  BY <1>2, <1>3, <1>4, <1>7, TearsShape, DownShape
<1>8. CASE outcome # "torn"
  <2>1. torn' \in BOOLEAN /\ file' \in {"absent", "empty", "ok", "bad"}
        /\ UNCHANGED <<ckpt, entered>>
    <3>1. torn' \in BOOLEAN
      BY <1>1, <1>4, <1>8, Zenon
    <3>2. file' \in {"absent", "empty", "ok", "bad"} /\ UNCHANGED <<ckpt, entered>>
      BY <1>4, <1>8 DEF ShapeInv, TypeOK, DiskOK
    <3>3. QED
      BY <3>1, <3>2
  <2>2. /\ log' \in Logs /\ topSeq' \in Nat
        /\ Below(log', topSeq') /\ Ascending(log')
        /\ file' = "absent" => topSeq' = 0
    <3>1. CASE UNCHANGED <<log, topSeq>>
      BY <1>1, <1>4, <1>5, <1>8, <3>1
    <3>2. CASE file = "ok"
      <4> DEFINE before ==
                   IF outcome = "kept"
                     THEN Append(log, [seq |-> nextSeq + 1,
                                       op |-> EpochOp(mem.epoch, mem.boot)])
                     ELSE log
      <4>1. PICK used \in Consumed(outcome) :
              /\ log' = Append(before, [seq |-> nextSeq + used + 1, op |-> CleanOp])
              /\ topSeq' = nextSeq + used + 2 /\ file' = "ok"
        BY <1>4, <1>8, <3>2
      <4> DEFINE top == IF outcome = "kept" THEN nextSeq + 2 ELSE nextSeq
      <4>2. before \in Logs /\ Ascending(before) /\ Below(before, top)
        <5>1. CASE outcome = "kept"
          <6>1. topSeq <= nextSeq + 1 /\ nextSeq + 1 \in Nat
            BY <1>1
          <6>2. /\ before \in Logs /\ Ascending(before)
                /\ \A b \in Nat : nextSeq + 1 < b => Below(before, b)
            BY <1>1, <1>5, <1>6, <5>1, <6>1, AppendAscends
          <6>3. top = nextSeq + 2 /\ top \in Nat /\ nextSeq + 1 < top
            BY <1>1, <5>1
          <6> HIDE DEF before, top
          <6>4. QED
            BY <6>2, <6>3
        <5>2. CASE outcome # "kept"
          <6>1. \A i \in DOMAIN log : log[i].seq \in Nat
            <7>1. log \in [1 .. Len(log) -> [seq : Nat, op : Records]]
              BY <1>1, LenProperties DEF Logs
            <7>2. QED
              BY <7>1
          <6>2. QED
            BY <1>1, <1>5, <5>2, <6>1 DEF Below
        <5>3. QED
          BY <5>1, <5>2
      <4> HIDE DEF before
      <4>3. /\ top \in Nat /\ nextSeq + used + 1 \in Nat
            /\ top <= nextSeq + used + 1 /\ topSeq' \in Nat
            /\ nextSeq + used + 1 < topSeq'
        BY <1>1, <4>1 DEF Consumed
      <4> HIDE DEF top
      <4>4. /\ log' \in Logs /\ Ascending(log')
            /\ \A b \in Nat : nextSeq + used + 1 < b => Below(log', b)
        BY <1>6, <4>1, <4>2, <4>3, AppendAscends
      <4>5. QED
        BY <4>1, <4>3, <4>4
    <3>3. QED
      BY <1>4, <1>8, <3>1, <3>2
  <2>3. DiskOK' /\ JournalOrdered'
    BY <2>1, <2>2 DEF ShapeInv, TypeOK, DiskOK, JournalOrdered, Logs, Below,
       Ascending
  <2>4. QED
    BY <1>2, <1>3, <2>2, <2>3, DownShape
<1>9. QED
  BY <1>7, <1>8

LEMMA CompactShape ==
  ASSUME ShapeInv, Compact
  PROVE  ShapeInv'
<1> USE DEF CompactPublish, CompactGivesUp, CompactRemove, CompactCreates,
            CompactLosesJournal, CompactFinish
<1>1. torn' \in BOOLEAN /\ entered' \in BOOLEAN
  BY Zenon DEF Compact, ShapeInv, TypeOK, DiskOK, disk
<1>2. log' \in Seq([seq : Nat, op : Records]) /\ topSeq' \in Nat
  <2>1. <<>> \in Seq([seq : Nat, op : Records])
    OBVIOUS
  <2>2. (log' = log \/ log' = <<>>) /\ (topSeq' = topSeq \/ topSeq' = 0)
    BY DEF Compact, disk
  <2>3. log \in Seq([seq : Nat, op : Records]) /\ topSeq \in Nat
    BY Zenon DEF ShapeInv, TypeOK, DiskOK
  <2>4. log' \in Seq([seq : Nat, op : Records])
    BY <2>1, <2>2, <2>3, Zenon
  <2>5. QED
    BY <2>2, <2>3, <2>4
<1>3. DiskOK'
  BY <1>1, <1>2 DEF Compact, ShapeInv, TypeOK, DiskOK, ProcOK, disk
<1>4. nextSeq' \in Nat /\ pc' \in Serving /\ mem' = mem
  <2>1. mem' = mem /\ (nextSeq' = nextSeq \/ nextSeq' = mem.lastSeq + 1)
    BY DEF Compact
  <2>2. pc' \in Serving
    BY DEF Compact, Serving, Compacting
  <2>3. mem.lastSeq \in Nat /\ nextSeq \in Nat
    BY DEF ShapeInv, TypeOK, ProcOK, States
  <2>4. QED
    BY <2>1, <2>2, <2>3
<1>5. ProcOK' /\ HistOK'
  BY <1>4 DEF Compact, ShapeInv, TypeOK, ProcOK, HistOK, hist
<1>6. Numbered'
  <2>1. mem.lastSeq \in Nat
    BY DEF ShapeInv, TypeOK, ProcOK, States
  <2>2. CASE CompactRemove
    BY <2>2 DEF Numbered, JournalOrdered
  <2>3. CASE CompactFinish
    BY <2>1, <2>3 DEF ShapeInv, Numbered, JournalOrdered
  <2>4. CASE CompactPublish \/ CompactGivesUp \/ CompactCreates
               \/ CompactLosesJournal
    BY <2>4 DEF ShapeInv, Numbered, JournalOrdered, disk
  <2>5. QED
    BY <2>2, <2>3, <2>4 DEF Compact
<1>7. QED
  BY <1>3, <1>5, <1>6 DEF ShapeInv, TypeOK

LEMMA StopShape ==
  ASSUME ShapeInv, Stop
  PROVE  ShapeInv'
<1>1. pc' = "down" /\ mem' = Blank /\ nextSeq' = 1
  BY DEF Stop, Close, CloseFails, CloseWithoutJournal, Crash, CrashInMutation,
         PowerLoss, Down
<1>2. CleanOp \in Records
  BY DEF CleanOp, Records
<1>3. CASE Close
  <2>1. DiskOK' /\ JournalOrdered' /\ (file' = "absent" => topSeq' = 0)
    BY <1>2, <1>3, LoggedShape DEF Close
  <2>2. HistOK'
    BY <1>2, <1>3, AcknowledgeType DEF Close, ShapeInv, TypeOK
  <2>3. QED
    BY <1>1, <2>1, <2>2, DownShape
<1>4. CASE CloseFails
  <2>1. PICK outcome \in {"kept", "none", "torn"} : HalfLogged(CleanOp, outcome)
    BY <1>4 DEF CloseFails
  <2>2. DiskOK' /\ JournalOrdered' /\ (file' = "absent" => topSeq' = 0)
    BY <1>2, <1>4, <2>1, HalfLoggedShape DEF CloseFails
  <2>3. HistOK'
    BY <1>2, <1>4, AttemptType DEF CloseFails, ShapeInv, TypeOK
  <2>4. QED
    BY <1>1, <2>2, <2>3, DownShape
<1>5. CASE CloseWithoutJournal \/ Crash
  <2>1. UNCHANGED <<disk, hist>>
    BY <1>5 DEF CloseWithoutJournal, Crash
  <2>2. DiskOK' /\ HistOK'
    BY <2>1, Zenon DEF ShapeInv, TypeOK, DiskOK, HistOK, disk, hist
  <2>3. JournalOrdered' /\ (file' = "absent" => topSeq' = 0)
    BY <2>1 DEF ShapeInv, Numbered, JournalOrdered, disk
  <2>4. QED
    BY <1>1, <2>2, <2>3, DownShape
<1>6. CASE CrashInMutation
  <2>1. ASSUME NEW op \in Unfinished \cup (IF pc = "ready" THEN {CleanOp} ELSE {}),
               Logged(op), Attempt(op)
        PROVE  ShapeInv'
    <3>1. op \in Records /\ pc = "ready"
      BY <1>2, <2>1, WriteOpsType DEF ShapeInv, Unfinished
    <3>2. DiskOK' /\ JournalOrdered' /\ (file' = "absent" => topSeq' = 0)
      BY <2>1, <3>1, LoggedShape
    <3>3. HistOK'
      BY <2>1, <3>1, AttemptType DEF ShapeInv, TypeOK
    <3>4. QED
      BY <1>1, <3>2, <3>3, DownShape
  <2>2. ASSUME pc = "journal", Logged(EpochOp(mem.epoch, mem.boot)),
               seen' = [seen EXCEPT !.exit = IF @ = "clean" THEN "unsure" ELSE @],
               UNCHANGED <<may, mayHist, fresh>>
        PROVE  ShapeInv'
    <3>1. EpochOp(mem.epoch, mem.boot) \in Records
      BY StoreAssumption DEF EpochOp, Records, ShapeInv, TypeOK, ProcOK, States
    <3>2. DiskOK' /\ JournalOrdered' /\ (file' = "absent" => topSeq' = 0)
      BY <2>2, <3>1, LoggedShape
    <3>3. HistOK'
      BY <2>2 DEF ShapeInv, TypeOK, HistOK
    <3>4. QED
      BY <1>1, <3>2, <3>3, DownShape
  <2>3. ASSUME pc \in {"ready", "journal"}, Tears \/ Dangles, UNCHANGED hist
        PROVE  ShapeInv'
    <3>1. DiskOK' /\ JournalOrdered' /\ (file' = "absent" => topSeq' = 0)
      BY <2>3, TearsShape
    <3>2. HistOK'
      BY <2>3 DEF ShapeInv, TypeOK, HistOK, hist
    <3>3. QED
      BY <1>1, <3>1, <3>2, DownShape
  <2>4. QED
    BY <1>6, <2>1, <2>2, <2>3 DEF CrashInMutation
<1>7. CASE PowerLoss
  <2>1. torn' \in BOOLEAN /\ entered' \in BOOLEAN
    BY <1>7, Zenon DEF PowerLoss, ShapeInv, TypeOK, DiskOK
  <2>2. DiskOK' /\ HistOK'
    BY <1>7, <2>1 DEF PowerLoss, ShapeInv, TypeOK, DiskOK, HistOK, hist
  <2>3. JournalOrdered' /\ topSeq' = 0
    BY <1>7 DEF PowerLoss, JournalOrdered
  <2>4. QED
    BY <1>1, <2>2, <2>3, DownShape
<1>8. QED
  BY <1>3, <1>4, <1>5, <1>6, <1>7 DEF Stop

LEMMA NextShape ==
  ASSUME ShapeInv, [Next]_vars
  PROVE  ShapeInv'
<1>1. CASE Open
  BY <1>1, OpenRecoverShape, OpenExistingShape, OpenShape, OpenRecordShape,
     OpenRecordFailsShape
     DEF Open
<1>2. CASE Mutation
  BY <1>2, MutationShape
<1>3. CASE Compact
  BY <1>3, CompactShape
<1>4. CASE Stop
  BY <1>4, StopShape
<1>5. CASE UNCHANGED vars
  <2>1. DiskOK' /\ ProcOK' /\ HistOK'
    BY <1>5, Zenon DEF vars, disk, proc, hist, ShapeInv, TypeOK, DiskOK,
       ProcOK, HistOK
  <2>2. Numbered'
    BY <1>5 DEF vars, disk, proc, hist, ShapeInv, Numbered, JournalOrdered
  <2>3. QED
    BY <2>1, <2>2 DEF ShapeInv, TypeOK
<1>6. QED
  BY <1>1, <1>2, <1>3, <1>4, <1>5 DEF Next

\* Every variable keeps its shape and the history its bound, whatever crashes
\* or fails.
THEOREM StoreTypes == Spec => []TypeOK
<1>1. Spec => []ShapeInv
  BY InitShape, NextShape, PTL DEF Spec
<1>2. ShapeInv => TypeOK
  BY DEF ShapeInv
<1>3. QED
  BY <1>1, <1>2, PTL

\* Whatever crashes or fails, the transactions of a journal are numbered in
\* file order: replay_journal never skips one that follows one it applied.
THEOREM StoreNumbers == Spec => []JournalOrdered
<1>1. Spec => []ShapeInv
  BY InitShape, NextShape, PTL DEF Spec
<1>2. ShapeInv => JournalOrdered
  BY DEF ShapeInv, Numbered
<1>3. QED
  BY <1>1, <1>2, PTL

-----------------------------------------------------------------------------
(* What is acknowledged is kept *)

\* The hypothesis under which the code keeps its promise.
Benign == CrashWindows = {} /\ Faults \cap {"torn", "nojournal"} = {}

\* What is on disk at each step of the process.
DiskInv ==
  /\ pc \notin {"down", "recovered"} => torn = FALSE
  /\ file # "bad"
  /\ file # "ok" => log = <<>> /\ topSeq = 0 /\ torn = FALSE
  /\ pc \in {"down", "recovered"} => file # "empty" /\ ckpt.lastSeq <= topSeq
  /\ pc = "creating" => file = "empty" /\ ckpt.lastSeq < nextSeq
  /\ pc = "journal" => file = "ok" /\ ckpt.lastSeq < nextSeq
  /\ pc \in {"ready", "published"} =>
       /\ file = "ok" /\ ckpt.lastSeq <= mem.lastSeq /\ mem.lastSeq < nextSeq
  /\ pc \in Compacting => ckpt = mem
  /\ pc = "removed" => file = "absent"
  /\ pc = "recreating" => file = "empty"
  /\ pc # "nojournal"

\* What the process serves, or is about to serve, against what it may recover:
\* a checkpoint of the served state would do, together with the records of
\* mutations that failed after they reached the journal.
ServedInv ==
  /\ pc \in Opening =>
       /\ mem.entries = RecoveredEntries(ckpt, log)
       /\ mem.lastSeq = RecoveredSeq(ckpt, log)
  /\ pc \in Serving => \A id \in Ids : Fence(id, mem.entries[id]) \in may[id]
  /\ pc \in {"ready", "published"} =>
       \A i \in DOMAIN log :
         log[i].seq > mem.lastSeq /\ log[i].op.kind = "write"
           => Fence(log[i].op.key, log[i].op.val) \in may[log[i].op.key]

DurableInv == ShapeInv /\ DiskInv /\ ServedInv /\ AcknowledgedSurvive

-----------------------------------------------------------------------------
\* What a transaction adds to a journal in good order.
LEMMA LoggedRecovers ==
  ASSUME DurableInv, NEW op \in Records, Logged(op), pc \in {"journal", "ready"}
  PROVE  /\ file = "ok" /\ UNCHANGED <<ckpt, file, torn>>
         /\ topSeq' = nextSeq + 2
         /\ ckpt.lastSeq <= topSeq'
         /\ \A id \in Ids :
              RecoveredEntries(ckpt, log)'[id] =
                IF op.kind = "write" /\ op.key = id
                  THEN Fence(id, op.val) ELSE RecoveredEntries(ckpt, log)[id]
         /\ \A i \in DOMAIN log' :
              \/ i \in DOMAIN log /\ log'[i] = log[i]
              \/ log'[i] = [seq |-> nextSeq + 1, op |-> op]
         /\ \A i \in DOMAIN log' : log'[i].seq < nextSeq + 2
<1>1. /\ ckpt \in States /\ log \in Logs /\ topSeq \in Nat /\ nextSeq \in Nat
      /\ topSeq < nextSeq /\ ckpt.lastSeq \in Nat /\ mem.lastSeq \in Nat
  BY DEF DurableInv, ShapeInv, TypeOK, DiskOK, ProcOK, Numbered, States, Logs
<1>2. file = "ok" /\ torn = FALSE /\ ckpt.lastSeq < nextSeq
  BY <1>1 DEF DurableInv, DiskInv
<1>3. /\ log' = Append(log, [seq |-> nextSeq + 1, op |-> op])
      /\ topSeq' = nextSeq + 2 /\ UNCHANGED <<ckpt, file, torn>>
  BY <1>2 DEF Logged
<1>4. Below(log, topSeq) /\ Ascending(log)
  BY DEF DurableInv, ShapeInv, Numbered, JournalOrdered, Below, Ascending
<1>5. /\ nextSeq + 1 \in Nat /\ topSeq <= nextSeq + 1
      /\ ckpt.lastSeq < nextSeq + 1 /\ nextSeq + 2 \in Nat
      /\ nextSeq + 1 < nextSeq + 2
  BY <1>1, <1>2
<1>6. ASSUME NEW id \in Ids
      PROVE  RecoveredEntries(ckpt, log)'[id] =
               IF op.kind = "write" /\ op.key = id
                 THEN Fence(id, op.val) ELSE RecoveredEntries(ckpt, log)[id]
  <2>1. RecoveredEntry(ckpt, log', id) =
          IF op.kind = "write" /\ op.key = id
            THEN op.val ELSE RecoveredEntry(ckpt, log, id)
    <3>1. Extended(ckpt, log, topSeq, nextSeq + 1, op, log')
      BY <1>1, <1>3, <1>4, <1>5 DEF Extended
    <3>2. QED
      BY <3>1, AppendRecovers
  <2>2. RecoveredEntries(ckpt, log)'[id] = Fence(id, RecoveredEntry(ckpt, log', id))
    BY <1>3 DEF RecoveredEntries
  <2>3. RecoveredEntries(ckpt, log)[id] = Fence(id, RecoveredEntry(ckpt, log, id))
    BY DEF RecoveredEntries
  <2>4. QED
    BY <2>1, <2>2, <2>3
<1>7. ASSUME NEW i \in DOMAIN log'
      PROVE  \/ i \in DOMAIN log /\ log'[i] = log[i]
             \/ log'[i] = [seq |-> nextSeq + 1, op |-> op]
  <2> DEFINE rec == [seq |-> nextSeq + 1, op |-> op]
  <2>1. rec \in [seq : Nat, op : Records] /\ log' = Append(log, rec)
    BY <1>3, <1>5
  <2> HIDE DEF rec
  <2>2. /\ DOMAIN log = 1 .. Len(log) /\ DOMAIN log' = 1 .. (Len(log) + 1)
        /\ \A j \in 1 .. Len(log) : log'[j] = log[j]
        /\ log'[Len(log) + 1] = rec /\ Len(log) \in Nat
    BY <1>1, <2>1, AppendProperties, LenProperties DEF Logs
  <2>3. QED
    BY <2>2 DEF rec
<1>8. \A i \in DOMAIN log' : log'[i].seq < nextSeq + 2
  <2>1. Below(log', nextSeq + 2)
    BY <1>1, <1>3, <1>4, <1>5, AppendAscends
  <2>2. QED
    BY <2>1 DEF Below
<1>9. QED
  BY <1>1, <1>2, <1>3, <1>6, <1>7, <1>8

\* An acknowledged mutation leaves one content for its identity, and any other
\* attempt adds at most one.
LEMMA AcknowledgeMay ==
  ASSUME ShapeInv, NEW op \in Records, Acknowledge(op), NEW id \in Ids
  PROVE  may'[id] = IF op.kind = "write" /\ op.key = id
                      THEN {Fence(id, op.val)} ELSE may[id]
BY DEF ShapeInv, TypeOK, HistOK, Acknowledge

LEMMA AttemptMay ==
  ASSUME ShapeInv, NEW op \in Records, Attempt(op), NEW id \in Ids
  PROVE  /\ may[id] \subseteq may'[id]
         /\ op.kind = "write" /\ op.key = id => Fence(id, op.val) \in may'[id]
BY DEF ShapeInv, TypeOK, HistOK, Attempt

-----------------------------------------------------------------------------
(* DurableInv is inductive *)

\* What every step has to establish; ShapeInv has been dealt with.
Kept == DiskInv /\ ServedInv /\ AcknowledgedSurvive

LEMMA InitDurable == Init => DurableInv
<1> SUFFICES ASSUME Init PROVE Kept
  BY InitShape DEF DurableInv, Kept
<1>1. DiskInv
  BY DEF Init, DiskInv, Blank, Compacting
<1>2. ServedInv
  BY DEF Init, ServedInv, Opening, Serving, Compacting
<1>3. ASSUME NEW id \in Ids PROVE RecoveredEntries(ckpt, log)[id] \in may[id]
  <2>1. RecoveredEntry(ckpt, log, id) = Absent
    BY RecoveredFromCheckpoint DEF Init, Blank
  <2>2. QED
    BY <2>1 DEF Init, RecoveredEntries, Fence
<1>4. QED
  BY <1>1, <1>2, <1>3 DEF Kept, AcknowledgedSurvive

\* The opens that only read, or only touch an empty journal.
LEMMA OpenDurable ==
  ASSUME DurableInv, OpenRecover \/ OpenExistingJournal \/ OpenCreatesJournal
                     \/ OpenWritesHeader
  PROVE  Kept'
<1> USE DEF OpenRecover, OpenExistingJournal, OpenCreatesJournal, OpenWritesHeader
<1>1. /\ file \in {"absent", "empty", "ok", "bad"}
      /\ ckpt.lastSeq \in Nat /\ topSeq \in Nat
  BY DEF DurableInv, ShapeInv, TypeOK, DiskOK, States
<1>2. DiskInv'
  BY <1>1 DEF DurableInv, DiskInv, disk, Compacting
<1>3. UNCHANGED <<ckpt, log, may>>
  BY DEF disk, hist
<1>4. ServedInv'
  <2>1. CASE OpenRecover
    <3>1. /\ mem'.entries = RecoveredEntries(ckpt, log)
          /\ mem'.lastSeq = RecoveredSeq(ckpt, log) /\ pc' = "recovered"
      BY <2>1
    <3>2. QED
      BY <1>3, <3>1 DEF ServedInv, Serving, Compacting
  <2>2. CASE OpenExistingJournal \/ OpenCreatesJournal \/ OpenWritesHeader
    <3>1. mem' = mem /\ pc \in Opening /\ pc' \in {"creating", "journal"}
      BY <2>2 DEF Opening
    <3>2. QED
      BY <1>3, <3>1 DEF DurableInv, ServedInv, Serving, Compacting
  <2>3. QED
    BY <2>1, <2>2
<1>5. AcknowledgedSurvive'
  BY <1>3 DEF DurableInv, AcknowledgedSurvive
<1>6. QED
  BY <1>2, <1>4, <1>5 DEF Kept

\* Recording the incarnation settles what every identity holds.
LEMMA OpenRecordDurable ==
  ASSUME DurableInv, OpenRecord
  PROVE  Kept'
<1> DEFINE op == EpochOp(mem.epoch, mem.boot)
<1>1. /\ mem \in States /\ ckpt \in States /\ log \in Logs
      /\ topSeq \in Nat /\ nextSeq \in Nat /\ topSeq < nextSeq
      /\ Below(log, topSeq) /\ Ascending(log)
  BY DEF OpenRecord, DurableInv, ShapeInv, TypeOK, DiskOK, ProcOK, Numbered,
         JournalOrdered, Logs, Below, Ascending
<1>2. op \in Records /\ op.kind = "epoch"
  BY <1>1, StoreAssumption DEF EpochOp, Records, States
<1>3. /\ Logged(op) /\ pc = "journal" /\ pc' = "ready" /\ mem' = mem
      /\ nextSeq' = nextSeq + 3
      /\ may' = [id \in Ids |-> {mem.entries[id]}]
  BY DEF OpenRecord
<1> HIDE DEF op
<1>4. /\ file = "ok" /\ UNCHANGED <<ckpt, file, torn>>
      /\ \A id \in Ids : RecoveredEntries(ckpt, log)'[id] =
                           RecoveredEntries(ckpt, log)[id]
      /\ \A i \in DOMAIN log' : \/ i \in DOMAIN log /\ log'[i] = log[i]
                                \/ log'[i] = [seq |-> nextSeq + 1, op |-> op]
  BY <1>2, <1>3, LoggedRecovers
<1>5. /\ mem.entries = RecoveredEntries(ckpt, log)
      /\ mem.lastSeq = RecoveredSeq(ckpt, log)
  BY <1>3 DEF DurableInv, ServedInv, Opening
<1>6. /\ ckpt.lastSeq <= mem.lastSeq
      /\ mem.lastSeq = ckpt.lastSeq \/ mem.lastSeq < topSeq
      /\ \A i \in Applied(ckpt, log) : log[i].seq <= mem.lastSeq
  BY <1>1, <1>5, RecoveredSeqProperty
<1>7. mem.lastSeq < nextSeq /\ ckpt.lastSeq \in Nat /\ mem.lastSeq \in Nat
  BY <1>1, <1>3, <1>6 DEF DurableInv, DiskInv, States
<1>8. DiskInv'
  BY <1>1, <1>3, <1>4, <1>6, <1>7 DEF DurableInv, DiskInv, Compacting
<1>9. \A id \in Ids : Fence(id, mem.entries[id]) = mem.entries[id]
  BY <1>5, FenceTwice DEF RecoveredEntries
<1>10. ASSUME NEW i \in DOMAIN log', log'[i].seq > mem.lastSeq,
              log'[i].op.kind = "write"
       PROVE  FALSE
  <2>1. log'[i] # [seq |-> nextSeq + 1, op |-> op]
    BY <1>2, <1>10
  <2>2. i \in DOMAIN log /\ log'[i] = log[i]
    BY <1>4, <2>1
  <2>3. log[i].seq \in Nat
    <3>1. DOMAIN log = 1 .. Len(log)
          /\ log \in [1 .. Len(log) -> [seq : Nat, op : Records]]
      BY <1>1, LenProperties DEF Logs
    <3>2. QED
      BY <2>2, <3>1
  <2>4. CASE ckpt.lastSeq < log[i].seq
    <3>1. i \in Applied(ckpt, log)
      BY <1>1, <2>2, <2>4, AppliedInOrder
    <3>2. log[i].seq <= mem.lastSeq /\ log[i].seq > mem.lastSeq
      BY <1>6, <1>10, <2>2, <3>1
    <3>3. QED
      BY <1>7, <2>3, <3>2
  <2>5. CASE ~ (ckpt.lastSeq < log[i].seq)
    <3>1. log[i].seq > mem.lastSeq
      BY <1>10, <2>2
    <3>2. QED
      BY <1>6, <1>7, <2>3, <2>5, <3>1
  <2>6. QED
    BY <2>4, <2>5
<1>11. ServedInv'
  BY <1>3, <1>9, <1>10 DEF ServedInv, Opening, Compacting
<1>12. AcknowledgedSurvive'
  <2>1. \A id \in Ids : RecoveredEntries(ckpt, log)'[id] = mem.entries[id]
    BY <1>4, <1>5
  <2>2. \A id \in Ids : mem.entries[id] \in may'[id]
    BY <1>3
  <2>3. QED
    BY <2>1, <2>2 DEF AcknowledgedSurvive
<1>13. QED
  BY <1>8, <1>11, <1>12 DEF Kept

\* A process that ends outside the fragile windows leaves files an open can use.
LEMMA DownDurable ==
  ASSUME Benign, Down, AcknowledgedSurvive', file' # "bad",
         file' # "ok" => log' = <<>> /\ topSeq' = 0 /\ torn' = FALSE,
         ckpt'.lastSeq \in Nat, topSeq' \in Nat
  PROVE  Kept'
<1>1. Window' = {} /\ pc' = "down"
  BY DEF Benign, Down
<1>2. ~ (topSeq' < ckpt'.lastSeq) /\ file' # "empty"
  BY <1>1 DEF Window
<1>3. DiskInv'
  BY <1>1, <1>2 DEF DiskInv, Compacting
<1>4. ServedInv'
  BY <1>1 DEF ServedInv, Opening, Serving, Compacting
<1>5. QED
  BY <1>3, <1>4 DEF Kept

\* Ending after a transaction that reached the journal, acknowledged or not.
LEMMA LoggedDown ==
  ASSUME Benign, DurableInv, ShapeInv', NEW op \in Records, Logged(op),
         pc \in {"journal", "ready"}, Down,
         \A id \in Ids : may[id] \subseteq may'[id],
         op.kind = "write" => Fence(op.key, op.val) \in may'[op.key]
  PROVE  Kept'
<1>1. /\ file = "ok" /\ UNCHANGED <<ckpt, file, torn>>
      /\ \A id \in Ids :
           RecoveredEntries(ckpt, log)'[id] =
             IF op.kind = "write" /\ op.key = id
               THEN Fence(id, op.val) ELSE RecoveredEntries(ckpt, log)[id]
  BY LoggedRecovers
<1>2. AcknowledgedSurvive'
  BY <1>1 DEF DurableInv, AcknowledgedSurvive
<1>3. file' = "ok"
  BY <1>1
<1>4. ckpt'.lastSeq \in Nat /\ topSeq' \in Nat
  BY DEF ShapeInv, TypeOK, DiskOK, States
<1>5. QED
  BY <1>2, <1>3, <1>4, DownDurable

\* Ending with the files as they are.
LEMMA UntouchedDown ==
  ASSUME Benign, DurableInv, Down, UNCHANGED <<disk, may>>
  PROVE  Kept'
<1>1. UNCHANGED <<ckpt, file, log, topSeq, torn, may>>
  BY DEF disk
<1>2. AcknowledgedSurvive'
  BY <1>1 DEF DurableInv, AcknowledgedSurvive
<1>3. ckpt'.lastSeq \in Nat /\ topSeq' \in Nat
  BY <1>1 DEF DurableInv, ShapeInv, TypeOK, DiskOK, States
<1>4. QED
  BY <1>1, <1>2, <1>3, DownDurable DEF DurableInv, DiskInv

\* Ending with a transaction that was cut off.
LEMMA CutDown ==
  ASSUME Benign, DurableInv, ShapeInv', Down, Dangles \/ Tears, UNCHANGED may,
         pc \in {"ready", "journal"}
  PROVE  Kept'
<1>1. UNCHANGED <<ckpt, file, log>> /\ file = "ok"
  BY DEF Dangles, Tears, DurableInv, DiskInv
<1>2. AcknowledgedSurvive'
  BY <1>1 DEF DurableInv, AcknowledgedSurvive
<1>3. ckpt'.lastSeq \in Nat /\ topSeq' \in Nat
  BY DEF ShapeInv, TypeOK, DiskOK, States
<1>4. QED
  BY <1>1, <1>2, <1>3, DownDurable

\* An open that cannot record its incarnation leaves that record or nothing,
\* and the CleanShutdown of the destructor after it.
LEMMA OpenRecordFailsExtends ==
  ASSUME Benign, DurableInv, OpenRecordFails
  PROVE  /\ pc = "journal" /\ file' = "ok" /\ UNCHANGED <<ckpt, hist>> /\ Down
         /\ CleanOp \in Records /\ CleanOp.kind = "clean"
         /\ EpochOp(mem.epoch, mem.boot) \in Records
         /\ EpochOp(mem.epoch, mem.boot).kind = "epoch"
         /\ \E before, top, last :
              /\ \/ before = log
                 \/ Extended(ckpt, log, topSeq, nextSeq + 1,
                             EpochOp(mem.epoch, mem.boot), before)
              /\ Extended(ckpt, before, top, last, CleanOp, log')
<1>1. PICK outcome \in {"kept", "none"} :
        /\ file' = IF file = "empty" THEN "bad" ELSE file
        /\ ckpt' = ckpt
        /\ \E used \in Consumed(outcome) :
             LET incarnation == [seq |-> nextSeq + 1,
                                 op |-> EpochOp(mem.epoch, mem.boot)]
                 shutdown == [seq |-> nextSeq + used + 1, op |-> CleanOp]
                 before == IF outcome = "kept"
                             THEN Append(log, incarnation) ELSE log
             IN  IF file = "ok"
                   THEN /\ log' = Append(before, shutdown)
                        /\ topSeq' = nextSeq + used + 2
                   ELSE UNCHANGED <<log, topSeq>>
  BY DEF OpenRecordFails, Benign
<1>2. pc = "journal" /\ UNCHANGED <<ckpt, hist>> /\ Down
  BY <1>1 DEF OpenRecordFails
<1>3. /\ mem \in States /\ ckpt \in States /\ log \in Logs
      /\ topSeq \in Nat /\ nextSeq \in Nat /\ topSeq < nextSeq
      /\ Below(log, topSeq) /\ Ascending(log) /\ ckpt.lastSeq \in Nat
  BY <1>2 DEF DurableInv, ShapeInv, TypeOK, DiskOK, ProcOK, Numbered,
     JournalOrdered, Logs, Below, Ascending, States
<1>4. file = "ok" /\ ckpt.lastSeq < nextSeq
  BY <1>2 DEF DurableInv, DiskInv
<1> DEFINE op == EpochOp(mem.epoch, mem.boot)
           before == IF outcome = "kept"
                       THEN Append(log, [seq |-> nextSeq + 1, op |-> op]) ELSE log
<1>5. op \in Records /\ op.kind = "epoch"
  BY <1>3, StoreAssumption DEF EpochOp, Records, States
<1>6. CleanOp \in Records /\ CleanOp.kind = "clean"
  BY DEF CleanOp, Records
<1> DEFINE top == IF outcome = "kept" THEN nextSeq + 2 ELSE nextSeq
<1>7. PICK used \in Consumed(outcome) :
        log' = Append(before, [seq |-> nextSeq + used + 1, op |-> CleanOp])
  BY <1>1, <1>4
<1>8. /\ before \in Logs /\ Ascending(before) /\ Below(before, top)
      /\ \/ before = log
         \/ Extended(ckpt, log, topSeq, nextSeq + 1, op, before)
  <2>1. CASE outcome = "kept"
    <3>1. Extended(ckpt, log, topSeq, nextSeq + 1, op, before)
      BY <1>3, <1>4, <1>5, <2>1 DEF Extended
    <3>2. topSeq <= nextSeq + 1 /\ nextSeq + 1 \in Nat
      BY <1>3
    <3>3. /\ before \in Logs /\ Ascending(before)
          /\ \A b \in Nat : nextSeq + 1 < b => Below(before, b)
      <4> HIDE DEF op
      <4>1. QED
        BY <1>3, <1>5, <2>1, <3>2, AppendAscends
    <3>4. top = nextSeq + 2 /\ top \in Nat /\ nextSeq + 1 < top
      BY <1>3, <2>1
    <3> HIDE DEF before, top
    <3>5. QED
      BY <3>1, <3>3, <3>4
  <2>2. CASE outcome # "kept"
    <3>1. \A i \in DOMAIN log : log[i].seq \in Nat
      <4>1. log \in [1 .. Len(log) -> [seq : Nat, op : Records]]
        BY <1>3, LenProperties DEF Logs
      <4>2. QED
        BY <4>1
    <3>2. QED
      BY <1>3, <2>2, <3>1 DEF Below
  <2>3. QED
    BY <2>1, <2>2
<1> HIDE DEF before
<1>9. Extended(ckpt, before, top, nextSeq + used + 1, CleanOp, log')
  <2>1. /\ top \in Nat /\ nextSeq + used + 1 \in Nat
        /\ top <= nextSeq + used + 1 /\ ckpt.lastSeq < nextSeq + used + 1
    BY <1>3, <1>4, <1>7 DEF Consumed
  <2> HIDE DEF top
  <2>2. QED
    BY <1>3, <1>6, <1>7, <1>8, <2>1 DEF Extended
<1>10. file' = "ok"
  BY <1>1, <1>4
<1> HIDE DEF top
<1>11. QED
  BY <1>2, <1>5, <1>6, <1>8, <1>9, <1>10

LEMMA OpenRecordFailsDurable ==
  ASSUME Benign, DurableInv, ShapeInv', OpenRecordFails
  PROVE  Kept'
<1>1. /\ pc = "journal" /\ file' = "ok" /\ UNCHANGED <<ckpt, hist>> /\ Down
      /\ CleanOp.kind = "clean" /\ EpochOp(mem.epoch, mem.boot).kind = "epoch"
  BY OpenRecordFailsExtends
<1>2. PICK before, top, last :
        /\ \/ before = log
           \/ Extended(ckpt, log, topSeq, nextSeq + 1,
                       EpochOp(mem.epoch, mem.boot), before)
        /\ Extended(ckpt, before, top, last, CleanOp, log')
  BY OpenRecordFailsExtends
<1>3. \A id \in Ids : RecoveredEntry(ckpt, before, id) = RecoveredEntry(ckpt, log, id)
  BY <1>1, <1>2, AppendRecovers
<1>4. \A id \in Ids : RecoveredEntry(ckpt, log', id) = RecoveredEntry(ckpt, before, id)
  BY <1>1, <1>2, AppendRecovers
<1>5. AcknowledgedSurvive'
  <2>1. \A id \in Ids : RecoveredEntries(ckpt, log)'[id] =
                          RecoveredEntries(ckpt, log)[id]
    BY <1>1, <1>3, <1>4 DEF RecoveredEntries
  <2>2. QED
    BY <1>1, <2>1 DEF DurableInv, AcknowledgedSurvive, hist
<1>6. ckpt'.lastSeq \in Nat /\ topSeq' \in Nat
  BY DEF ShapeInv, TypeOK, DiskOK, States
<1>7. QED
  BY <1>1, <1>5, <1>6, DownDurable

\* The served state changes the way the journal does.
Follows(op, state) ==
  /\ state.entries = IF op.kind = "write"
                       THEN [mem.entries EXCEPT ![op.key] = op.val]
                       ELSE mem.entries
  /\ state.history = IF op.kind = "history"
                       THEN Trim(Append(mem.history, op.val))
                       ELSE mem.history
  /\ state.epoch = IF op.kind = "epoch" THEN op.epoch ELSE mem.epoch
  /\ state.boot = mem.boot

\* What a mutation may be writing: no shutdown, and no incarnation or authority
\* but those of the process.
LEMMA UnfinishedOps ==
  ASSUME ShapeInv, NEW op \in Unfinished
  PROVE  /\ op \in Records /\ pc = "ready" /\ op.kind # "clean"
         /\ op.kind = "epoch" => op.epoch = mem.epoch + 1 /\ op.boot = mem.boot
         /\ op.kind = "write" /\ op.key \in Holders
              => op.val = Claim(mem.epoch, mem.boot)
<1>1. op \in Records /\ pc = "ready"
  BY WriteOpsType DEF Unfinished, ShapeInv
<1>2. CASE op \in WriteOps
  <2>1. op.kind = "write"
    BY <1>2 DEF WriteOps, EvidenceOps, GrantOps, WriteOp
  <2>2. op.key \in Holders => op.val = Claim(mem.epoch, mem.boot)
    BY <1>2, StoreAssumption DEF WriteOps, EvidenceOps, GrantOps, WriteOp
  <2>3. QED
    BY <1>1, <2>1, <2>2
<1>3. CASE op \in {HistoryOp(p) : p \in Points}
  BY <1>1, <1>3 DEF HistoryOp
<1>4. CASE op = EpochOp(mem.epoch + 1, mem.boot)
  BY <1>1, <1>4 DEF EpochOp
<1>5. QED
  BY <1>1, <1>2, <1>3, <1>4 DEF Unfinished

\* A mutation fails, or is journaled and then served.
LEMMA MutationMutates ==
  ASSUME ShapeInv, Mutation, ~ MutationFails
  PROVE  \E op \in Unfinished, state \in States :
           Mutate(op, state) /\ Follows(op, state)
<1>1. mem \in States /\ (Mutation => MutationFails \/ pc = "ready")
  BY DEF ShapeInv, TypeOK, ProcOK, Mutation, PutConfiguration,
     RemoveConfiguration, PutEvidenceReference, GrantLiveAuthority,
     AppendHistory, AdvanceEpoch, Write, Mutate
<1>2. ASSUME NEW op \in WriteOps, Write(op)
      PROVE  \E state \in States : Mutate(op, state) /\ Follows(op, state)
  <2> DEFINE state == [mem EXCEPT !.entries[op.key] = op.val]
  <2>1. op.kind = "write" /\ op \in Records
    <3>1. op \in Unfinished
      BY <1>1 DEF Unfinished
    <3>2. QED
      BY <1>2, <3>1, UnfinishedOps DEF WriteOps, EvidenceOps, GrantOps, WriteOp
  <2>2. op.key \in Ids /\ op.val \in Contents
    BY <2>1, RecordFields
  <2>3. /\ state \in States /\ state.history = mem.history
        /\ state.entries = [mem.entries EXCEPT ![op.key] = op.val]
        /\ state.epoch = mem.epoch /\ state.boot = mem.boot
    BY <1>1, <2>2 DEF States
  <2>4. Mutate(op, state)
    BY <1>2 DEF Write
  <2> HIDE DEF state
  <2>5. QED
    BY <2>1, <2>3, <2>4 DEF Follows
<1>3. CASE \E op \in WriteOps : Write(op)
  BY <1>1, <1>2, <1>3 DEF Unfinished
<1>4. ASSUME NEW p \in Points, AppendHistory(p)
      PROVE  \E op \in Unfinished, state \in States :
               Mutate(op, state) /\ Follows(op, state)
  <2> DEFINE op == HistoryOp(p)
             state == [mem EXCEPT !.history = Trim(Append(@, p))]
  <2>1. Append(mem.history, p) \in Seq(Points)
    BY <1>1, AppendProperties DEF States
  <2>2. /\ state \in States /\ state.history = Trim(Append(mem.history, p))
        /\ state.entries = mem.entries
        /\ state.epoch = mem.epoch /\ state.boot = mem.boot
    BY <1>1, <2>1, TrimProperty DEF States
  <2>3. op \in Unfinished /\ op.kind = "history" /\ op.val = p
    BY <1>1 DEF HistoryOp, Unfinished
  <2>4. Mutate(op, state)
    BY <1>4 DEF AppendHistory
  <2> HIDE DEF op, state
  <2>5. Follows(op, state)
    BY <2>2, <2>3 DEF Follows
  <2>6. QED
    BY <2>2, <2>3, <2>4, <2>5
<1>5. CASE AdvanceEpoch
  <2> DEFINE op == EpochOp(mem.epoch + 1, mem.boot)
             state == [mem EXCEPT !.epoch = @ + 1]
  <2>1. /\ state \in States /\ state.history = mem.history
        /\ state.entries = mem.entries
        /\ state.epoch = mem.epoch + 1 /\ state.boot = mem.boot
    BY <1>1, <1>5, StoreAssumption DEF AdvanceEpoch, States
  <2>2. op \in Unfinished /\ op.kind = "epoch" /\ op.epoch = mem.epoch + 1
    BY <1>1 DEF EpochOp, Unfinished
  <2>3. Mutate(op, state)
    BY <1>5 DEF AdvanceEpoch
  <2> HIDE DEF op, state
  <2>4. Follows(op, state)
    BY <2>1, <2>2 DEF Follows
  <2>5. QED
    BY <2>1, <2>2, <2>3, <2>4
<1>6. (\E k \in Keys, c \in Values : PutConfiguration(k, c))
      \/ (\E k \in Keys : RemoveConfiguration(k))
      \/ (\E s \in Sources, flag \in {Current, Revalidate} :
            PutEvidenceReference(s, flag))
      \/ (\E h \in Holders : GrantLiveAuthority(h))
      => \E op \in WriteOps : Write(op)
  BY DEF PutConfiguration, RemoveConfiguration, PutEvidenceReference,
     GrantLiveAuthority, WriteOps, EvidenceOps, GrantOps
<1>7. QED
  BY <1>3, <1>4, <1>5, <1>6 DEF Mutation

LEMMA MutateDurable ==
  ASSUME DurableInv, ShapeInv', NEW op \in Records, NEW state,
         state \in States, Follows(op, state), Mutate(op, state)
  PROVE  Kept'
<1>1. /\ pc = "ready" /\ pc' = "ready" /\ nextSeq' = nextSeq + 3
      /\ Logged(op) /\ Acknowledge(op)
      /\ mem' = [state EXCEPT !.lastSeq = nextSeq + 2]
  BY DEF Mutate
<1>2. /\ mem'.entries = state.entries /\ mem'.lastSeq = nextSeq + 2
      /\ \A id \in Ids : state.entries[id] =
           IF op.kind = "write" /\ op.key = id THEN op.val ELSE mem.entries[id]
  <2>1. mem.entries \in [Ids -> Contents]
    BY DEF DurableInv, ShapeInv, TypeOK, ProcOK, States
  <2>2. op.kind = "write" => op.key \in Ids
    BY RecordFields
  <2>3. QED
    BY <1>1, <2>1, <2>2 DEF States, Follows
<1>3. /\ nextSeq \in Nat /\ mem.lastSeq \in Nat /\ ckpt.lastSeq \in Nat
      /\ ckpt.lastSeq <= mem.lastSeq /\ mem.lastSeq < nextSeq
  BY <1>1 DEF DurableInv, DiskInv, ShapeInv, TypeOK, DiskOK, ProcOK, States
<1>4. /\ file = "ok" /\ UNCHANGED <<ckpt, file, torn>>
      /\ \A id \in Ids :
           RecoveredEntries(ckpt, log)'[id] =
             IF op.kind = "write" /\ op.key = id
               THEN Fence(id, op.val) ELSE RecoveredEntries(ckpt, log)[id]
      /\ \A i \in DOMAIN log' : log'[i].seq < nextSeq + 2
  BY <1>1, LoggedRecovers
<1>5. \A id \in Ids : may'[id] = IF op.kind = "write" /\ op.key = id
                                   THEN {Fence(id, op.val)} ELSE may[id]
  BY <1>1, AcknowledgeMay DEF DurableInv
<1>6. DiskInv'
  BY <1>1, <1>2, <1>3, <1>4 DEF DurableInv, DiskInv, Compacting
<1>7. \A id \in Ids : Fence(id, mem'.entries[id]) \in may'[id]
  <2>1. \A id \in Ids : Fence(id, mem.entries[id]) \in may[id]
    BY <1>1 DEF DurableInv, ServedInv, Serving
  <2>2. ASSUME NEW id \in Ids PROVE Fence(id, mem'.entries[id]) \in may'[id]
    <3>1. CASE op.kind = "write" /\ op.key = id
      <4>1. mem'.entries[id] = op.val
        BY <1>2, <3>1
      <4>2. may'[id] = {Fence(id, op.val)}
        BY <1>5, <3>1
      <4>3. QED
        BY <4>1, <4>2
    <3>2. CASE ~ (op.kind = "write" /\ op.key = id)
      <4>1. mem'.entries[id] = mem.entries[id] /\ may'[id] = may[id]
        BY <1>2, <1>5, <3>2
      <4>2. QED
        BY <2>1, <4>1
    <3>3. QED
      BY <3>1, <3>2
  <2>3. QED
    BY <2>2
<1>8. \A i \in DOMAIN log' : ~ (log'[i].seq > mem'.lastSeq)
  <2>1. \A i \in DOMAIN log' : log'[i].seq \in Nat
    <3>1. log' \in Logs
      BY DEF ShapeInv, TypeOK, DiskOK, Logs
    <3>2. log' \in [1 .. Len(log') -> [seq : Nat, op : Records]]
      BY <3>1, LenProperties DEF Logs
    <3>3. QED
      BY <3>2
  <2>2. QED
    BY <1>2, <1>3, <1>4, <2>1
<1>9. ServedInv'
  BY <1>1, <1>7, <1>8 DEF ServedInv, Opening
<1>10. AcknowledgedSurvive'
  BY <1>4, <1>5 DEF DurableInv, AcknowledgedSurvive
<1>11. QED
  BY <1>6, <1>9, <1>10 DEF Kept

LEMMA MutationFailsDurable ==
  ASSUME Benign, DurableInv, ShapeInv', MutationFails
  PROVE  Kept'
<1>1. PICK op \in Unfinished, outcome \in {"kept", "none"} :
        /\ HalfLogged(op, outcome) /\ Attempt(op)
        /\ \E used \in 0 .. 3 : nextSeq' = nextSeq + used
        /\ pc' = pc /\ mem' = mem
  BY DEF MutationFails, Benign, Consumed
<1>2. pc' = pc /\ mem' = mem /\ nextSeq <= nextSeq' /\ nextSeq' \in Nat
  BY <1>1 DEF DurableInv, ShapeInv, TypeOK, ProcOK
<1>3. pc = "ready" /\ op \in Records
  BY <1>1, WriteOpsType DEF Unfinished, DurableInv, ShapeInv
<1>4. \A id \in Ids :
        /\ may[id] \subseteq may'[id]
        /\ op.kind = "write" /\ op.key = id => Fence(id, op.val) \in may'[id]
  BY <1>1, <1>3, AttemptMay DEF DurableInv
<1>5. /\ nextSeq \in Nat /\ mem.lastSeq < nextSeq /\ mem.lastSeq \in Nat
      /\ log \in Logs /\ log' \in Logs
  BY <1>3 DEF DurableInv, DiskInv, ShapeInv, TypeOK, DiskOK, ProcOK, States, Logs
<1>6. \A i \in DOMAIN log : log[i].op \in Records
  <2>1. DOMAIN log = 1 .. Len(log)
        /\ log \in [1 .. Len(log) -> [seq : Nat, op : Records]]
    BY <1>5, LenProperties DEF Logs
  <2>2. QED
    BY <2>1
<1>7. \A id \in Ids : Fence(id, mem'.entries[id]) \in may'[id]
  BY <1>2, <1>3, <1>4 DEF DurableInv, ServedInv, Serving
<1>8. CASE Logged(op)
  <2>1. /\ file = "ok" /\ UNCHANGED <<ckpt, file, torn>>
        /\ topSeq' = nextSeq + 2
        /\ \A id \in Ids :
             RecoveredEntries(ckpt, log)'[id] =
               IF op.kind = "write" /\ op.key = id
                 THEN Fence(id, op.val) ELSE RecoveredEntries(ckpt, log)[id]
        /\ \A i \in DOMAIN log' : \/ i \in DOMAIN log /\ log'[i] = log[i]
                                  \/ log'[i] = [seq |-> nextSeq + 1, op |-> op]
    BY <1>3, <1>8, LoggedRecovers
  <2>2. DiskInv'
    BY <1>2, <1>3, <1>5, <2>1 DEF DurableInv, DiskInv, Compacting
  <2>3. ASSUME NEW i \in DOMAIN log', log'[i].seq > mem'.lastSeq,
               log'[i].op.kind = "write"
        PROVE  Fence(log'[i].op.key, log'[i].op.val) \in may'[log'[i].op.key]
    <3>1. CASE i \in DOMAIN log /\ log'[i] = log[i]
      <4>1. log[i].op.key \in Ids
        BY <1>6, <2>3, <3>1, RecordFields
      <4>2. Fence(log[i].op.key, log[i].op.val) \in may[log[i].op.key]
        BY <1>2, <1>3, <2>3, <3>1 DEF DurableInv, ServedInv
      <4>3. QED
        BY <1>4, <3>1, <4>1, <4>2
    <3>2. CASE log'[i] = [seq |-> nextSeq + 1, op |-> op]
      <4>1. log'[i].op = op
        BY <3>2
      <4>2. op.key \in Ids
        BY <1>3, <2>3, <4>1, RecordFields
      <4>3. QED
        BY <1>4, <2>3, <4>1, <4>2
    <3>3. QED
      BY <2>1, <3>1, <3>2
  <2>4. ServedInv'
    BY <1>2, <1>3, <1>7, <2>3 DEF ServedInv, Opening
  <2>5. AcknowledgedSurvive'
    BY <1>4, <2>1 DEF DurableInv, AcknowledgedSurvive
  <2>6. QED
    BY <2>2, <2>4, <2>5 DEF Kept
<1>9. CASE UNCHANGED disk \/ Dangles
  <2>1. UNCHANGED <<ckpt, file, log, torn>>
    BY <1>3, <1>9 DEF disk, Dangles, DurableInv, DiskInv
  <2>2. DiskInv'
    BY <1>2, <1>3, <1>5, <2>1 DEF DurableInv, DiskInv, Compacting
  <2>3. ASSUME NEW i \in DOMAIN log, log[i].seq > mem.lastSeq,
               log[i].op.kind = "write"
        PROVE  Fence(log[i].op.key, log[i].op.val) \in may'[log[i].op.key]
    <3>1. log[i].op.key \in Ids
      BY <1>6, <2>3, RecordFields
    <3>2. Fence(log[i].op.key, log[i].op.val) \in may[log[i].op.key]
      BY <1>3, <2>3 DEF DurableInv, ServedInv
    <3>3. QED
      BY <1>4, <3>1, <3>2
  <2>4. ServedInv'
    BY <1>2, <1>3, <1>7, <2>1, <2>3 DEF ServedInv, Opening
  <2>5. AcknowledgedSurvive'
    BY <1>4, <2>1 DEF DurableInv, AcknowledgedSurvive
  <2>6. QED
    BY <2>2, <2>4, <2>5 DEF Kept
<1>10. QED
  BY <1>1, <1>8, <1>9 DEF HalfLogged

LEMMA MutationDurable ==
  ASSUME Benign, DurableInv, ShapeInv', Mutation
  PROVE  Kept'
<1>1. CASE MutationFails
  BY <1>1, MutationFailsDurable
<1>2. CASE ~ MutationFails
  <2>1. PICK op \in Unfinished, state \in States :
          Mutate(op, state) /\ Follows(op, state)
    BY <1>2, MutationMutates DEF DurableInv
  <2>2. op \in Records
    BY UnfinishedOps DEF DurableInv
  <2>3. QED
    BY <2>1, <2>2, MutateDurable
<1>3. QED
  BY <1>1, <1>2

\* No step of compact() changes what an open would find.
LEMMA CompactDurable ==
  ASSUME Benign, DurableInv, Compact
  PROVE  Kept'
<1>1. /\ mem \in States /\ mem.lastSeq \in Nat /\ ckpt.lastSeq \in Nat
      /\ log \in Logs
  BY DEF DurableInv, ShapeInv, TypeOK, DiskOK, ProcOK, States, Logs
<1>2. UNCHANGED <<mem, may>>
  BY DEF Compact, CompactPublish, CompactGivesUp, CompactRemove, CompactCreates,
         CompactLosesJournal, CompactFinish, hist
<1>3. pc \in Serving /\ pc' \in Serving
  BY DEF Compact, CompactPublish, CompactGivesUp, CompactRemove, CompactCreates,
         CompactLosesJournal, CompactFinish, Serving, Compacting
<1>4. \A id \in Ids : Fence(id, mem.entries[id]) \in may[id]
  BY <1>3 DEF DurableInv, ServedInv
<1>5. CASE CompactPublish
  <2>1. /\ pc = "ready" /\ pc' = "published" /\ ckpt' = mem
        /\ UNCHANGED <<file, log, topSeq, torn, nextSeq>>
    BY <1>5 DEF CompactPublish
  <2>2. DiskInv'
    BY <1>1, <1>2, <2>1 DEF DurableInv, DiskInv, Compacting
  <2>3. ServedInv'
    BY <1>2, <1>3, <1>4, <2>1 DEF DurableInv, ServedInv, Opening
  <2>4. ASSUME NEW id \in Ids
        PROVE  RecoveredEntries(mem, log)[id] \in may[id]
    <3>1. RecoveredEntries(mem, log)[id] = Fence(id, RecoveredEntry(mem, log, id))
      BY DEF RecoveredEntries
    <3>2. CASE RecoveredEntry(mem, log, id) = mem.entries[id]
      BY <1>4, <3>1, <3>2
    <3>3. ASSUME NEW i \in DOMAIN log, mem.lastSeq < log[i].seq,
                 log[i].op.kind = "write", log[i].op.key = id,
                 RecoveredEntry(mem, log, id) = log[i].op.val
          PROVE  RecoveredEntries(mem, log)[id] \in may[id]
      <4>1. log[i].seq > mem.lastSeq
        <5>1. log[i].seq \in Nat
          <6>1. DOMAIN log = 1 .. Len(log)
                /\ log \in [1 .. Len(log) -> [seq : Nat, op : Records]]
            BY <1>1, LenProperties DEF Logs
          <6>2. QED
            BY <6>1
        <5>2. QED
          BY <1>1, <3>3, <5>1
      <4>2. Fence(log[i].op.key, log[i].op.val) \in may[log[i].op.key]
        BY <2>1, <3>3, <4>1 DEF DurableInv, ServedInv
      <4>3. QED
        BY <3>1, <3>3, <4>2
    <3>4. \/ RecoveredEntry(mem, log, id) = mem.entries[id]
          \/ \E i \in DOMAIN log :
               /\ mem.lastSeq < log[i].seq
               /\ log[i].op.kind = "write" /\ log[i].op.key = id
               /\ RecoveredEntry(mem, log, id) = log[i].op.val
      <4>1. log \in Logs
        BY <1>1
      <4>2. QED
        BY <4>1, RecoveredFrom
    <3>5. CASE \E i \in DOMAIN log :
                 /\ mem.lastSeq < log[i].seq
                 /\ log[i].op.kind = "write" /\ log[i].op.key = id
                 /\ RecoveredEntry(mem, log, id) = log[i].op.val
      <4>1. PICK i \in DOMAIN log :
                 /\ mem.lastSeq < log[i].seq
                 /\ log[i].op.kind = "write" /\ log[i].op.key = id
                 /\ RecoveredEntry(mem, log, id) = log[i].op.val
        BY <3>5
      <4>2. QED
        BY <4>1, <3>3
    <3>6. QED
      BY <3>2, <3>4, <3>5
  <2>5. AcknowledgedSurvive'
    BY <1>2, <2>1, <2>4 DEF AcknowledgedSurvive
  <2>6. QED
    BY <2>2, <2>3, <2>5 DEF Kept
<1>6. CASE CompactGivesUp \/ CompactCreates
  <2>1. UNCHANGED <<ckpt, log, topSeq, torn, nextSeq>>
    BY <1>6 DEF CompactGivesUp, CompactCreates, disk
  <2>2. DiskInv'
    BY <1>2, <1>6, <2>1 DEF DurableInv, DiskInv, CompactGivesUp, CompactCreates,
       disk, Compacting
  <2>3. ServedInv'
    BY <1>2, <1>3, <1>4, <1>6, <2>1 DEF DurableInv, ServedInv, CompactGivesUp,
       CompactCreates, Opening
  <2>4. AcknowledgedSurvive'
    BY <1>2, <2>1 DEF DurableInv, AcknowledgedSurvive
  <2>5. QED
    BY <2>2, <2>3, <2>4 DEF Kept
<1>7. CASE CompactRemove
  <2>1. /\ pc = "published" /\ pc' = "removed" /\ UNCHANGED <<ckpt, nextSeq>>
        /\ file' = "absent" /\ log' = <<>> /\ topSeq' = 0 /\ torn' = FALSE
    BY <1>7 DEF CompactRemove
  <2>2. ckpt = mem
    BY <2>1 DEF DurableInv, DiskInv, Compacting
  <2>3. DiskInv'
    BY <1>2, <2>1, <2>2 DEF DiskInv, Compacting
  <2>4. ServedInv'
    BY <1>2, <1>3, <1>4, <2>1 DEF ServedInv, Opening
  <2>5. \A id \in Ids : RecoveredEntries(ckpt, log)'[id] = Fence(id, mem.entries[id])
    <3>1. \A id \in Ids : RecoveredEntry(ckpt, <<>>, id) = mem.entries[id]
      BY <2>2, RecoveredFromCheckpoint
    <3>2. QED
      BY <2>1, <3>1 DEF RecoveredEntries
  <2>6. AcknowledgedSurvive'
    BY <1>2, <1>4, <2>5 DEF AcknowledgedSurvive
  <2>7. QED
    BY <2>3, <2>4, <2>6 DEF Kept
<1>8. ~ CompactLosesJournal
  BY DEF CompactLosesJournal, Benign
<1>9. CASE CompactFinish
  <2>1. /\ pc = "recreating" /\ pc' = "ready" /\ file' = "ok"
        /\ nextSeq' = mem.lastSeq + 1 /\ UNCHANGED <<ckpt, log, topSeq, torn>>
    BY <1>9 DEF CompactFinish
  <2>2. ckpt = mem /\ log = <<>>
    BY <2>1 DEF DurableInv, DiskInv, Compacting
  <2>3. DiskInv'
    BY <1>1, <1>2, <2>1, <2>2 DEF DurableInv, DiskInv, Compacting
  <2>4. ServedInv'
    BY <1>2, <1>3, <1>4, <2>1, <2>2 DEF ServedInv, Opening
  <2>5. AcknowledgedSurvive'
    BY <1>2, <2>1 DEF DurableInv, AcknowledgedSurvive
  <2>6. QED
    BY <2>3, <2>4, <2>5 DEF Kept
<1>10. QED
  BY <1>5, <1>6, <1>7, <1>8, <1>9 DEF Compact

LEMMA StopDurable ==
  ASSUME Benign, DurableInv, ShapeInv', Stop
  PROVE  Kept'
<1>1. CleanOp \in Records /\ CleanOp.kind = "clean"
  BY DEF CleanOp, Records
<1>2. CASE Close
  <2>1. /\ pc = "ready" /\ Logged(CleanOp) /\ Acknowledge(CleanOp) /\ Down
    BY <1>2 DEF Close
  <2>2. \A id \in Ids : may'[id] = may[id]
    BY <1>1, <2>1, AcknowledgeMay DEF DurableInv
  <2>3. QED
    BY <1>1, <2>1, <2>2, LoggedDown
<1>3. CASE CloseFails
  <2>1. PICK outcome \in {"kept", "none"} : HalfLogged(CleanOp, outcome)
    BY <1>3 DEF CloseFails, Benign
  <2>2. /\ pc = "ready" /\ Attempt(CleanOp) /\ Down
    BY <1>3 DEF CloseFails
  <2>3. may' = may
    BY <1>1, <2>2 DEF Attempt
  <2>4. CASE Logged(CleanOp)
    BY <1>1, <2>2, <2>3, <2>4, LoggedDown
  <2>5. CASE UNCHANGED disk
    BY <2>2, <2>3, <2>5, UntouchedDown
  <2>6. CASE Dangles
    BY <2>2, <2>3, <2>6, CutDown
  <2>7. QED
    BY <2>1, <2>4, <2>5, <2>6 DEF HalfLogged
<1>4. CASE CloseWithoutJournal \/ Crash
  BY <1>4, UntouchedDown DEF CloseWithoutJournal, Crash, hist
<1>5. CASE CrashInMutation
  <2>1. Down
    BY <1>5 DEF CrashInMutation
  <2>2. ASSUME NEW op \in Unfinished \cup (IF pc = "ready" THEN {CleanOp} ELSE {}),
               Logged(op), Attempt(op)
        PROVE  Kept'
    <3>1. op \in Records /\ pc = "ready"
      BY <1>1, WriteOpsType DEF Unfinished, DurableInv, ShapeInv
    <3>2. \A id \in Ids :
            /\ may[id] \subseteq may'[id]
            /\ op.kind = "write" /\ op.key = id => Fence(id, op.val) \in may'[id]
      BY <2>2, <3>1, AttemptMay DEF DurableInv
    <3>3. op.kind = "write" => Fence(op.key, op.val) \in may'[op.key]
      BY <3>1, <3>2, RecordFields
    <3>4. QED
      BY <2>1, <2>2, <3>1, <3>2, <3>3, LoggedDown
  <2>3. ASSUME pc = "journal", Logged(EpochOp(mem.epoch, mem.boot)), UNCHANGED may
        PROVE  Kept'
    <3>1. EpochOp(mem.epoch, mem.boot) \in Records
      BY StoreAssumption
         DEF EpochOp, Records, DurableInv, ShapeInv, TypeOK, ProcOK, States
    <3>2. EpochOp(mem.epoch, mem.boot).kind = "epoch"
      BY DEF EpochOp
    <3>3. QED
      BY <2>1, <2>3, <3>1, <3>2, LoggedDown
  <2>4. ASSUME pc \in {"ready", "journal"}, Dangles \/ Tears, UNCHANGED may
        PROVE  Kept'
    BY <2>1, <2>4, CutDown
  <2>5. QED
    BY <1>5, <2>2, <2>3, <2>4 DEF CrashInMutation, hist
<1>6. ~ PowerLoss
  BY DEF PowerLoss, Benign
<1>7. QED
  BY <1>2, <1>3, <1>4, <1>5, <1>6 DEF Stop

LEMMA NextDurable ==
  ASSUME Benign, DurableInv, [Next]_vars
  PROVE  DurableInv'
<1>1. ShapeInv'
  BY NextShape DEF DurableInv
<1>2. SUFFICES Kept'
  BY <1>1 DEF DurableInv, Kept
<1>3. CASE Open
  BY <1>1, <1>3, OpenDurable, OpenRecordDurable, OpenRecordFailsDurable DEF Open
<1>4. CASE Mutation
  BY <1>1, <1>4, MutationDurable
<1>5. CASE Compact
  BY <1>5, CompactDurable
<1>6. CASE Stop
  BY <1>1, <1>6, StopDurable
<1>7. CASE UNCHANGED vars
  <2>1. UNCHANGED <<ckpt, file, log, topSeq, torn, pc, mem, nextSeq, may>>
    BY <1>7 DEF vars, disk, proc, hist
  <2>2. DiskInv'
    BY <2>1, Zenon DEF DurableInv, DiskInv, Compacting
  <2>3. ServedInv'
    BY <2>1 DEF DurableInv, ServedInv, Opening, Serving, Compacting
  <2>4. AcknowledgedSurvive'
    BY <2>1 DEF DurableInv, AcknowledgedSurvive
  <2>5. QED
    BY <2>2, <2>3, <2>4 DEF Kept
<1>8. QED
  BY <1>3, <1>4, <1>5, <1>6, <1>7 DEF Next

-----------------------------------------------------------------------------
\* A content whose mutation was acknowledged is what the next open finds,
\* whatever runs of crashes, failures, compactions and opens come between.
THEOREM AcknowledgedContentSurvives ==
  ASSUME Benign PROVE Spec => []AcknowledgedSurvive
<1>1. DurableInv /\ [Next]_vars => DurableInv'
  BY NextDurable
<1>2. DurableInv => AcknowledgedSurvive
  BY DEF DurableInv
<1>3. QED
  BY InitDurable, <1>1, <1>2, PTL DEF Spec

\* A store that was ever opened can be opened again.
THEOREM StoreReopens ==
  ASSUME Benign PROVE Spec => []Reopenable
<1>1. DurableInv /\ [Next]_vars => DurableInv'
  BY NextDurable
<1>2. DurableInv => Reopenable
  BY DEF DurableInv, DiskInv, Reopenable
<1>3. QED
  BY InitDurable, <1>1, <1>2, PTL DEF Spec

\* A record written after a compaction is numbered above the checkpoint and
\* above every record before it, so the replay applies it.
THEOREM StoreNumberingContinues ==
  ASSUME Benign PROVE Spec => []NumberingContinues
<1>1. DurableInv /\ [Next]_vars => DurableInv'
  BY NextDurable
<1>2. DurableInv => NumberingContinues
  <2>1. SUFFICES ASSUME DurableInv, pc = "ready"
                 PROVE  /\ ckpt.lastSeq < nextSeq
                        /\ \A i \in DOMAIN log : log[i].seq < nextSeq
    BY DEF NumberingContinues
  <2>2. /\ ckpt.lastSeq \in Nat /\ mem.lastSeq \in Nat /\ log \in Logs
        /\ nextSeq \in Nat /\ topSeq \in Nat
    BY <2>1 DEF DurableInv, ShapeInv, TypeOK, DiskOK, ProcOK, States, Logs
  <2>3. ckpt.lastSeq < nextSeq
    BY <2>1, <2>2 DEF DurableInv, DiskInv
  <2>4. \A i \in DOMAIN log : log[i].seq \in Nat /\ log[i].seq < topSeq
    <3>1. DOMAIN log = 1 .. Len(log)
          /\ log \in [1 .. Len(log) -> [seq : Nat, op : Records]]
      BY <2>2, LenProperties DEF Logs
    <3>2. \A i \in DOMAIN log : log[i].seq \in Nat
      BY <3>1
    <3>3. QED
      BY <2>1, <3>2 DEF DurableInv, ShapeInv, Numbered, JournalOrdered
  <2>5. topSeq < nextSeq
    BY <2>1 DEF DurableInv, ShapeInv, Numbered
  <2>6. QED
    BY <2>2, <2>3, <2>4, <2>5
<1>3. QED
  BY InitDurable, <1>1, <1>2, PTL DEF Spec

-----------------------------------------------------------------------------
(* Store implements DurableMap *)

\* The map that is served, as the refinement mapping has it.
Served == IF pc \in Serving THEN mem.entries ELSE [id \in Ids |-> Absent]

\* A step that neither serves another map nor settles anything.
LEMMA MapStutters ==
  ASSUME UNCHANGED may, (pc \in Serving) = (pc' \in Serving),
         pc \in Serving => mem'.entries = mem.entries
  PROVE  UNCHANGED Durable!vars
BY DEF Durable!vars

\* The process ends and takes nothing with it.
LEMMA MapStops ==
  ASSUME UNCHANGED may, Down
  PROVE  [Durable!Next]_(Durable!vars)
<1>1. pc' = "down" /\ pc' \notin Serving
  BY DEF Down, Serving, Compacting
<1>2. CASE pc \in Serving
  BY <1>1, <1>2 DEF Durable!Next, Durable!Stop, Durable!Nothing
<1>3. CASE pc \notin Serving
  BY <1>1, <1>3, MapStutters
<1>4. QED
  BY <1>2, <1>3

\* A mutation ends unacknowledged, in a process that goes on or is gone.
LEMMA MapAttempts ==
  ASSUME ShapeInv, NEW op \in Records, Attempt(op), pc \in Serving,
         Down \/ UNCHANGED <<pc, mem>>
  PROVE  [Durable!Next]_(Durable!vars)
<1>1. CASE op.kind = "write"
  <2>1. op.key \in Ids /\ op.val \in Contents
    BY <1>1, RecordFields
  <2>2. may' = [may EXCEPT ![op.key] = @ \cup {Fence(op.key, op.val)}]
    BY <1>1 DEF Attempt
  <2>3. (pc' \in Serving) \in BOOLEAN /\ Served' = IF pc' \in Serving
                                     THEN Served ELSE [id \in Ids |-> Absent]
    BY DEF Served, Down, Serving, Compacting
  <2>4. Durable!Attempt(op.key, op.val)
    BY <2>2, <2>3 DEF Durable!Attempt, Durable!Nothing, Served
  <2>5. QED
    BY <2>1, <2>4 DEF Durable!Next
<1>2. CASE op.kind # "write"
  <2>1. may' = may
    BY <1>2 DEF Attempt
  <2>2. QED
    BY <2>1, MapStops, MapStutters
<1>3. QED
  BY <1>1, <1>2

\* A mutation is acknowledged.
LEMMA MapAcknowledges ==
  ASSUME ShapeInv, NEW op \in Records, NEW state, state \in States,
         Mutate(op, state),
         state.entries = IF op.kind = "write"
                           THEN [mem.entries EXCEPT ![op.key] = op.val]
                           ELSE mem.entries
  PROVE  [Durable!Next]_(Durable!vars)
<1>1. pc \in Serving /\ pc' \in Serving /\ Acknowledge(op)
  BY DEF Mutate, Serving
<1>2. mem'.entries = state.entries
  BY DEF Mutate, States
<1>3. CASE op.kind = "write"
  <2>1. op.key \in Ids /\ op.val \in Contents
    BY <1>3, RecordFields
  <2>2. may' = [may EXCEPT ![op.key] = {Fence(op.key, op.val)}]
    BY <1>1, <1>3 DEF Acknowledge
  <2>3. Durable!Acknowledge(op.key, op.val)
    BY <1>1, <1>2, <1>3, <2>2 DEF Durable!Acknowledge
  <2>4. QED
    BY <2>1, <2>3 DEF Durable!Next
<1>4. CASE op.kind # "write"
  <2>1. may' = may
    BY <1>1, <1>4 DEF Acknowledge
  <2>2. QED
    BY <1>1, <1>2, <1>4, <2>1, MapStutters
<1>5. QED
  BY <1>3, <1>4

\* The open that records its incarnation settles what every identity holds,
\* and serves nothing that may not be there.
LEMMA MapStarts ==
  ASSUME DurableInv, OpenRecord
  PROVE  Durable!Next
<1>1. /\ pc = "journal" /\ pc' = "ready" /\ mem' = mem
      /\ may' = [id \in Ids |-> {mem.entries[id]}]
  BY DEF OpenRecord
<1>2. pc \notin Serving /\ pc' \in Serving
  BY <1>1 DEF Serving, Compacting
<1>3. mem.entries \in [Ids -> Contents]
  BY DEF DurableInv, ShapeInv, TypeOK, ProcOK, States
<1>4. \A id \in Ids : mem.entries[id] \in may[id]
  <2>1. mem.entries = RecoveredEntries(ckpt, log)
    BY <1>1 DEF DurableInv, ServedInv, Opening
  <2>2. QED
    BY <2>1 DEF DurableInv, AcknowledgedSurvive
<1>5. Durable!Start
  BY <1>1, <1>2, <1>3, <1>4 DEF Durable!Start
<1>6. QED
  BY <1>5 DEF Durable!Next

LEMMA MapInit ==
  ASSUME Init
  PROVE  Durable!Init
BY DEF Init, Durable!Init, Durable!Nothing, Serving, Compacting

\* Every step of the store is a step of the map, or none.
LEMMA MapNext ==
  ASSUME DurableInv, [Next]_vars
  PROVE  [Durable!Next]_(Durable!vars)
<1>1. ShapeInv /\ mem \in States
  BY DEF DurableInv, ShapeInv, TypeOK, ProcOK
<1>2. CASE Open
  <2>1. CASE OpenRecover \/ OpenExistingJournal \/ OpenCreatesJournal
             \/ OpenWritesHeader
    <3>1. /\ UNCHANGED may /\ pc \notin Serving /\ pc' \notin Serving
      BY <2>1 DEF OpenRecover, OpenExistingJournal, OpenCreatesJournal,
         OpenWritesHeader, hist, Serving, Compacting
    <3>2. QED
      BY <3>1, MapStutters
  <2>2. CASE OpenRecord
    BY <2>2, MapStarts
  <2>3. CASE OpenRecordFails
    BY <2>3, MapStops DEF OpenRecordFails, hist
  <2>4. QED
    BY <1>2, <2>1, <2>2, <2>3 DEF Open
<1>3. CASE Mutation
  <2>1. CASE MutationFails
    <3>1. PICK op \in Unfinished : Attempt(op) /\ UNCHANGED <<pc, mem>>
      BY <2>1 DEF MutationFails
    <3>2. op \in Records /\ pc \in Serving
      BY <1>1, UnfinishedOps DEF Serving
    <3>3. QED
      BY <1>1, <3>1, <3>2, MapAttempts
  <2>2. CASE ~ MutationFails
    <3>1. PICK op \in Unfinished, state \in States :
            Mutate(op, state) /\ Follows(op, state)
      BY <1>1, <1>3, <2>2, MutationMutates
    <3>2. op \in Records
      BY <1>1, UnfinishedOps
    <3>3. QED
      BY <1>1, <3>1, <3>2, MapAcknowledges DEF Follows
  <2>3. QED
    BY <2>1, <2>2
<1>4. CASE Compact
  <2>1. UNCHANGED <<mem, may>> /\ pc \in Serving /\ pc' \in Serving
    BY <1>4 DEF Compact, CompactPublish, CompactGivesUp, CompactRemove,
       CompactCreates, CompactLosesJournal, CompactFinish, hist, Serving, Compacting
  <2>2. QED
    BY <2>1, MapStutters
<1>5. CASE Stop
  <2>1. CASE Close
    <3>1. CleanOp.kind = "clean"
      BY DEF CleanOp
    <3>2. UNCHANGED may /\ Down
      BY <2>1, <3>1 DEF Close, Acknowledge
    <3>3. QED
      BY <3>2, MapStops
  <2>2. CASE CloseFails
    <3>1. CleanOp.kind = "clean"
      BY DEF CleanOp
    <3>2. UNCHANGED may /\ Down
      BY <2>2, <3>1 DEF CloseFails, Attempt
    <3>3. QED
      BY <3>2, MapStops
  <2>3. CASE CloseWithoutJournal \/ Crash \/ PowerLoss
    BY <2>3, MapStops DEF CloseWithoutJournal, Crash, PowerLoss, hist
  <2>4. CASE CrashInMutation
    <3>1. Down
      BY <2>4 DEF CrashInMutation
    <3>2. CASE UNCHANGED may
      BY <3>1, <3>2, MapStops
    <3>3. ASSUME NEW op \in Unfinished \cup (IF pc = "ready" THEN {CleanOp} ELSE {}),
                 Attempt(op)
          PROVE  [Durable!Next]_(Durable!vars)
      <4>1. CleanOp \in Records
        BY DEF CleanOp, Records
      <4>2. op \in Records /\ pc \in Serving
        BY <1>1, <4>1, WriteOpsType DEF ShapeInv, Unfinished, Serving
      <4>3. QED
        BY <1>1, <3>1, <3>3, <4>2, MapAttempts
    <3>4. QED
      BY <2>4, <3>2, <3>3 DEF CrashInMutation, hist
  <2>5. QED
    BY <1>5, <2>1, <2>2, <2>3, <2>4 DEF Stop
<1>6. CASE UNCHANGED vars
  <2>1. UNCHANGED <<may, pc, mem>>
    BY <1>6 DEF vars, proc, hist
  <2>2. QED
    BY <2>1, MapStutters
<1>7. QED
  BY <1>2, <1>3, <1>4, <1>5, <1>6 DEF Next

\* The files, the journal and the recovery together behave as a map that loses
\* nothing it acknowledged.
THEOREM StoreImplementsDurableMap ==
  ASSUME Benign PROVE Spec => ImplementsDurableMap
<1>1. DurableInv /\ [Next]_vars => DurableInv'
  BY NextDurable
<1>2. Init => Durable!Init
  BY MapInit
<1>3. DurableInv /\ [Next]_vars => [Durable!Next]_(Durable!vars)
  BY MapNext
<1>4. QED
  BY InitDurable, <1>1, <1>2, <1>3, PTL DEF Spec, ImplementsDurableMap, Durable!Spec

-----------------------------------------------------------------------------
(* The history survives *)

\* What the process serves of the history, against what may come back: so
\* would a checkpoint of it, with the points of failed calls behind it.
HistoryInv ==
  /\ HistorySurvives
  /\ pc \in Opening => mem.history = RecoveredHistory(ckpt, log)
  /\ pc \in Serving => mem.history \in mayHist
  /\ pc \in {"ready", "published"} => RecoveredHistory(mem, log) \in mayHist

\* What DurableInv says of a state in which a transaction may be written: a
\* checkpoint of the state served would be extended by it as the present one
\* is.
LEMMA LoggedExtends ==
  ASSUME DurableInv, NEW op \in Records, Logged(op), pc \in {"journal", "ready"},
         NEW c \in {ckpt, mem}
  PROVE  /\ Extended(c, log, topSeq, nextSeq + 1, op, log')
         /\ UNCHANGED ckpt
<1>1. /\ ckpt \in States /\ mem \in States /\ log \in Logs
      /\ topSeq \in Nat /\ nextSeq \in Nat /\ topSeq < nextSeq
      /\ Below(log, topSeq) /\ Ascending(log)
  BY DEF DurableInv, ShapeInv, TypeOK, DiskOK, ProcOK, Numbered,
         JournalOrdered, Logs, Below, Ascending
<1>2. ckpt.lastSeq \in Nat /\ mem.lastSeq \in Nat
  BY <1>1 DEF States
<1>3. file = "ok" /\ torn = FALSE /\ ckpt.lastSeq < nextSeq
  BY <1>1, <1>2 DEF DurableInv, DiskInv
<1>4. mem.lastSeq < nextSeq
  <2>1. CASE pc = "ready"
    BY <2>1 DEF DurableInv, DiskInv
  <2>2. CASE pc = "journal"
    <3>1. mem.lastSeq = RecoveredSeq(ckpt, log)
      BY <2>2 DEF DurableInv, ServedInv, Opening
    <3>2. mem.lastSeq = ckpt.lastSeq \/ mem.lastSeq < topSeq
      BY <1>1, <3>1, RecoveredSeqProperty
    <3>3. QED
      BY <1>1, <1>2, <1>3, <3>2
  <2>3. QED
    BY <2>1, <2>2
<1>5. log' = Append(log, [seq |-> nextSeq + 1, op |-> op]) /\ UNCHANGED ckpt
  BY <1>3 DEF Logged
<1>6. /\ nextSeq + 1 \in Nat /\ topSeq <= nextSeq + 1
      /\ c \in States /\ c.lastSeq < nextSeq + 1
  BY <1>1, <1>2, <1>3, <1>4
<1>7. QED
  BY <1>1, <1>5, <1>6 DEF Extended

LEMMA LoggedReplays ==
  ASSUME DurableInv, NEW op \in Records, Logged(op), pc \in {"journal", "ready"},
         NEW c \in {ckpt, mem}
  PROVE  RecoveredHistory(c, log') =
           IF op.kind = "history"
             THEN Trim(Append(RecoveredHistory(c, log), op.val))
             ELSE RecoveredHistory(c, log)
<1>1. Extended(c, log, topSeq, nextSeq + 1, op, log')
  BY LoggedExtends
<1>2. QED
  BY <1>1, AppendReplays

\* The history is untouched by a transaction that is no point of it.
LEMMA NoPointLogged ==
  ASSUME DurableInv, NEW op \in Records, Logged(op), pc \in {"journal", "ready"},
         op.kind # "history"
  PROVE  RecoveredHistory(ckpt, log)' = RecoveredHistory(ckpt, log)
<1>1. RecoveredHistory(ckpt, log') = RecoveredHistory(ckpt, log)
  BY LoggedReplays
<1>2. ckpt' = ckpt
  BY LoggedExtends
<1>3. QED
  BY <1>1, <1>2

\* A process that ends leaves the history to the next one.
LEMMA DownHistory ==
  ASSUME Down, HistorySurvives'
  PROVE  HistoryInv'
BY DEF HistoryInv, Down, Opening, Serving, Compacting

LEMMA InitHistory == Init => HistoryInv
<1> SUFFICES ASSUME Init PROVE HistoryInv
  OBVIOUS
<1>1. Blank \in States /\ Len(Blank.history) <= MaxHistory /\ <<>> \in Logs
  BY BlankType DEF Logs
<1>2. \A i \in DOMAIN <<>> : ~ (Blank.lastSeq < <<>>[i].seq)
  OBVIOUS
<1>3. RecoveredHistory(Blank, <<>>) = <<>>
  BY <1>1, <1>2, CoveredHistory DEF Blank
<1>4. QED
  BY <1>3 DEF Init, HistoryInv, HistorySurvives, Opening, Serving, Compacting

\* A checkpoint of the state that an open has recovered covers the journal.
LEMMA RecoveredCovers ==
  ASSUME DurableInv, pc = "journal"
  PROVE  \A i \in DOMAIN log : ~ (mem.lastSeq < log[i].seq)
<1>1. /\ ckpt \in States /\ mem \in States /\ log \in Logs /\ topSeq \in Nat
      /\ Below(log, topSeq) /\ Ascending(log)
  BY DEF DurableInv, ShapeInv, TypeOK, DiskOK, ProcOK, Numbered,
         JournalOrdered, Logs, Below, Ascending
<1>2. mem.lastSeq = RecoveredSeq(ckpt, log) /\ mem.lastSeq \in Nat
  BY <1>1 DEF DurableInv, ServedInv, Opening, States
<1>3. /\ ckpt.lastSeq <= mem.lastSeq /\ ckpt.lastSeq \in Nat
      /\ \A i \in Applied(ckpt, log) : log[i].seq <= mem.lastSeq
  BY <1>1, <1>2, RecoveredSeqProperty DEF States
<1>4. SUFFICES ASSUME NEW i \in DOMAIN log, mem.lastSeq < log[i].seq
               PROVE  FALSE
  OBVIOUS
<1>5. log[i].seq \in Nat
  <2>1. DOMAIN log = 1 .. Len(log)
        /\ log \in [1 .. Len(log) -> [seq : Nat, op : Records]]
    BY <1>1, LenProperties DEF Logs
  <2>2. QED
    BY <2>1
<1>6. i \in Applied(ckpt, log)
  <2>1. ckpt.lastSeq < log[i].seq
    BY <1>2, <1>3, <1>4, <1>5
  <2>2. QED
    BY <1>1, <2>1, AppliedInOrder
<1>7. QED
  BY <1>2, <1>3, <1>4, <1>5, <1>6

LEMMA OpenHistory ==
  ASSUME Benign, DurableInv, HistoryInv, Open
  PROVE  HistoryInv'
<1>1. CASE OpenRecover \/ OpenExistingJournal \/ OpenCreatesJournal
           \/ OpenWritesHeader
  <2>1. /\ UNCHANGED <<ckpt, log, mayHist>> /\ pc' \in Opening
        /\ mem'.history = RecoveredHistory(ckpt, log)
    BY <1>1 DEF HistoryInv, OpenRecover, OpenExistingJournal, OpenCreatesJournal,
       OpenWritesHeader, disk, hist, Opening
  <2>2. QED
    BY <2>1 DEF HistoryInv, HistorySurvives, Opening, Serving, Compacting
<1>2. CASE OpenRecord
  <2> DEFINE op == EpochOp(mem.epoch, mem.boot)
  <2>1. /\ pc = "journal" /\ pc' = "ready" /\ mem' = mem
        /\ Logged(op) /\ mayHist' = {mem.history}
    BY <1>2 DEF OpenRecord
  <2>2. mem \in States /\ Len(mem.history) <= MaxHistory /\ log \in Logs
    BY DEF DurableInv, ShapeInv, TypeOK, DiskOK, ProcOK, Logs
  <2>3. op \in Records /\ op.kind = "epoch"
    BY <2>2, StoreAssumption DEF EpochOp, Records, States
  <2> HIDE DEF op
  <2>4. mem.history = RecoveredHistory(ckpt, log)
    BY <2>1 DEF HistoryInv, Opening
  <2>5. RecoveredHistory(ckpt, log)' = mem.history
    BY <2>1, <2>3, <2>4, NoPointLogged
  <2>6. RecoveredHistory(mem, log) = mem.history
    BY <2>1, <2>2, RecoveredCovers, CoveredHistory
  <2>7. RecoveredHistory(mem, log') = mem.history
    BY <2>1, <2>3, <2>6, LoggedReplays
  <2>8. QED
    BY <2>1, <2>5, <2>7 DEF HistoryInv, HistorySurvives, Opening
<1>3. CASE OpenRecordFails
  <2>1. /\ UNCHANGED <<ckpt, mayHist>> /\ Down
        /\ CleanOp.kind = "clean" /\ EpochOp(mem.epoch, mem.boot).kind = "epoch"
    BY <1>3, OpenRecordFailsExtends DEF hist
  <2>2. PICK before, top, last :
          /\ \/ before = log
             \/ Extended(ckpt, log, topSeq, nextSeq + 1,
                         EpochOp(mem.epoch, mem.boot), before)
          /\ Extended(ckpt, before, top, last, CleanOp, log')
    BY <1>3, OpenRecordFailsExtends
  <2>3. RecoveredHistory(ckpt, before) = RecoveredHistory(ckpt, log)
    BY <2>1, <2>2, AppendReplays
  <2>4. RecoveredHistory(ckpt, log') = RecoveredHistory(ckpt, before)
    BY <2>1, <2>2, AppendReplays
  <2>5. HistorySurvives'
    BY <2>1, <2>3, <2>4 DEF HistoryInv, HistorySurvives
  <2>6. QED
    BY <2>1, <2>5, DownHistory
<1>4. QED
  BY <1>1, <1>2, <1>3 DEF Open

\* The point of a mutation that is not acknowledged may come back.
LEMMA AttemptHistory ==
  ASSUME DurableInv, HistoryInv, pc = "ready", NEW op \in Records,
         Logged(op), Attempt(op)
  PROVE  /\ HistorySurvives' /\ mayHist \subseteq mayHist'
         /\ RecoveredHistory(mem, log') \in mayHist'
<1>1. ckpt' = ckpt
  BY LoggedExtends
<1>2. /\ RecoveredHistory(ckpt, log) \in mayHist
      /\ RecoveredHistory(mem, log) \in mayHist
  BY DEF HistoryInv, HistorySurvives
<1>3. \A c \in {ckpt, mem} :
        RecoveredHistory(c, log') =
          IF op.kind = "history"
            THEN Trim(Append(RecoveredHistory(c, log), op.val))
            ELSE RecoveredHistory(c, log)
  BY LoggedReplays
<1>4. mayHist' = IF op.kind = "history"
                   THEN mayHist \cup {Trim(Append(h, op.val)) : h \in mayHist}
                   ELSE mayHist
  BY DEF Attempt
<1>5. \A c \in {ckpt, mem} : RecoveredHistory(c, log') \in mayHist'
  BY <1>2, <1>3, <1>4
<1>6. QED
  BY <1>1, <1>4, <1>5 DEF HistorySurvives

\* After an acknowledged mutation the state served covers the journal.
LEMMA MutationCovers ==
  ASSUME DurableInv, ShapeInv', NEW op \in Records, NEW state \in States,
         Mutate(op, state)
  PROVE  /\ mem' = [state EXCEPT !.lastSeq = nextSeq + 2]
         /\ mem' \in States /\ Len(mem'.history) <= MaxHistory /\ log' \in Logs
         /\ \A i \in DOMAIN log' : ~ (mem'.lastSeq < log'[i].seq)
<1>1. mem' = [state EXCEPT !.lastSeq = nextSeq + 2] /\ pc = "ready" /\ Logged(op)
  BY DEF Mutate
<1>2. /\ mem' \in States /\ Len(mem'.history) <= MaxHistory
      /\ log' \in Logs /\ nextSeq \in Nat
  BY DEF DurableInv, ShapeInv, TypeOK, DiskOK, ProcOK, Logs
<1>3. mem'.lastSeq = nextSeq + 2
  BY <1>1 DEF States
<1>4. \A i \in DOMAIN log' : log'[i].seq < nextSeq + 2
  BY <1>1, LoggedRecovers
<1>5. \A i \in DOMAIN log' : log'[i].seq \in Nat
  <2>1. log' \in [1 .. Len(log') -> [seq : Nat, op : Records]]
    BY <1>2, LenProperties DEF Logs
  <2>2. QED
    BY <2>1
<1>6. QED
  BY <1>1, <1>2, <1>3, <1>4, <1>5

LEMMA MutateHistory ==
  ASSUME DurableInv, ShapeInv', HistoryInv, NEW op \in Records,
         NEW state \in States, Mutate(op, state),
         state.history = IF op.kind = "history"
                           THEN Trim(Append(mem.history, op.val))
                           ELSE mem.history
  PROVE  HistoryInv'
<1>1. pc = "ready" /\ pc' = "ready" /\ Logged(op) /\ Acknowledge(op)
  BY DEF Mutate
<1>2. /\ RecoveredHistory(ckpt, log) \in mayHist /\ mem.history \in mayHist
      /\ ckpt' = ckpt
  BY <1>1, LoggedExtends DEF HistoryInv, HistorySurvives, Serving
<1>3. RecoveredHistory(ckpt, log') =
        IF op.kind = "history"
          THEN Trim(Append(RecoveredHistory(ckpt, log), op.val))
          ELSE RecoveredHistory(ckpt, log)
  BY <1>1, LoggedReplays
<1>4. mayHist' = IF op.kind = "history"
                   THEN {Trim(Append(h, op.val)) : h \in mayHist} ELSE mayHist
  BY <1>1 DEF Acknowledge
<1>5. HistorySurvives'
  BY <1>2, <1>3, <1>4 DEF HistorySurvives
<1>6. mem'.history = state.history
  BY MutationCovers DEF States
<1>7. mem'.history \in mayHist'
  BY <1>2, <1>4, <1>6
<1>8. RecoveredHistory(mem', log') = mem'.history
  BY MutationCovers, CoveredHistory
<1>9. QED
  BY <1>1, <1>5, <1>7, <1>8 DEF HistoryInv, Opening

LEMMA MutationHistory ==
  ASSUME Benign, DurableInv, ShapeInv', HistoryInv, Mutation
  PROVE  HistoryInv'
<1>1. CASE MutationFails
  <2>1. PICK op \in Unfinished, outcome \in {"kept", "none"} :
          /\ HalfLogged(op, outcome) /\ Attempt(op) /\ UNCHANGED <<pc, mem>>
    BY <1>1 DEF MutationFails, Benign
  <2>2. pc = "ready" /\ op \in Records
    BY UnfinishedOps DEF DurableInv
  <2>3. /\ RecoveredHistory(mem, log) \in mayHist /\ mem.history \in mayHist
        /\ HistorySurvives
    BY <2>2 DEF HistoryInv, Serving
  <2>4. CASE Logged(op)
    <3>1. /\ HistorySurvives' /\ mayHist \subseteq mayHist'
          /\ RecoveredHistory(mem, log') \in mayHist'
      BY <2>1, <2>2, <2>4, AttemptHistory
    <3>2. QED
      BY <2>1, <2>2, <2>3, <3>1 DEF HistoryInv, Opening
  <2>5. CASE UNCHANGED disk \/ Dangles
    <3>1. UNCHANGED <<ckpt, log>>
      BY <2>5 DEF disk, Dangles
    <3>2. mayHist \subseteq mayHist'
      BY <2>1 DEF Attempt
    <3>3. QED
      BY <2>1, <2>2, <2>3, <3>1, <3>2 DEF HistoryInv, HistorySurvives, Opening
  <2>6. QED
    BY <2>1, <2>4, <2>5 DEF HalfLogged
<1>2. CASE ~ MutationFails
  <2>1. PICK op \in Unfinished, state \in States :
          Mutate(op, state) /\ Follows(op, state)
    BY <1>2, MutationMutates DEF DurableInv
  <2>2. op \in Records
    BY UnfinishedOps DEF DurableInv
  <2>3. QED
    BY <2>1, <2>2, MutateHistory DEF Follows
<1>3. QED
  BY <1>1, <1>2

LEMMA CompactHistory ==
  ASSUME Benign, DurableInv, HistoryInv, Compact
  PROVE  HistoryInv'
<1>1. /\ mem \in States /\ Len(mem.history) <= MaxHistory /\ log \in Logs
  BY DEF DurableInv, ShapeInv, TypeOK, DiskOK, ProcOK, Logs
<1>2. UNCHANGED <<mem, mayHist>>
  BY DEF Compact, CompactPublish, CompactGivesUp, CompactRemove, CompactCreates,
         CompactLosesJournal, CompactFinish, hist
<1>3. pc \in Serving /\ pc' \in Serving
  BY DEF Compact, CompactPublish, CompactGivesUp, CompactRemove, CompactCreates,
         CompactLosesJournal, CompactFinish, Serving, Compacting
<1>4. mem.history \in mayHist /\ pc' \notin Opening
  BY <1>3 DEF HistoryInv, Serving, Compacting, Opening
<1>5. RecoveredHistory(mem, <<>>) = mem.history
  <2>1. <<>> \in Logs /\ \A i \in DOMAIN <<>> : ~ (mem.lastSeq < <<>>[i].seq)
    BY DEF Logs
  <2>2. QED
    BY <1>1, <2>1, CoveredHistory
<1>6. CASE CompactPublish
  <2>1. pc = "ready" /\ ckpt' = mem /\ log' = log
    BY <1>6 DEF CompactPublish
  <2>2. RecoveredHistory(mem, log) \in mayHist
    BY <2>1 DEF HistoryInv
  <2>3. QED
    BY <1>2, <1>4, <2>1, <2>2 DEF HistoryInv, HistorySurvives
<1>7. CASE CompactGivesUp \/ CompactCreates
  <2>1. UNCHANGED <<ckpt, log>>
    BY <1>7 DEF CompactGivesUp, CompactCreates, disk
  <2>2. pc' \in {"ready", "published"} => pc = "published"
    BY <1>7 DEF CompactGivesUp, CompactCreates
  <2>3. QED
    BY <1>2, <1>4, <2>1, <2>2 DEF HistoryInv, HistorySurvives
<1>8. CASE CompactRemove \/ CompactFinish
  <2>1. /\ pc \in {"published", "recreating"} /\ log' = <<>> /\ ckpt' = ckpt
    BY <1>8 DEF CompactRemove, CompactFinish, DurableInv, DiskInv
  <2>2. ckpt = mem
    BY <2>1 DEF DurableInv, DiskInv, Compacting
  <2>3. QED
    BY <1>2, <1>4, <1>5, <2>1, <2>2 DEF HistoryInv, HistorySurvives
<1>9. ~ CompactLosesJournal
  BY DEF CompactLosesJournal, Benign
<1>10. QED
  BY <1>6, <1>7, <1>8, <1>9 DEF Compact

LEMMA StopHistory ==
  ASSUME Benign, DurableInv, HistoryInv, Stop
  PROVE  HistoryInv'
<1>1. Down /\ CleanOp \in Records /\ CleanOp.kind = "clean"
  BY DEF Stop, Close, CloseFails, CloseWithoutJournal, Crash, CrashInMutation,
         PowerLoss, CleanOp, Records
<1>2. SUFFICES HistorySurvives'
  BY <1>1, DownHistory
<1>3. HistorySurvives
  BY DEF HistoryInv
<1>4. ASSUME UNCHANGED <<ckpt, log, mayHist>> PROVE HistorySurvives'
  BY <1>3, <1>4 DEF HistorySurvives
<1>5. ASSUME NEW op \in Records, op.kind # "history", Logged(op),
             pc \in {"journal", "ready"}, UNCHANGED mayHist
      PROVE  HistorySurvives'
  BY <1>3, <1>5, NoPointLogged DEF HistorySurvives
<1>6. CASE Close \/ CloseFails
  <2>1. pc = "ready" /\ mayHist' = mayHist
    BY <1>1, <1>6 DEF Close, CloseFails, Acknowledge, Attempt
  <2>2. Logged(CleanOp) \/ UNCHANGED disk \/ Dangles
    BY <1>6 DEF Close, CloseFails, HalfLogged, Benign
  <2>3. UNCHANGED disk \/ Dangles => UNCHANGED <<ckpt, log>>
    BY DEF disk, Dangles
  <2>4. QED
    BY <1>1, <1>4, <1>5, <2>1, <2>2, <2>3
<1>7. CASE CloseWithoutJournal \/ Crash
  BY <1>4, <1>7 DEF CloseWithoutJournal, Crash, disk, hist
<1>8. CASE CrashInMutation
  <2>1. ASSUME NEW op \in Unfinished \cup (IF pc = "ready" THEN {CleanOp} ELSE {}),
               Logged(op), Attempt(op)
        PROVE  HistorySurvives'
    <3>1. op \in Records /\ pc = "ready"
      BY <1>1, <2>1, WriteOpsType DEF Unfinished, DurableInv, ShapeInv
    <3>2. QED
      BY <2>1, <3>1, AttemptHistory
  <2>2. ASSUME pc = "journal", Logged(EpochOp(mem.epoch, mem.boot)),
               UNCHANGED mayHist
        PROVE  HistorySurvives'
    <3>1. EpochOp(mem.epoch, mem.boot) \in Records
      BY StoreAssumption
         DEF EpochOp, Records, DurableInv, ShapeInv, TypeOK, ProcOK, States
    <3>2. EpochOp(mem.epoch, mem.boot).kind = "epoch"
      BY DEF EpochOp
    <3>3. QED
      BY <1>5, <2>2, <3>1, <3>2
  <2>3. ASSUME Dangles \/ Tears, UNCHANGED hist
        PROVE  HistorySurvives'
    BY <1>4, <2>3 DEF Dangles, Tears, hist
  <2>4. QED
    BY <1>8, <2>1, <2>2, <2>3 DEF CrashInMutation
<1>9. ~ PowerLoss
  BY DEF PowerLoss, Benign
<1>10. QED
  BY <1>6, <1>7, <1>8, <1>9 DEF Stop

LEMMA NextHistory ==
  ASSUME Benign, DurableInv, DurableInv', HistoryInv, [Next]_vars
  PROVE  HistoryInv'
<1>1. ShapeInv'
  BY DEF DurableInv
<1>2. CASE Open
  BY <1>2, OpenHistory
<1>3. CASE Mutation
  BY <1>1, <1>3, MutationHistory
<1>4. CASE Compact
  BY <1>4, CompactHistory
<1>5. CASE Stop
  BY <1>5, StopHistory
<1>6. CASE UNCHANGED vars
  BY <1>6 DEF vars, disk, proc, hist, HistoryInv, HistorySurvives
<1>7. QED
  BY <1>2, <1>3, <1>4, <1>5, <1>6 DEF Next

\* The history that comes back is the acknowledged one, trimmed, with perhaps
\* the points of mutations that were not acknowledged.
THEOREM HistoryIsKept ==
  ASSUME Benign PROVE Spec => []HistorySurvives
<1>1. DurableInv /\ [Next]_vars => DurableInv'
  BY NextDurable
<1>2. DurableInv /\ DurableInv' /\ HistoryInv /\ [Next]_vars => HistoryInv'
  BY NextHistory
<1>3. HistoryInv => HistorySurvives
  BY DEF HistoryInv
<1>4. QED
  BY InitDurable, InitHistory, <1>1, <1>2, <1>3, PTL DEF Spec

-----------------------------------------------------------------------------
(* No live claim survives a restart *)

\* A claim of the content is by no later incarnation than boot.
Within(content, boot) ==
  \A e \in 0 .. MaxEpoch, b \in 0 .. MaxBoot : content = Claim(e, b) => b <= boot

\* No claim comes back that is by a later incarnation than the one that comes
\* back with it.
ClaimsBelow(c, l) ==
  \A h \in Holders : Within(RecoveredEntry(c, l, h), RecoveredBoot(c, l))

\* The next incarnation is numbered after the one that comes back, which is
\* the one that serves while there is one.
BootInv ==
  /\ pc \in Opening => mem.boot = OpenBoot(ckpt, log)
  /\ pc \in Serving => RecoveredBoot(ckpt, log) = mem.boot
  /\ pc \in {"ready", "published"} => RecoveredBoot(mem, log) = mem.boot

\* Of the claims that are served, those by the present incarnation in its
\* present epoch were made since it started.
ServedClaims ==
  /\ \A h \in Holders, e \in 0 .. MaxEpoch, b \in 0 .. MaxBoot :
       mem.entries[h] = Claim(e, b)
         => /\ b <= mem.boot
            /\ b = mem.boot => e < mem.epoch \/ (e = mem.epoch /\ h \in fresh)
  /\ \A s \in Sources : mem.entries[s] = Current => s \in fresh

ClaimInv ==
  /\ ClaimsBelow(ckpt, log)
  /\ pc \in {"ready", "published"} => ClaimsBelow(mem, log)
  /\ pc \in Serving => ServedClaims

FreshInv == BootInv /\ ClaimInv

LEMMA ExtendedClaims ==
  ASSUME NEW c, NEW l, NEW t, NEW s, NEW op, NEW l2,
         Extended(c, l, t, s, op, l2), ClaimsBelow(c, l),
         op.kind = "write" /\ op.key \in Holders
           => Within(op.val, RecoveredBoot(c, l)),
         op.kind = "epoch" => RecoveredBoot(c, l) <= op.boot
  PROVE  ClaimsBelow(c, l2)
<1>1. /\ RecoveredBoot(c, l2) =
           IF op.kind = "epoch" THEN op.boot ELSE RecoveredBoot(c, l)
      /\ \A h \in Ids : RecoveredEntry(c, l2, h) =
           IF op.kind = "write" /\ op.key = h
             THEN op.val ELSE RecoveredEntry(c, l, h)
  BY AppendIncarnates, AppendRecovers
<1>2. RecoveredBoot(c, l) \in Nat
  <2>1. c \in States /\ l \in Logs
    BY DEF Extended
  <2>2. QED
    BY <2>1, RecoveredTypes
<1>3. RecoveredBoot(c, l2) \in Nat /\ RecoveredBoot(c, l) <= RecoveredBoot(c, l2)
  <2>1. op.kind = "epoch" => op.boot \in Nat
    <3>1. op \in Records
      BY DEF Extended
    <3>2. QED
      BY <3>1, RecordFields
  <2>2. QED
    BY <1>1, <1>2, <2>1
<1>4. ASSUME NEW h \in Holders
      PROVE  Within(RecoveredEntry(c, l2, h), RecoveredBoot(c, l2))
  <2>1. h \in Ids
    BY DEF Ids
  <2>2. Within(RecoveredEntry(c, l2, h), RecoveredBoot(c, l))
    BY <1>1, <2>1 DEF ClaimsBelow
  <2>3. QED
    BY <1>2, <1>3, <2>2, StoreAssumption DEF Within
<1>5. QED
  BY <1>4 DEF ClaimsBelow

\* What a mutation writes keeps the incarnation and its claims in order.
LEMMA UnfinishedClaims ==
  ASSUME DurableInv, FreshInv, NEW op \in Unfinished, Logged(op),
         NEW c \in {ckpt, mem}
  PROVE  RecoveredBoot(c, log') = mem.boot /\ ClaimsBelow(c, log')
<1>1. /\ op \in Records /\ pc = "ready"
      /\ op.kind = "epoch" => op.boot = mem.boot
      /\ op.kind = "write" /\ op.key \in Holders
           => op.val = Claim(mem.epoch, mem.boot)
  BY UnfinishedOps DEF DurableInv
<1>2. Extended(c, log, topSeq, nextSeq + 1, op, log')
  BY <1>1, LoggedExtends
<1>3. RecoveredBoot(c, log) = mem.boot /\ ClaimsBelow(c, log)
  BY <1>1 DEF FreshInv, BootInv, ClaimInv, Serving
<1>4. mem.boot \in Nat
  BY StoreAssumption DEF DurableInv, ShapeInv, TypeOK, ProcOK, States
<1>5. RecoveredBoot(c, log') = mem.boot
  BY <1>1, <1>2, <1>3, AppendIncarnates
<1>6. op.kind = "write" /\ op.key \in Holders => Within(op.val, RecoveredBoot(c, log))
  BY <1>1, <1>3, <1>4, StoreAssumption DEF Within, Claim
<1>7. op.kind = "epoch" => RecoveredBoot(c, log) <= op.boot
  BY <1>1, <1>3, <1>4
<1>8. ClaimsBelow(c, log')
  BY <1>2, <1>3, <1>6, <1>7, ExtendedClaims
<1>9. QED
  BY <1>5, <1>8

\* A process that ends leaves no claim that the next one could take for its own.
LEMMA DownClaims ==
  ASSUME Down, ClaimsBelow(ckpt, log)'
  PROVE  FreshInv'
BY DEF FreshInv, BootInv, ClaimInv, Down, Opening, Serving, Compacting

LEMMA InitClaims == Init => FreshInv
<1> SUFFICES ASSUME Init PROVE FreshInv
  OBVIOUS
<1>1. \A i \in DOMAIN <<>> : ~ (Blank.lastSeq < <<>>[i].seq)
  OBVIOUS
<1>2. \A id \in Ids : RecoveredEntry(Blank, <<>>, id) = Absent
  <2>1. \A id \in Ids : RecoveredEntry(Blank, <<>>, id) = Blank.entries[id]
    BY <1>1, CoveredState
  <2>2. QED
    BY <2>1 DEF Blank
<1>3. ClaimsBelow(Blank, <<>>)
  BY <1>2, StoreAssumption DEF ClaimsBelow, Within, Ids
<1>4. QED
  BY <1>3 DEF Init, FreshInv, BootInv, ClaimInv, Opening, Serving, Compacting

LEMMA OpenClaims ==
  ASSUME Benign, DurableInv, FreshInv, Open
  PROVE  FreshInv'
<1>1. /\ ckpt \in States /\ mem \in States /\ log \in Logs
      /\ RecoveredBoot(ckpt, log) \in Nat
      /\ ClaimsBelow(ckpt, log)
  <2>1. ckpt \in States /\ mem \in States /\ log \in Logs
    BY DEF DurableInv, ShapeInv, TypeOK, DiskOK, ProcOK, Logs
  <2>2. QED
    BY <2>1, RecoveredTypes DEF FreshInv, ClaimInv
<1>2. CASE OpenRecover \/ OpenExistingJournal \/ OpenCreatesJournal
           \/ OpenWritesHeader
  <2>1. UNCHANGED <<ckpt, log>> /\ pc' \in Opening
    BY <1>2 DEF OpenRecover, OpenExistingJournal, OpenCreatesJournal,
       OpenWritesHeader, disk, Opening
  <2>2. mem'.boot = OpenBoot(ckpt, log)
    BY <1>2 DEF FreshInv, BootInv, OpenRecover, OpenExistingJournal,
       OpenCreatesJournal, OpenWritesHeader, Opening
  <2>3. QED
    BY <1>1, <2>1, <2>2 DEF FreshInv, BootInv, ClaimInv, Opening, Serving,
       Compacting
<1>3. CASE OpenRecord
  <2> DEFINE op == EpochOp(mem.epoch, mem.boot)
  <2>1. /\ pc = "journal" /\ pc' = "ready" /\ mem' = mem /\ Logged(op)
    BY <1>3 DEF OpenRecord
  <2>2. op \in Records /\ op.kind = "epoch" /\ op.boot = mem.boot
    BY <1>1, StoreAssumption DEF EpochOp, Records, States
  <2> HIDE DEF op
  <2>3. \A c \in {ckpt, mem} :
          Extended(c, log, topSeq, nextSeq + 1, op, log') /\ ckpt' = ckpt
    BY <2>1, <2>2, LoggedExtends
  <2>4. \A c \in {ckpt, mem} : RecoveredBoot(c, log') = mem.boot
    BY <2>2, <2>3, AppendIncarnates
  <2>5. mem.boot = RecoveredBoot(ckpt, log) + 1 /\ mem.boot \in Nat
    BY <1>1, <2>1 DEF FreshInv, BootInv, Opening, OpenBoot
  <2>6. ClaimsBelow(ckpt, log')
    BY <1>1, <2>2, <2>3, <2>5, ExtendedClaims
  <2>7. ASSUME NEW h \in Holders PROVE Within(mem.entries[h], mem.boot - 1)
    <3>1. mem.entries[h] = RecoveredEntry(ckpt, log, h)
      BY <2>1, StoreAssumption
         DEF DurableInv, ServedInv, Opening, RecoveredEntries, Fence, Ids
    <3>2. RecoveredBoot(ckpt, log) = mem.boot - 1
      BY <1>1, <2>5
    <3>3. QED
      BY <1>1, <3>1, <3>2 DEF ClaimsBelow
  <2>8. ClaimsBelow(mem, log')
    <3>1. \A i \in DOMAIN log : ~ (mem.lastSeq < log[i].seq)
      BY <2>1, RecoveredCovers
    <3>2. /\ RecoveredBoot(mem, log) = mem.boot
          /\ \A id \in Ids : RecoveredEntry(mem, log, id) = mem.entries[id]
      BY <3>1, CoveredState
    <3>3. \A h \in Holders : Within(mem.entries[h], mem.boot)
      BY <2>5, <2>7, StoreAssumption DEF Within
    <3>4. ClaimsBelow(mem, log)
      BY <3>2, <3>3 DEF ClaimsBelow, Ids
    <3>5. QED
      BY <2>2, <2>3, <2>5, <3>2, <3>4, ExtendedClaims
  <2>9. ServedClaims'
    <3>1. \A s \in Sources : mem.entries[s] # Current
      BY <2>1, StoreAssumption
         DEF DurableInv, ServedInv, Opening, RecoveredEntries, Fence, Ids
    <3>2. \A h \in Holders, e \in 0 .. MaxEpoch, b \in 0 .. MaxBoot :
            mem.entries[h] = Claim(e, b) => b <= mem.boot /\ b # mem.boot
      BY <2>5, <2>7, StoreAssumption DEF Within
    <3>3. QED
      BY <2>1, <3>1, <3>2 DEF ServedClaims
  <2>10. QED
    BY <2>1, <2>3, <2>4, <2>6, <2>8, <2>9 DEF FreshInv, BootInv, ClaimInv, Opening
<1>4. CASE OpenRecordFails
  <2>1. /\ UNCHANGED ckpt /\ Down /\ pc = "journal"
        /\ CleanOp.kind = "clean" /\ EpochOp(mem.epoch, mem.boot).kind = "epoch"
    BY <1>4, OpenRecordFailsExtends
  <2>2. PICK before, top, last :
          /\ \/ before = log
             \/ Extended(ckpt, log, topSeq, nextSeq + 1,
                         EpochOp(mem.epoch, mem.boot), before)
          /\ Extended(ckpt, before, top, last, CleanOp, log')
    BY <1>4, OpenRecordFailsExtends
  <2>3. RecoveredBoot(ckpt, log) <= EpochOp(mem.epoch, mem.boot).boot
    BY <1>1, <2>1 DEF FreshInv, BootInv, Opening, OpenBoot, EpochOp
  <2>4. ClaimsBelow(ckpt, before)
    BY <1>1, <2>1, <2>2, <2>3, ExtendedClaims
  <2>5. ClaimsBelow(ckpt, log')
    BY <2>1, <2>2, <2>4, ExtendedClaims
  <2>6. QED
    BY <2>1, <2>5, DownClaims
<1>5. QED
  BY <1>2, <1>3, <1>4 DEF Open

LEMMA MutateServes ==
  ASSUME ShapeInv, ServedClaims, NEW op \in Unfinished, NEW state \in States,
         Mutate(op, state), Follows(op, state)
  PROVE  ServedClaims'
<1>1. /\ op \in Records /\ op.kind # "clean"
      /\ op.kind = "epoch" => op.epoch = mem.epoch + 1
      /\ op.kind = "write" /\ op.key \in Holders
           => op.val = Claim(mem.epoch, mem.boot)
  BY UnfinishedOps
<1>2. mem.epoch \in Nat /\ mem.boot \in Nat /\ mem.entries \in [Ids -> Contents]
  BY StoreAssumption DEF ShapeInv, TypeOK, ProcOK, States
<1>3. /\ mem'.entries = state.entries /\ mem'.boot = mem.boot
      /\ mem'.epoch = IF op.kind = "epoch" THEN mem.epoch + 1 ELSE mem.epoch
  BY <1>1 DEF Mutate, Follows, States
<1>4. \A id \in Ids : mem'.entries[id] =
        IF op.kind = "write" /\ op.key = id THEN op.val ELSE mem.entries[id]
  BY <1>1, <1>2, <1>3, RecordFields DEF Follows
<1>5. fresh' = CASE op.kind = "write" /\ op.key \in Holders
                      -> fresh \cup {op.key}
                 [] op.kind = "write" /\ op.key \in Sources
                      -> IF op.val = Current THEN fresh \cup {op.key} ELSE fresh
                 [] op.kind = "epoch" -> fresh \ Holders
                 [] OTHER -> fresh
  BY DEF Mutate, Acknowledge
<1>6. \/ op.kind = "write" /\ op.key \in Holders /\ fresh' = fresh \cup {op.key}
      \/ /\ op.kind = "write" /\ op.key \in Sources /\ fresh \subseteq fresh'
         /\ op.val = Current => op.key \in fresh'
      \/ op.kind = "epoch" /\ fresh' = fresh \ Holders
      \/ /\ op.kind # "epoch" /\ fresh' = fresh
         /\ op.kind = "write" => op.key \notin Holders \cup Sources
  BY <1>5, StoreAssumption
<1>7. ASSUME NEW h \in Holders, NEW e \in 0 .. MaxEpoch, NEW b \in 0 .. MaxBoot,
             mem'.entries[h] = Claim(e, b)
      PROVE  /\ b <= mem'.boot
             /\ b = mem'.boot => e < mem'.epoch \/ (e = mem'.epoch /\ h \in fresh')
  <2>1. h \in Ids /\ h \notin Sources
    BY StoreAssumption DEF Ids
  <2>2. CASE op.kind = "write" /\ op.key = h
    <3>1. Claim(e, b) = Claim(mem.epoch, mem.boot)
      BY <1>1, <1>4, <1>7, <2>1, <2>2
    <3>2. e = mem.epoch /\ b = mem.boot
      BY <3>1 DEF Claim
    <3>3. h \in fresh'
      BY <1>6, <2>1, <2>2
    <3>4. QED
      BY <1>2, <1>3, <2>2, <3>2, <3>3
  <2>3. CASE ~ (op.kind = "write" /\ op.key = h)
    <3>1. /\ b <= mem.boot
          /\ b = mem.boot => e < mem.epoch \/ (e = mem.epoch /\ h \in fresh)
      BY <1>4, <1>7, <2>1, <2>3 DEF ServedClaims
    <3>2. op.kind # "epoch" => fresh \subseteq fresh'
      BY <1>6
    <3>3. QED
      BY <1>2, <1>3, <3>1, <3>2, StoreAssumption
  <2>4. QED
    BY <2>2, <2>3
<1>8. ASSUME NEW s \in Sources, mem'.entries[s] = Current
      PROVE  s \in fresh'
  <2>1. s \in Ids /\ s \notin Holders
    BY StoreAssumption DEF Ids
  <2>2. CASE op.kind = "write" /\ op.key = s
    BY <1>4, <1>6, <1>8, <2>1, <2>2
  <2>3. CASE ~ (op.kind = "write" /\ op.key = s)
    <3>1. s \in fresh
      BY <1>4, <1>8, <2>1, <2>3 DEF ServedClaims
    <3>2. QED
      BY <1>6, <2>1, <3>1
  <2>4. QED
    BY <2>2, <2>3
<1>9. QED
  BY <1>7, <1>8 DEF ServedClaims

LEMMA MutationClaims ==
  ASSUME Benign, DurableInv, ShapeInv', FreshInv, Mutation
  PROVE  FreshInv'
<1>1. ShapeInv
  BY DEF DurableInv
<1>2. CASE MutationFails
  <2>1. PICK op \in Unfinished, outcome \in {"kept", "none"} :
          /\ HalfLogged(op, outcome) /\ Attempt(op) /\ UNCHANGED <<pc, mem>>
    BY <1>2 DEF MutationFails, Benign
  <2>2. pc = "ready"
    BY <1>1, UnfinishedOps
  <2>3. UNCHANGED <<pc, mem, fresh>> /\ ServedClaims
    BY <2>1, <2>2 DEF Attempt, FreshInv, ClaimInv, Serving
  <2>4. ServedClaims'
    BY <2>3 DEF ServedClaims
  <2>5. ckpt' = ckpt /\ \A c \in {ckpt, mem} :
          RecoveredBoot(c, log') = mem.boot /\ ClaimsBelow(c, log')
    <3>1. CASE Logged(op)
      BY <3>1, UnfinishedClaims DEF Logged
    <3>2. CASE UNCHANGED disk \/ Dangles
      <4>1. UNCHANGED <<ckpt, log>>
        BY <3>2 DEF disk, Dangles
      <4>2. QED
        BY <2>2, <4>1 DEF FreshInv, BootInv, ClaimInv, Serving
    <3>3. QED
      BY <2>1, <3>1, <3>2 DEF HalfLogged
  <2>6. QED
    BY <2>2, <2>3, <2>4, <2>5 DEF FreshInv, BootInv, ClaimInv, Opening
<1>3. CASE ~ MutationFails
  <2>1. PICK op \in Unfinished, state \in States :
          Mutate(op, state) /\ Follows(op, state)
    BY <1>1, <1>3, MutationMutates
  <2>2. op \in Records
    BY <1>1, UnfinishedOps
  <2>3. /\ pc = "ready" /\ pc' = "ready" /\ Logged(op) /\ ckpt' = ckpt
        /\ mem'.boot = mem.boot
    BY <2>1 DEF Mutate, Logged, Follows, States
  <2>4. RecoveredBoot(ckpt, log') = mem.boot /\ ClaimsBelow(ckpt, log')
    BY <2>3, UnfinishedClaims
  <2>5. ServedClaims'
    BY <1>1, <2>1, <2>3, MutateServes DEF FreshInv, ClaimInv, Serving
  <2>6. \A i \in DOMAIN log' : ~ (mem'.lastSeq < log'[i].seq)
    BY <2>1, <2>2, MutationCovers
  <2>7. /\ RecoveredBoot(mem', log') = mem'.boot
        /\ \A id \in Ids : RecoveredEntry(mem', log', id) = mem'.entries[id]
    BY <2>6, CoveredState
  <2>8. \A h \in Holders : Within(mem'.entries[h], mem'.boot)
    BY <2>5 DEF ServedClaims, Within
  <2>9. ClaimsBelow(mem', log')
    BY <2>7, <2>8 DEF ClaimsBelow, Ids
  <2>10. QED
    BY <2>3, <2>4, <2>5, <2>7, <2>9 DEF FreshInv, BootInv, ClaimInv, Opening
<1>4. QED
  BY <1>2, <1>3

LEMMA CompactClaims ==
  ASSUME Benign, DurableInv, FreshInv, Compact
  PROVE  FreshInv'
<1>1. UNCHANGED <<mem, fresh>>
  BY DEF Compact, CompactPublish, CompactGivesUp, CompactRemove, CompactCreates,
         CompactLosesJournal, CompactFinish, hist
<1>2. pc \in Serving /\ pc' \in Serving
  BY DEF Compact, CompactPublish, CompactGivesUp, CompactRemove, CompactCreates,
         CompactLosesJournal, CompactFinish, Serving, Compacting
<1>3. /\ ServedClaims /\ ServedClaims' /\ pc' \notin Opening
      /\ RecoveredBoot(ckpt, log) = mem.boot /\ ClaimsBelow(ckpt, log)
  BY <1>1, <1>2 DEF FreshInv, BootInv, ClaimInv, ServedClaims, Serving,
     Compacting, Opening
<1>4. CASE CompactPublish
  <2>1. pc = "ready" /\ ckpt' = mem /\ log' = log
    BY <1>4 DEF CompactPublish
  <2>2. RecoveredBoot(mem, log) = mem.boot /\ ClaimsBelow(mem, log)
    BY <2>1 DEF FreshInv, BootInv, ClaimInv
  <2>3. QED
    BY <1>1, <1>3, <2>1, <2>2 DEF FreshInv, BootInv, ClaimInv
<1>5. CASE CompactGivesUp \/ CompactCreates
  <2>1. UNCHANGED <<ckpt, log>>
    BY <1>5 DEF CompactGivesUp, CompactCreates, disk
  <2>2. pc' \in {"ready", "published"} => pc = "published"
    BY <1>5 DEF CompactGivesUp, CompactCreates
  <2>3. QED
    BY <1>1, <1>3, <2>1, <2>2 DEF FreshInv, BootInv, ClaimInv
<1>6. CASE CompactRemove \/ CompactFinish
  <2>1. /\ pc \in {"published", "recreating"} /\ log' = <<>> /\ ckpt' = ckpt
    BY <1>6 DEF CompactRemove, CompactFinish, DurableInv, DiskInv
  <2>2. ckpt = mem
    BY <2>1 DEF DurableInv, DiskInv, Compacting
  <2>3. \A i \in DOMAIN <<>> : ~ (mem.lastSeq < <<>>[i].seq)
    OBVIOUS
  <2>4. /\ RecoveredBoot(mem, <<>>) = mem.boot
        /\ \A id \in Ids : RecoveredEntry(mem, <<>>, id) = mem.entries[id]
    BY <2>3, CoveredState
  <2>5. \A h \in Holders : Within(mem.entries[h], mem.boot)
    BY <1>3 DEF ServedClaims, Within
  <2>6. ClaimsBelow(mem, <<>>)
    BY <2>4, <2>5 DEF ClaimsBelow, Ids
  <2>7. QED
    BY <1>1, <1>3, <2>1, <2>2, <2>4, <2>6 DEF FreshInv, BootInv, ClaimInv
<1>7. ~ CompactLosesJournal
  BY DEF CompactLosesJournal, Benign
<1>8. QED
  BY <1>4, <1>5, <1>6, <1>7 DEF Compact

\* What a process leaves in the journal when it ends: nothing, the record of a
\* mutation, its CleanShutdown, or the incarnation an open was recording.
LEMMA StopLeaves ==
  ASSUME Benign, DurableInv, Stop
  PROVE  /\ Down /\ ckpt' = ckpt
         /\ \/ log' = log /\ (UNCHANGED seen \/ (pc = "ready" /\ Attempt(CleanOp)))
            \/ \E op \in Unfinished : Logged(op) /\ Attempt(op)
            \/ /\ pc = "ready" /\ Logged(CleanOp)
               /\ Attempt(CleanOp) \/ Acknowledge(CleanOp)
            \/ /\ pc = "journal" /\ Logged(EpochOp(mem.epoch, mem.boot))
               /\ seen' = [seen EXCEPT !.exit = IF @ = "clean" THEN "unsure" ELSE @]
<1>1. CASE Close \/ CloseFails
  <2>1. Logged(CleanOp) \/ UNCHANGED disk \/ Dangles
    BY <1>1 DEF Close, CloseFails, HalfLogged, Benign
  <2>2. QED
    BY <1>1, <2>1 DEF Close, CloseFails, Logged, disk, Dangles
<1>2. CASE CloseWithoutJournal \/ Crash
  <2>1. Down /\ UNCHANGED <<ckpt, log, seen>>
    BY <1>2 DEF CloseWithoutJournal, Crash, disk, hist
  <2>2. QED
    BY <2>1
<1>3. CASE CrashInMutation
  <2>1. Down
    BY <1>3 DEF CrashInMutation
  <2>2. CASE \E op \in Unfinished \cup (IF pc = "ready" THEN {CleanOp} ELSE {}) :
               Logged(op) /\ Attempt(op)
    BY <2>1, <2>2 DEF Logged
  <2>3. CASE /\ pc = "journal"
             /\ Logged(EpochOp(mem.epoch, mem.boot))
             /\ seen' = [seen EXCEPT !.exit = IF @ = "clean" THEN "unsure" ELSE @]
    BY <2>1, <2>3 DEF Logged
  <2>4. CASE (Dangles \/ Tears) /\ UNCHANGED hist
    <3>1. UNCHANGED <<ckpt, log, seen>>
      BY <2>4 DEF Dangles, Tears, hist
    <3>2. QED
      BY <2>1, <3>1
  <2>5. QED
    BY <1>3, <2>2, <2>3, <2>4 DEF CrashInMutation
<1>4. ~ PowerLoss
  BY DEF PowerLoss, Benign
<1>5. QED
  BY <1>1, <1>2, <1>3, <1>4 DEF Stop

LEMMA StopClaims ==
  ASSUME Benign, DurableInv, FreshInv, Stop
  PROVE  FreshInv'
<1>1. Down /\ ckpt' = ckpt
  BY StopLeaves
<1>2. SUFFICES ClaimsBelow(ckpt, log')
  BY <1>1, DownClaims
<1>3. ClaimsBelow(ckpt, log)
  BY DEF FreshInv, ClaimInv
<1>4. CASE log' = log
  BY <1>3, <1>4
<1>5. CASE \E op \in Unfinished : Logged(op)
  BY <1>5, UnfinishedClaims
<1>6. CASE pc = "ready" /\ Logged(CleanOp)
  <2>1. CleanOp \in Records /\ CleanOp.kind = "clean"
    BY DEF CleanOp, Records
  <2>2. Extended(ckpt, log, topSeq, nextSeq + 1, CleanOp, log')
    BY <1>6, <2>1, LoggedExtends
  <2>3. QED
    BY <1>3, <2>1, <2>2, ExtendedClaims
<1>7. CASE pc = "journal" /\ Logged(EpochOp(mem.epoch, mem.boot))
  <2> DEFINE op == EpochOp(mem.epoch, mem.boot)
  <2>1. /\ mem \in States /\ ckpt \in States /\ log \in Logs
    BY DEF DurableInv, ShapeInv, TypeOK, DiskOK, ProcOK, Logs
  <2>2. op \in Records /\ op.kind = "epoch" /\ op.boot = mem.boot
    BY <2>1, StoreAssumption DEF EpochOp, Records, States
  <2>3. RecoveredBoot(ckpt, log) \in Nat
    BY <2>1, RecoveredTypes
  <2>4. RecoveredBoot(ckpt, log) <= op.boot
    BY <1>7, <2>2, <2>3 DEF FreshInv, BootInv, Opening, OpenBoot
  <2> HIDE DEF op
  <2>5. Extended(ckpt, log, topSeq, nextSeq + 1, op, log')
    BY <1>7, <2>2, LoggedExtends DEF op
  <2>6. QED
    BY <1>3, <2>2, <2>4, <2>5, ExtendedClaims
<1>8. QED
  BY <1>4, <1>5, <1>6, <1>7, StopLeaves

LEMMA NextClaims ==
  ASSUME Benign, DurableInv, DurableInv', FreshInv, [Next]_vars
  PROVE  FreshInv'
<1>1. ShapeInv'
  BY DEF DurableInv
<1>2. CASE Open
  BY <1>2, OpenClaims
<1>3. CASE Mutation
  BY <1>1, <1>3, MutationClaims
<1>4. CASE Compact
  BY <1>4, CompactClaims
<1>5. CASE Stop
  BY <1>5, StopClaims
<1>6. CASE UNCHANGED vars
  BY <1>6 DEF vars, disk, proc, hist, FreshInv, BootInv, ClaimInv, ServedClaims
<1>7. QED
  BY <1>2, <1>3, <1>4, <1>5, <1>6 DEF Next

\* Authority and evidence that a restart should have put in doubt are never
\* served as if this process had granted or observed them.
THEOREM NoClaimSurvivesRestart ==
  ASSUME Benign PROVE Spec => []LiveClaimsAreFresh
<1>1. DurableInv /\ [Next]_vars => DurableInv'
  BY NextDurable
<1>2. DurableInv /\ DurableInv' /\ FreshInv /\ [Next]_vars => FreshInv'
  BY NextClaims
<1>3. DurableInv /\ FreshInv => LiveClaimsAreFresh
  <2>1. SUFFICES ASSUME DurableInv, FreshInv, pc \in Serving
                 PROVE  /\ \A h \in Holders :
                             mem.entries[h] = Claim(mem.epoch, mem.boot)
                               => h \in fresh
                        /\ \A s \in Sources : mem.entries[s] = Current => s \in fresh
    BY DEF LiveClaimsAreFresh
  <2>2. mem.epoch \in 0 .. MaxEpoch /\ mem.boot \in 0 .. MaxBoot
    BY <2>1 DEF DurableInv, ShapeInv, TypeOK, ProcOK, States
  <2>3. ServedClaims
    BY <2>1 DEF FreshInv, ClaimInv
  <2>4. QED
    BY <2>2, <2>3, StoreAssumption DEF ServedClaims
<1>4. QED
  BY InitDurable, InitClaims, <1>1, <1>2, <1>3, PTL DEF Spec

-----------------------------------------------------------------------------
(* Every open advances the incarnation *)

\* The hypothesis: beside crashes outside the fragile windows, only the sync
\* of a directory may fail.
Settled == CrashWindows = {} /\ Faults \subseteq {"dirsync"}

\* An incarnation numbered boot, in the given epoch, follows the last one.
Advances(last, epoch, boot) ==
  /\ boot > last.boot
  /\ last.exit = "clean" => epoch = last.epoch
  /\ last.exit = "crashed" => epoch > last.epoch
  /\ epoch >= last.epoch

\* With the checkpoint c the present incarnation would come back, unclean.
Resumes(c) ==
  /\ RecoveredEpoch(c, log) = mem.epoch
  /\ RecoveredBoot(c, log) = mem.boot
  /\ ~ RecoveredClean(c, log)

EpochInv ==
  /\ Advances(seen, OpenEpoch(ckpt, log), OpenBoot(ckpt, log))
  /\ pc \in Opening =>
       mem.epoch = OpenEpoch(ckpt, log) /\ mem.boot = OpenBoot(ckpt, log)
  /\ pc \in Serving =>
       /\ Resumes(ckpt) /\ mem.epoch # 0
       /\ seen = [boot |-> mem.boot, epoch |-> mem.epoch, exit |-> "crashed"]
  /\ pc \in {"ready", "published"} => Resumes(mem)

\* An incarnation that comes back unclean is followed by one in a new epoch.
LEMMA NextIncarnation ==
  ASSUME NEW c, NEW l, NEW e \in Nat, NEW b \in Nat, e # 0,
         RecoveredEpoch(c, l) = e, RecoveredBoot(c, l) = b, ~ RecoveredClean(c, l)
  PROVE  /\ OpenEpoch(c, l) = e + 1 /\ OpenBoot(c, l) = b + 1
         /\ Advances([boot |-> b, epoch |-> e, exit |-> "crashed"],
                     OpenEpoch(c, l), OpenBoot(c, l))
BY DEF OpenEpoch, OpenBoot, Advances

\* Every open has an epoch to start.
LEMMA OpenEpochType ==
  ASSUME NEW c \in States, NEW l \in Logs
  PROVE  OpenEpoch(c, l) \in Nat \ {0} /\ OpenBoot(c, l) \in Nat \ {0}
BY RecoveredTypes DEF OpenEpoch, OpenBoot

LEMMA InitEpochs == Init => EpochInv
<1> SUFFICES ASSUME Init PROVE EpochInv
  OBVIOUS
<1>1. \A i \in DOMAIN <<>> : ~ (Blank.lastSeq < <<>>[i].seq)
  OBVIOUS
<1>2. RecoveredEpoch(Blank, <<>>) = Blank.epoch /\ RecoveredBoot(Blank, <<>>) = Blank.boot
  BY <1>1, CoveredState
<1>3. OpenEpoch(Blank, <<>>) = 1 /\ OpenBoot(Blank, <<>>) = 1
  BY <1>2 DEF OpenEpoch, OpenBoot, Blank
<1>4. QED
  BY <1>3 DEF Init, EpochInv, Advances, Opening, Serving, Compacting

\* The open of an incarnation records it, and no earlier one.
LEMMA OpenEpochs ==
  ASSUME Settled, DurableInv, EpochInv, Open
  PROVE  EpochInv'
<1>1. /\ ckpt \in States /\ mem \in States /\ log \in Logs
      /\ mem.epoch \in Nat /\ mem.boot \in Nat
  BY StoreAssumption DEF DurableInv, ShapeInv, TypeOK, DiskOK, ProcOK, Logs, States
<1>2. CASE OpenRecover \/ OpenExistingJournal \/ OpenCreatesJournal
           \/ OpenWritesHeader
  <2>1. UNCHANGED <<ckpt, log, seen>> /\ pc' \in Opening
    BY <1>2 DEF OpenRecover, OpenExistingJournal, OpenCreatesJournal,
       OpenWritesHeader, disk, hist, Opening
  <2>2. mem'.epoch = OpenEpoch(ckpt, log) /\ mem'.boot = OpenBoot(ckpt, log)
    BY <1>2 DEF EpochInv, OpenRecover, OpenExistingJournal,
       OpenCreatesJournal, OpenWritesHeader, Opening
  <2>3. QED
    BY <2>1, <2>2 DEF EpochInv, Opening, Serving, Compacting
<1>3. CASE OpenRecord
  <2> DEFINE op == EpochOp(mem.epoch, mem.boot)
  <2>1. /\ pc = "journal" /\ pc' = "ready" /\ mem' = mem /\ Logged(op)
        /\ seen' = [boot |-> mem.boot, epoch |-> mem.epoch, exit |-> "crashed"]
    BY <1>3 DEF OpenRecord
  <2>2. /\ op \in Records /\ op.kind = "epoch"
        /\ op.boot = mem.boot /\ op.epoch = mem.epoch
    BY <1>1, StoreAssumption DEF EpochOp, Records, States
  <2> HIDE DEF op
  <2>3. \A c \in {ckpt, mem} :
          Extended(c, log, topSeq, nextSeq + 1, op, log') /\ ckpt' = ckpt
    BY <2>1, <2>2, LoggedExtends
  <2>4. \A c \in {ckpt, mem} : /\ RecoveredEpoch(c, log') = mem.epoch
                               /\ RecoveredBoot(c, log') = mem.boot
                               /\ ~ RecoveredClean(c, log')
    BY <2>2, <2>3, AppendIncarnates
  <2>5. mem.epoch # 0
    BY <1>1, <2>1, OpenEpochType DEF EpochInv, Opening
  <2>6. Advances(seen', OpenEpoch(ckpt, log'), OpenBoot(ckpt, log'))
    BY <1>1, <2>1, <2>4, <2>5, NextIncarnation
  <2>7. QED
    BY <2>1, <2>3, <2>4, <2>5, <2>6 DEF EpochInv, Resumes, Opening
<1>4. ~ OpenRecordFails
  BY DEF OpenRecordFails, Settled
<1>5. QED
  BY <1>2, <1>3, <1>4 DEF Open

LEMMA MutationEpochs ==
  ASSUME Settled, DurableInv, DurableInv', EpochInv, Mutation
  PROVE  EpochInv'
<1>1. ShapeInv /\ ~ MutationFails
  BY DEF DurableInv, MutationFails, Settled
<1>2. PICK op \in Unfinished, state \in States :
        Mutate(op, state) /\ Follows(op, state)
  BY <1>1, MutationMutates
<1>3. /\ op \in Records /\ pc = "ready" /\ op.kind # "clean"
      /\ op.kind = "epoch" => op.epoch = mem.epoch + 1 /\ op.boot = mem.boot
  BY <1>1, UnfinishedOps
<1>4. /\ pc' = "ready" /\ Logged(op) /\ Acknowledge(op)
      /\ mem'.epoch = IF op.kind = "epoch" THEN op.epoch ELSE mem.epoch
      /\ mem'.boot = mem.boot
  BY <1>2 DEF Mutate, Follows, States
<1>5. Extended(ckpt, log, topSeq, nextSeq + 1, op, log') /\ ckpt' = ckpt
  BY <1>3, <1>4, LoggedExtends
<1>6. /\ Resumes(ckpt) /\ mem.epoch # 0
      /\ seen = [boot |-> mem.boot, epoch |-> mem.epoch, exit |-> "crashed"]
      /\ mem.epoch \in Nat /\ mem.boot \in Nat
      /\ mem'.epoch \in Nat /\ mem'.boot \in Nat
  BY <1>3, StoreAssumption
     DEF EpochInv, Serving, DurableInv, ShapeInv, TypeOK, ProcOK, States
<1>7. /\ RecoveredEpoch(ckpt, log') = mem'.epoch
      /\ RecoveredBoot(ckpt, log') = mem'.boot
      /\ ~ RecoveredClean(ckpt, log')
  BY <1>3, <1>4, <1>5, <1>6, AppendIncarnates DEF Resumes
<1>8. Resumes(mem)'
  <2>1. \A i \in DOMAIN log' : ~ (mem'.lastSeq < log'[i].seq)
    BY <1>2, <1>3, MutationCovers DEF DurableInv
  <2>2. QED
    BY <2>1, CoveredState DEF Resumes
<1>9. seen' = [boot |-> mem'.boot, epoch |-> mem'.epoch, exit |-> "crashed"]
  BY <1>3, <1>4, <1>6 DEF Acknowledge
<1>10. mem'.epoch # 0
  BY <1>3, <1>4, <1>6
<1>11. Advances(seen', OpenEpoch(ckpt, log'), OpenBoot(ckpt, log'))
  BY <1>6, <1>7, <1>9, <1>10, NextIncarnation
<1>12. QED
  BY <1>4, <1>5, <1>7, <1>8, <1>9, <1>10, <1>11 DEF EpochInv, Resumes, Opening

\* A checkpoint keeps the incarnation, and never says that it was shut down.
LEMMA CompactEpochs ==
  ASSUME Benign, DurableInv, EpochInv, Compact
  PROVE  EpochInv'
<1>1. UNCHANGED <<mem, seen>>
  BY DEF Compact, CompactPublish, CompactGivesUp, CompactRemove, CompactCreates,
         CompactLosesJournal, CompactFinish, hist
<1>2. pc \in Serving /\ pc' \in Serving
  BY DEF Compact, CompactPublish, CompactGivesUp, CompactRemove, CompactCreates,
         CompactLosesJournal, CompactFinish, Serving, Compacting
<1>3. /\ Resumes(ckpt) /\ mem.epoch # 0 /\ pc' \notin Opening
      /\ seen = [boot |-> mem.boot, epoch |-> mem.epoch, exit |-> "crashed"]
      /\ mem.epoch \in Nat /\ mem.boot \in Nat
  BY <1>2, StoreAssumption DEF EpochInv, Serving, Compacting, Opening,
     DurableInv, ShapeInv, TypeOK, ProcOK, States
<1>4. SUFFICES /\ Resumes(ckpt)'
               /\ pc' \in {"ready", "published"} => Resumes(mem)'
  <2>1. Resumes(ckpt)' => Advances(seen', OpenEpoch(ckpt, log)', OpenBoot(ckpt, log)')
    BY <1>1, <1>3, NextIncarnation DEF Resumes
  <2>2. QED
    BY <1>1, <1>2, <1>3, <1>4, <2>1 DEF EpochInv
<1>5. CASE CompactPublish
  <2>1. pc = "ready" /\ ckpt' = mem /\ log' = log
    BY <1>5 DEF CompactPublish
  <2>2. Resumes(mem)
    BY <2>1 DEF EpochInv
  <2>3. QED
    BY <1>1, <2>1, <2>2 DEF Resumes
<1>6. CASE CompactGivesUp \/ CompactCreates
  <2>1. UNCHANGED <<ckpt, log>>
    BY <1>6 DEF CompactGivesUp, CompactCreates, disk
  <2>2. pc' \in {"ready", "published"} => pc = "published"
    BY <1>6 DEF CompactGivesUp, CompactCreates
  <2>3. QED
    BY <1>1, <1>3, <2>1, <2>2 DEF EpochInv, Resumes
<1>7. CASE CompactRemove \/ CompactFinish
  <2>1. /\ pc \in {"published", "recreating"} /\ log' = <<>> /\ ckpt' = ckpt
    BY <1>7 DEF CompactRemove, CompactFinish, DurableInv, DiskInv
  <2>2. ckpt = mem
    BY <2>1 DEF DurableInv, DiskInv, Compacting
  <2>3. \A i \in DOMAIN <<>> : ~ (mem.lastSeq < <<>>[i].seq)
    OBVIOUS
  <2>4. /\ RecoveredEpoch(mem, <<>>) = mem.epoch
        /\ RecoveredBoot(mem, <<>>) = mem.boot /\ ~ RecoveredClean(mem, <<>>)
    BY <2>3, CoveredState
  <2>5. QED
    BY <1>1, <2>1, <2>2, <2>4 DEF Resumes
<1>8. ~ CompactLosesJournal
  BY DEF CompactLosesJournal, Benign
<1>9. QED
  BY <1>5, <1>6, <1>7, <1>8 DEF Compact

\* Whatever a process leaves when it ends, the next one follows it.
LEMMA StopEpochs ==
  ASSUME Benign, DurableInv, EpochInv, Stop
  PROVE  EpochInv'
<1>1. Down /\ ckpt' = ckpt
  BY StopLeaves
<1>2. SUFFICES Advances(seen', OpenEpoch(ckpt, log'), OpenBoot(ckpt, log'))
  BY <1>1 DEF EpochInv, Down, Opening, Serving, Compacting
<1>3. /\ ckpt \in States /\ mem \in States /\ log \in Logs
      /\ mem.epoch \in Nat /\ mem.boot \in Nat
      /\ seen \in [boot : Nat, epoch : Nat,
                   exit : {"none", "crashed", "clean", "unsure"}]
  BY StoreAssumption
     DEF DurableInv, ShapeInv, TypeOK, DiskOK, ProcOK, HistOK, Logs, States
<1>4. CleanOp \in Records /\ CleanOp.kind = "clean"
  BY DEF CleanOp, Records
<1>5. pc = "ready" =>
        /\ Resumes(ckpt) /\ mem.epoch # 0
        /\ seen = [boot |-> mem.boot, epoch |-> mem.epoch, exit |-> "crashed"]
  BY DEF EpochInv, Serving
<1>6. CASE log' = log /\ (UNCHANGED seen \/ (pc = "ready" /\ Attempt(CleanOp)))
  <2>1. CASE UNCHANGED seen
    BY <1>6, <2>1 DEF EpochInv
  <2>2. CASE pc = "ready" /\ Attempt(CleanOp)
    <3>1. seen' = [boot |-> mem.boot, epoch |-> mem.epoch, exit |-> "unsure"]
      BY <1>4, <1>5, <2>2 DEF Attempt
    <3>2. /\ OpenEpoch(ckpt, log) = mem.epoch + 1
          /\ OpenBoot(ckpt, log) = mem.boot + 1
      BY <1>3, <1>5, <2>2, NextIncarnation DEF Resumes
    <3>3. QED
      BY <1>3, <1>6, <3>1, <3>2 DEF Advances
  <2>3. QED
    BY <1>6, <2>1, <2>2
<1>7. ASSUME NEW op \in Unfinished, Logged(op), Attempt(op)
      PROVE  Advances(seen', OpenEpoch(ckpt, log'), OpenBoot(ckpt, log'))
  <2>1. /\ op \in Records /\ pc = "ready" /\ op.kind # "clean"
        /\ op.kind = "epoch" => op.epoch = mem.epoch + 1 /\ op.boot = mem.boot
    BY UnfinishedOps DEF DurableInv
  <2>2. Extended(ckpt, log, topSeq, nextSeq + 1, op, log')
    BY <1>7, <2>1, LoggedExtends
  <2>3. seen' = [boot |-> mem.boot, epoch |-> mem.epoch, exit |-> "crashed"]
    BY <1>5, <1>7, <2>1 DEF Attempt
  <2> DEFINE e == IF op.kind = "epoch" THEN mem.epoch + 1 ELSE mem.epoch
  <2>4. /\ RecoveredEpoch(ckpt, log') = e /\ RecoveredBoot(ckpt, log') = mem.boot
        /\ ~ RecoveredClean(ckpt, log')
    BY <1>5, <2>1, <2>2, AppendIncarnates DEF Resumes
  <2>5. e \in Nat /\ e # 0 /\ e >= mem.epoch
    BY <1>3, <1>5, <2>1
  <2> HIDE DEF e
  <2>6. OpenEpoch(ckpt, log') = e + 1 /\ OpenBoot(ckpt, log') = mem.boot + 1
    BY <1>3, <2>4, <2>5, NextIncarnation
  <2>7. QED
    BY <1>3, <2>3, <2>5, <2>6 DEF Advances
<1>8. CASE /\ pc = "ready" /\ Logged(CleanOp)
           /\ Attempt(CleanOp) \/ Acknowledge(CleanOp)
  <2>1. Extended(ckpt, log, topSeq, nextSeq + 1, CleanOp, log')
    BY <1>4, <1>8, LoggedExtends
  <2>2. /\ RecoveredEpoch(ckpt, log') = mem.epoch
        /\ RecoveredBoot(ckpt, log') = mem.boot /\ RecoveredClean(ckpt, log')
    BY <1>4, <1>5, <1>8, <2>1, AppendIncarnates DEF Resumes
  <2>3. /\ OpenEpoch(ckpt, log') = mem.epoch
        /\ OpenBoot(ckpt, log') = mem.boot + 1
    BY <1>5, <1>8, <2>2 DEF OpenEpoch, OpenBoot
  <2>4. seen'.boot = mem.boot /\ seen'.epoch = mem.epoch
        /\ seen'.exit \in {"clean", "unsure"}
    BY <1>4, <1>5, <1>8 DEF Attempt, Acknowledge
  <2>5. QED
    BY <1>3, <2>3, <2>4 DEF Advances
<1>9. CASE /\ pc = "journal" /\ Logged(EpochOp(mem.epoch, mem.boot))
           /\ seen' = [seen EXCEPT !.exit = IF @ = "clean" THEN "unsure" ELSE @]
  <2> DEFINE op == EpochOp(mem.epoch, mem.boot)
  <2>1. /\ op \in Records /\ op.kind = "epoch"
        /\ op.boot = mem.boot /\ op.epoch = mem.epoch
    BY <1>3, StoreAssumption DEF EpochOp, Records, States
  <2> HIDE DEF op
  <2>2. Extended(ckpt, log, topSeq, nextSeq + 1, op, log')
    BY <1>9, <2>1, LoggedExtends DEF op
  <2>3. /\ RecoveredEpoch(ckpt, log') = mem.epoch
        /\ RecoveredBoot(ckpt, log') = mem.boot /\ ~ RecoveredClean(ckpt, log')
    BY <2>1, <2>2, AppendIncarnates
  <2>4. Advances(seen, mem.epoch, mem.boot) /\ mem.epoch # 0
    BY <1>3, <1>9, OpenEpochType DEF EpochInv, Opening
  <2>5. /\ OpenEpoch(ckpt, log') = mem.epoch + 1
        /\ OpenBoot(ckpt, log') = mem.boot + 1
    BY <1>3, <2>3, <2>4, NextIncarnation
  <2>6. seen'.boot = seen.boot /\ seen'.epoch = seen.epoch /\ seen'.exit # "clean"
    BY <1>3, <1>9
  <2>7. QED
    BY <1>3, <2>4, <2>5, <2>6 DEF Advances
<1>10. QED
  BY <1>6, <1>7, <1>8, <1>9, StopLeaves

LEMMA NextEpochs ==
  ASSUME Settled, DurableInv, DurableInv', EpochInv, [Next]_vars
  PROVE  EpochInv'
<1>1. Benign
  BY DEF Settled, Benign
<1>2. CASE Open
  BY <1>2, OpenEpochs
<1>3. CASE Mutation
  BY <1>3, MutationEpochs
<1>4. CASE Compact
  BY <1>1, <1>4, CompactEpochs
<1>5. CASE Stop
  BY <1>1, <1>5, StopEpochs
<1>6. CASE UNCHANGED vars
  BY <1>6 DEF vars, disk, proc, hist, EpochInv, Resumes
<1>7. QED
  BY <1>2, <1>3, <1>4, <1>5, <1>6 DEF Next

\* The incarnation an open is about to record has a higher boot than any that
\* served before; it keeps their epoch if the last of them was closed, and has
\* a higher one if it was not.
THEOREM OpensAdvanceIncarnation ==
  ASSUME Settled PROVE Spec => []IncarnationsAdvance
<1>1. Benign
  BY DEF Settled, Benign
<1>2. DurableInv /\ [Next]_vars => DurableInv'
  BY <1>1, NextDurable
<1>3. DurableInv /\ DurableInv' /\ EpochInv /\ [Next]_vars => EpochInv'
  BY NextEpochs
<1>4. EpochInv => IncarnationsAdvance
  BY DEF EpochInv, Advances, IncarnationsAdvance
<1>5. QED
  BY InitDurable, InitEpochs, <1>2, <1>3, <1>4, PTL DEF Spec

-----------------------------------------------------------------------------
(* The loop of the replay computes what its definitions say *)

DataRecords == [seq : Nat, op : Records]
LoopStates ==
  [entries : [Ids -> Contents], history : Seq(Points), epoch : Nat, boot : Nat,
   lastSeq : Nat, clean : BOOLEAN]

\* What one turn of the loop makes of a state whose numbers do not cover the
\* record.
Turned(state, rec, t) ==
  /\ t = [entries |-> IF rec.op.kind = "write"
                        THEN [state.entries EXCEPT ![rec.op.key] = rec.op.val]
                        ELSE state.entries,
          history |-> IF rec.op.kind = "history"
                        THEN Trim(Append(state.history, rec.op.val)) ELSE state.history,
          epoch |-> IF rec.op.kind = "epoch" THEN rec.op.epoch ELSE state.epoch,
          boot |-> IF rec.op.kind = "epoch" THEN rec.op.boot ELSE state.boot,
          lastSeq |-> rec.seq,
          clean |-> IF rec.op.kind = "clean" THEN TRUE
                    ELSE IF rec.op.kind = "epoch" THEN FALSE ELSE state.clean]
  /\ t \in LoopStates

LEMMA ReplayTurns ==
  ASSUME NEW state \in LoopStates, NEW rec \in DataRecords
  PROVE  /\ ReplayRecord(state, rec) \in LoopStates
         /\ ~ (rec.seq <= state.lastSeq) => Turned(state, rec, ReplayRecord(state, rec))
         /\ rec.seq <= state.lastSeq => ReplayRecord(state, rec) = state
<1>1. SUFFICES ASSUME ~ (rec.seq <= state.lastSeq)
               PROVE  Turned(state, rec, ReplayRecord(state, rec))
  BY DEF ReplayRecord, Turned
<1>2. rec.seq \in Nat /\ rec.op \in Records
  BY DEF DataRecords
<1>3. /\ state.entries \in [Ids -> Contents] /\ state.history \in Seq(Points)
      /\ state.epoch \in Nat /\ state.boot \in Nat /\ state.lastSeq \in Nat
      /\ state.clean \in BOOLEAN
      /\ state = [entries |-> state.entries, history |-> state.history, epoch |-> state.epoch,
                  boot |-> state.boot, lastSeq |-> state.lastSeq, clean |-> state.clean]
  BY DEF LoopStates
<1>4. CASE rec.op.kind = "write"
  <2>1. rec.op.key \in Ids /\ rec.op.val \in Contents
    BY <1>2, <1>4 DEF Records
  <2>2. ReplayRecord(state, rec)
          = [[state EXCEPT !.entries[rec.op.key] = rec.op.val] EXCEPT !.lastSeq = rec.seq]
    BY <1>1, <1>4 DEF ReplayRecord
  <2>3. [state.entries EXCEPT ![rec.op.key] = rec.op.val] \in [Ids -> Contents]
    BY <1>3, <2>1
  <2>4. QED
    BY <1>2, <1>3, <1>4, <2>2, <2>3 DEF Turned, LoopStates
<1>5. CASE rec.op.kind = "history"
  <2>1. rec.op.val \in Points
    BY <1>2, <1>5 DEF Records
  <2>2. ReplayRecord(state, rec)
          = [[state EXCEPT !.history = Trim(Append(@, rec.op.val))] EXCEPT !.lastSeq = rec.seq]
    BY <1>1, <1>5 DEF ReplayRecord
  <2>3. Trim(Append(state.history, rec.op.val)) \in Seq(Points)
    BY <1>3, <2>1, AppendProperties, TrimProperty
  <2>4. QED
    BY <1>2, <1>3, <1>5, <2>2, <2>3 DEF Turned, LoopStates
<1>6. CASE rec.op.kind = "epoch"
  <2>1. rec.op.epoch \in Nat /\ rec.op.boot \in Nat
    BY <1>2, <1>6 DEF Records
  <2>2. ReplayRecord(state, rec)
          = [[state EXCEPT !.epoch = rec.op.epoch, !.boot = rec.op.boot, !.clean = FALSE]
               EXCEPT !.lastSeq = rec.seq]
    BY <1>1, <1>6 DEF ReplayRecord
  <2>3. QED
    BY <1>2, <1>3, <1>6, <2>1, <2>2 DEF Turned, LoopStates
<1>7. CASE rec.op.kind = "clean"
  <2>1. ReplayRecord(state, rec)
          = [[state EXCEPT !.clean = TRUE] EXCEPT !.lastSeq = rec.seq]
    BY <1>1, <1>7 DEF ReplayRecord
  <2>2. QED
    BY <1>2, <1>3, <1>7, <2>1 DEF Turned, LoopStates
<1>8. QED
  BY <1>2, <1>4, <1>5, <1>6, <1>7 DEF Records

\* The loop, prefix by prefix of the journal.
LEMMA ReplayUnfolds ==
  ASSUME NEW c \in States, NEW l \in Seq(DataRecords)
  PROVE  \E h : /\ ReplayLoop(c, l) = h[Len(l)]
                /\ h[0] = ReplayStart(c) /\ h \in [0 .. Len(l) -> LoopStates]
                /\ \A k \in 1 .. Len(l) : h[k] = ReplayRecord(h[k - 1], l[k])
<1> DEFINE D == DOMAIN l
           first == ReplayStart(c)
           F == [d \in D \X LoopStates |-> ReplayRecord(d[2], l[d[1]])]
           p == [T \in SUBSET D |-> Max(T)]
<1>1. PICK n \in Nat : n = Len(l) /\ D = 1 .. n /\ \A i \in D : l[i] \in DataRecords
  BY LenProperties
<1>2. first \in LoopStates
  BY DEF ReplayStart, States, LoopStates
<1>3. IsFiniteSet(D)
  <2>1. 1 \in Int /\ n \in Int
    OBVIOUS
  <2>2. QED
    BY <1>1, <2>1, FS_Interval
<1>4. \A T \in SUBSET D : T # {} => Max(T) \in T
  <2>1. n \in Int
    OBVIOUS
  <2>2. QED
    BY <1>1, <2>1, LastOf
<1>5. F \in [D \X LoopStates -> LoopStates]
  <2>1. \A d \in D \X LoopStates : ReplayRecord(d[2], l[d[1]]) \in LoopStates
    <3>1. TAKE d \in D \X LoopStates
    <3>2. d[2] \in LoopStates /\ l[d[1]] \in DataRecords
      BY <1>1
    <3>3. QED
      BY <3>2, ReplayTurns
  <2>2. QED
    BY <2>1
<1> HIDE DEF D, first
<1>6. PICK g : Folds_(g, D, LoopStates, first, F, p)
  <2>1. \A T \in SUBSET D : T # {} => p[T] \in T
    BY <1>4
  <2> HIDE DEF F, p
  <2>2. QED
    BY <1>2, <1>3, <1>5, <2>1, FoldExists
<1> DEFINE Turn(h, T) == IF T = {} THEN first ELSE ReplayRecord(h[T \ {Max(T)}], l[Max(T)])
           Fold(h) == h = [T \in SUBSET D |-> Turn(h, T)]
<1>7. g \in [SUBSET D -> LoopStates]
  BY <1>6 DEF Folds_
<1>8. \A T \in SUBSET D : g[T] = Turn(g, T)
  <2>1. TAKE T \in SUBSET D
  <2>2. g[T] = IF T = {} THEN first ELSE F[<<p[T], g[T \ {p[T]}]>>]
    BY <1>6 DEF Folds_
  <2>3. CASE T = {}
    BY <2>2, <2>3
  <2>4. CASE T # {}
    <3>1. Max(T) \in D /\ p[T] = Max(T) /\ g[T \ {Max(T)}] \in LoopStates
      BY <1>4, <1>7, <2>4
    <3>2. F[<<Max(T), g[T \ {Max(T)}]>>] = ReplayRecord(g[T \ {Max(T)}], l[Max(T)])
      BY <3>1
    <3>3. QED
      BY <2>2, <2>4, <3>1, <3>2
  <2>5. QED
    BY <2>3, <2>4
<1>9. Fold(g)
  BY <1>7, <1>8
<1>10. Fold(CHOOSE h : Fold(h))
  BY <1>9
<1>11. PICK h : Fold(h) /\ ReplayLoop(c, l) = h[D]
  <2>1. ReplayLoop(c, l) = (CHOOSE h : Fold(h))[D]
    BY DEF ReplayLoop, FoldLeft, MapThenFoldSet, D, first
  <2>2. QED
    BY <1>10, <2>1
<1>12. \A T \in SUBSET D : h[T] = Turn(h, T)
  BY <1>11
<1> HIDE DEF Fold, F, p
<1> DEFINE e == [k \in 0 .. n |-> h[1 .. k]]
<1>13. \A k \in 0 .. n : 1 .. k \in SUBSET D
  BY <1>1
<1>14. e[0] = first
  <2>1. 1 .. 0 = {}
    OBVIOUS
  <2>2. h[{}] = first
    BY <1>12
  <2>3. 0 \in 0 .. n
    OBVIOUS
  <2>4. QED
    BY <2>1, <2>2, <2>3
<1>15. ASSUME NEW k \in 1 .. n PROVE e[k] = ReplayRecord(e[k - 1], l[k])
  <2>1. k \in Nat /\ k - 1 \in 0 .. n /\ k \in 0 .. n
    OBVIOUS
  <2>2. PICK T \in SUBSET D : T = 1 .. k
    BY <1>13, <2>1
  <2>3. T # {} /\ Max(T) = k
    <3>1. k \in T /\ T \in SUBSET Nat /\ \A x \in T : x <= k
      BY <2>1, <2>2
    <3>2. Max(T) \in T /\ \A x \in T : x <= Max(T)
      BY <2>1, <3>1, MaxProperty
    <3>3. QED
      BY <2>1, <2>2, <3>1, <3>2
  <2>4. T \ {k} = 1 .. (k - 1)
    BY <2>1, <2>2
  <2>5. h[T] = ReplayRecord(h[1 .. (k - 1)], l[k])
    BY <1>12, <2>3, <2>4
  <2>6. QED
    BY <2>1, <2>2, <2>5
<1>16. \A k \in 0 .. n : e[k] \in LoopStates
  <2> DEFINE Bad == {k \in 0 .. n : e[k] \notin LoopStates}
  <2>1. SUFFICES ASSUME Bad # {} PROVE FALSE
    OBVIOUS
  <2>2. Bad \in SUBSET Nat
    OBVIOUS
  <2> HIDE DEF e
  <2>3. PICK k \in Bad : \A m \in Bad : k <= m
    BY <2>1, <2>2, LeastMember
  <2>4. k # 0 /\ k \in 1 .. n
    BY <1>2, <1>14, <2>3
  <2>5. e[k - 1] \in LoopStates
    <3>1. k - 1 \in 0 .. n /\ ~ (k <= k - 1)
      BY <2>4
    <3>2. QED
      BY <2>3, <3>1
  <2>6. l[k] \in DataRecords
    BY <1>1, <2>4
  <2>7. e[k] \in LoopStates
    BY <1>15, <2>4, <2>5, <2>6, ReplayTurns
  <2>8. QED
    BY <2>3, <2>7
<1>17. e[n] = h[D]
  BY <1>1
<1>18. e \in [0 .. n -> LoopStates]
  BY <1>16
<1> HIDE DEF e
<1>19. QED
  BY <1>1, <1>11, <1>14, <1>15, <1>17, <1>18 DEF first

\* A journal and the record after it, both numbered in order.
Followed(l, rec, l2) ==
  /\ l \in Logs /\ rec \in DataRecords /\ l2 = Append(l, rec) /\ Ascending(l2)

LEMMA FollowedShape ==
  ASSUME NEW l, NEW rec, NEW l2, Followed(l, rec, l2)
  PROVE  /\ l2 \in Logs /\ Ascending(l) /\ Below(l, rec.seq)
         /\ Below(l2, rec.seq + 1) /\ rec.seq \in Nat /\ rec.op \in Records
         /\ Len(l) \in Nat /\ DOMAIN l = 1 .. Len(l) /\ DOMAIN l2 = 1 .. (Len(l) + 1)
         /\ l2[Len(l) + 1] = rec
<1> DEFINE N == Len(l)
<1>1. l \in Logs /\ rec \in DataRecords /\ l2 = Append(l, rec) /\ Ascending(l2)
  BY DEF Followed
<1>2. rec.seq \in Nat /\ rec.op \in Records
  BY <1>1 DEF DataRecords
<1>3. /\ l2 \in Logs /\ N \in Nat
      /\ DOMAIN l = 1 .. N /\ DOMAIN l2 = 1 .. (N + 1)
      /\ \A i \in 1 .. N : l2[i] = l[i]
      /\ l2[N + 1] = rec
  BY <1>1, AppendProperties, LenProperties DEF Logs, DataRecords
<1> HIDE DEF N
<1>4. \A i \in 1 .. N : l[i].seq < rec.seq
  <2>1. N + 1 \in DOMAIN l2 /\ (N + 1) - 1 = N
    BY <1>3
  <2>2. \A i \in 1 .. N : l2[i].seq < l2[N + 1].seq
    BY <1>1, <2>1 DEF Ascending
  <2>3. QED
    BY <1>3, <2>2
<1>5. Below(l, rec.seq)
  BY <1>3, <1>4 DEF Below
<1>6. \A i \in 1 .. N : l[i].seq \in Nat
  <2>1. l \in [1 .. N -> [seq : Nat, op : Records]]
    BY <1>1, <1>3, LenProperties DEF Logs, N
  <2>2. QED
    BY <2>1
<1>7. Below(l2, rec.seq + 1)
  <2>1. \A i \in DOMAIN l2 : i = N + 1 \/ i \in 1 .. N
    BY <1>3
  <2>2. QED
    BY <1>2, <1>3, <1>4, <1>6, <2>1 DEF Below
<1>8. Ascending(l)
  <2>1. ASSUME NEW j \in 1 .. N, NEW i \in 1 .. (j - 1)
        PROVE  l[i].seq < l[j].seq
    <3>1. j \in DOMAIN l2 /\ i \in 1 .. N
      BY <1>3
    <3>2. l2[i].seq < l2[j].seq
      BY <1>1, <3>1 DEF Ascending
    <3>3. QED
      BY <1>3, <3>1, <3>2
  <2>2. QED
    BY <1>3, <2>1 DEF Ascending
<1>9. QED
  BY <1>2, <1>3, <1>5, <1>7, <1>8 DEF N

LEMMA LogNumbers ==
  ASSUME NEW l \in Logs
  PROVE  \A i \in DOMAIN l : l[i].seq \in Nat
<1>1. DOMAIN l = 1 .. Len(l) /\ l \in [1 .. Len(l) -> [seq : Nat, op : Records]]
  BY LenProperties DEF Logs
<1>2. \A i \in DOMAIN l : l[i] \in [seq : Nat, op : Records]
  BY <1>1
<1>3. QED
  BY <1>2

\* The definitions by the last applied record take one turn of the loop.
LEMMA LastWritesTurn ==
  ASSUME NEW c \in States, Len(c.history) <= MaxHistory,
         NEW l, NEW rec, NEW l2, Followed(l, rec, l2),
         LastWrites(c, l) \in LoopStates
  PROVE  ReplayRecord(LastWrites(c, l), rec) = LastWrites(c, l2)
<1> DEFINE state == LastWrites(c, l)
           op == rec.op
<1>1. /\ l \in Logs /\ l2 \in Logs /\ Ascending(l) /\ Below(l, rec.seq)
      /\ Below(l2, rec.seq + 1) /\ rec.seq \in Nat /\ op \in Records
      /\ rec.seq + 1 \in Nat /\ c.lastSeq \in Nat
      /\ DOMAIN l = 1 .. Len(l) /\ DOMAIN l2 = 1 .. (Len(l) + 1)
      /\ l2[Len(l) + 1] = rec
  <2>1. c.lastSeq \in Nat
    BY DEF States
  <2>2. l \in Logs
    BY DEF Followed
  <2>3. /\ l2 \in Logs /\ Ascending(l) /\ Below(l, rec.seq)
        /\ Below(l2, rec.seq + 1) /\ rec.seq \in Nat /\ op \in Records
        /\ DOMAIN l = 1 .. Len(l) /\ DOMAIN l2 = 1 .. (Len(l) + 1)
        /\ l2[Len(l) + 1] = rec
    BY FollowedShape
  <2>4. QED
    BY <2>1, <2>2, <2>3
<1>2. /\ RecoveredSeq(c, l) \in Nat /\ c.lastSeq <= RecoveredSeq(c, l)
      /\ RecoveredSeq(c, l) = c.lastSeq \/ RecoveredSeq(c, l) < rec.seq
  BY <1>1, RecoveredSeqProperty
<1>3. /\ RecoveredSeq(c, l2) \in Nat /\ c.lastSeq <= RecoveredSeq(c, l2)
      /\ \A i \in Applied(c, l2) : l2[i].seq <= RecoveredSeq(c, l2)
      /\ RecoveredSeq(c, l2) = c.lastSeq \/ RecoveredSeq(c, l2) < rec.seq + 1
  BY <1>1, RecoveredSeqProperty
<1>4. /\ state.lastSeq = RecoveredSeq(c, l)
      /\ state.entries = [id \in Ids |-> RecoveredEntry(c, l, id)]
      /\ state.history = RecoveredHistory(c, l)
      /\ state.epoch = RecoveredEpoch(c, l) /\ state.boot = RecoveredBoot(c, l)
      /\ state.clean = RecoveredClean(c, l)
  BY Zenon DEF LastWrites
<1>5. CASE rec.seq <= c.lastSeq
  <2>1. \A i \in DOMAIN l : ~ (c.lastSeq < l[i].seq)
    <3>1. \A i \in DOMAIN l : l[i].seq \in Nat
      BY <1>1, LogNumbers
    <3>2. QED
      BY <1>1, <1>5, <3>1 DEF Below
  <2>2. \A i \in DOMAIN l2 : ~ (c.lastSeq < l2[i].seq)
    <3>1. \A i \in DOMAIN l2 : l2[i].seq \in Nat
      BY <1>1, LogNumbers
    <3>2. QED
      BY <1>1, <1>5, <3>1 DEF Below
  <2>3. /\ RecoveredEpoch(c, l2) = RecoveredEpoch(c, l)
        /\ RecoveredBoot(c, l2) = RecoveredBoot(c, l)
        /\ \A id \in Ids : RecoveredEntry(c, l2, id) = RecoveredEntry(c, l, id)
    BY <2>1, <2>2, CoveredState
  <2>4. RecoveredHistory(c, l2) = RecoveredHistory(c, l)
    BY <1>1, <2>1, <2>2, CoveredHistory
  <2>5. RecoveredSeq(c, l2) = RecoveredSeq(c, l)
    BY <1>1, <1>2, <1>3, <1>5
  <2>6. RecoveredClean(c, l2) = RecoveredClean(c, l)
    <3>1. ~ RecoveredClean(c, l2) /\ ~ RecoveredClean(c, l)
      BY <2>1, <2>2, CoveredState
    <3>2. RecoveredClean(c, l2) \in BOOLEAN /\ RecoveredClean(c, l) \in BOOLEAN
      BY Zenon DEF RecoveredClean
    <3>3. QED
      BY <3>1, <3>2, Zenon
  <2>7. [id \in Ids |-> RecoveredEntry(c, l2, id)] = [id \in Ids |-> RecoveredEntry(c, l, id)]
    BY <2>3
  <2>8. LastWrites(c, l2) = LastWrites(c, l)
    BY <2>3, <2>4, <2>5, <2>6, <2>7, Zenon DEF LastWrites
  <2>9. rec.seq <= state.lastSeq
    BY <1>1, <1>2, <1>4, <1>5
  <2>10. QED
    BY <2>8, <2>9 DEF ReplayRecord
<1>6. CASE ~ (rec.seq <= c.lastSeq)
  <2>1. ~ (rec.seq <= state.lastSeq)
    BY <1>1, <1>2, <1>4, <1>6
  <2>2. Extended(c, l, rec.seq, rec.seq, op, l2)
    <3>1. rec = [seq |-> rec.seq, op |-> rec.op]
      BY DEF Followed, DataRecords
    <3>2. l2 = Append(l, rec)
      BY DEF Followed
    <3>3. QED
      BY <1>1, <1>6, <3>1, <3>2 DEF Extended
  <2>3. RecoveredSeq(c, l2) = rec.seq
    <3>1. Len(l) + 1 \in Applied(c, l2)
      BY <2>2, ExtendedApplies
    <3>2. rec.seq <= RecoveredSeq(c, l2)
      BY <1>1, <1>3, <3>1
    <3>3. QED
      BY <1>1, <1>3, <1>6, <3>2
  <2>4. [id \in Ids |-> RecoveredEntry(c, l2, id)]
          = IF op.kind = "write" THEN [state.entries EXCEPT ![op.key] = op.val]
            ELSE state.entries
    <3>1. \A id \in Ids : RecoveredEntry(c, l2, id) =
            IF op.kind = "write" /\ op.key = id THEN op.val ELSE RecoveredEntry(c, l, id)
      BY <2>2, AppendRecovers
    <3> HIDE DEF op, state
    <3>2. CASE op.kind = "write"
      BY <1>4, <3>1, <3>2
    <3>3. CASE op.kind # "write"
      BY <1>4, <3>1, <3>3
    <3>4. QED
      BY <3>2, <3>3
  <2>5. RecoveredHistory(c, l2)
          = IF op.kind = "history" THEN Trim(Append(state.history, op.val))
            ELSE state.history
    BY <1>4, <2>2, AppendReplays
  <2>6. /\ RecoveredEpoch(c, l2) = IF op.kind = "epoch" THEN op.epoch ELSE state.epoch
        /\ RecoveredBoot(c, l2) = IF op.kind = "epoch" THEN op.boot ELSE state.boot
    BY <1>4, <2>2, AppendIncarnates
  <2>7. RecoveredClean(c, l2) = IF op.kind = "clean" THEN TRUE
                                ELSE IF op.kind = "epoch" THEN FALSE ELSE state.clean
    <3>1. /\ op.kind = "clean" => RecoveredClean(c, l2)
          /\ op.kind = "epoch" => ~ RecoveredClean(c, l2)
          /\ op.kind \notin {"clean", "epoch"}
               => (RecoveredClean(c, l2) <=> RecoveredClean(c, l))
      BY <2>2, AppendIncarnates
    <3>2. RecoveredClean(c, l2) \in BOOLEAN /\ RecoveredClean(c, l) \in BOOLEAN
      BY Zenon DEF RecoveredClean
    <3>3. op.kind \notin {"clean", "epoch"} => op.kind # "clean" /\ op.kind # "epoch"
      OBVIOUS
    <3>4. "epoch" # "clean"
      OBVIOUS
    <3> HIDE DEF op, state
    <3>5. CASE op.kind = "clean"
      BY <3>1, <3>2, <3>5, Zenon
    <3>6. CASE op.kind = "epoch"
      BY <3>1, <3>2, <3>4, <3>6, Zenon
    <3>7. CASE op.kind \notin {"clean", "epoch"}
      BY <1>4, <3>1, <3>2, <3>3, <3>7, Zenon
    <3>8. QED
      BY <3>5, <3>6, <3>7
  <2>8. Turned(state, rec, ReplayRecord(state, rec))
    BY <2>1, ReplayTurns DEF Followed
  <2>9. Turned(state, rec, ReplayRecord(state, rec))
          => ReplayRecord(state, rec) = LastWrites(c, l2)
    <3> HIDE DEF state
    <3>1. QED
      BY <2>3, <2>4, <2>5, <2>6, <2>7, Zenon DEF Turned, LastWrites, op
  <2>10. QED
    BY <2>8, <2>9
<1>7. QED
  BY <1>5, <1>6

\* Before the first record the checkpoint is what both say.
LEMMA LastWritesStart ==
  ASSUME NEW c \in States, Len(c.history) <= MaxHistory
  PROVE  LastWrites(c, <<>>) = ReplayStart(c)
<1>1. <<>> \in Logs /\ DOMAIN <<>> = {}
  BY EmptySeq DEF Logs
<1>2. \A i \in DOMAIN <<>> : ~ (c.lastSeq < (<<>>)[i].seq)
  BY <1>1, Zenon
<1>3. /\ RecoveredEpoch(c, <<>>) = c.epoch /\ RecoveredBoot(c, <<>>) = c.boot
      /\ ~ RecoveredClean(c, <<>>)
      /\ \A id \in Ids : RecoveredEntry(c, <<>>, id) = c.entries[id]
  BY <1>2, CoveredState
<1>4. RecoveredHistory(c, <<>>) = c.history
  BY <1>1, <1>2, CoveredHistory
<1>5. RecoveredSeq(c, <<>>) = c.lastSeq
  <2>1. c.lastSeq \in Nat /\ 0 \in Nat
    BY DEF States
  <2>2. Below(<<>>, 0)
    BY <1>1, Zenon DEF Below
  <2>3. /\ c.lastSeq <= RecoveredSeq(c, <<>>) /\ RecoveredSeq(c, <<>>) \in Nat
        /\ RecoveredSeq(c, <<>>) = c.lastSeq \/ RecoveredSeq(c, <<>>) < 0
    BY <1>1, <2>1, <2>2, RecoveredSeqProperty
  <2>4. QED
    BY <2>3
<1>6. RecoveredClean(c, <<>>) = FALSE
  <2>1. RecoveredClean(c, <<>>) \in BOOLEAN
    BY Zenon DEF RecoveredClean
  <2>2. QED
    BY <1>3, <2>1, Zenon
<1>7. [id \in Ids |-> RecoveredEntry(c, <<>>, id)] = c.entries
  BY <1>3 DEF States
<1>8. QED
  BY <1>3, <1>4, <1>5, <1>6, <1>7, Zenon DEF LastWrites, ReplayStart

\* The replay of a journal numbered in order ends, record by record, where the
\* definitions by the last applied record say.
LEMMA ReplayLoopEnds ==
  ASSUME NEW c \in States, Len(c.history) <= MaxHistory, NEW l \in Logs, Ascending(l)
  PROVE  ReplayLoop(c, l) = LastWrites(c, l)
<1>1. PICK h : /\ ReplayLoop(c, l) = h[Len(l)]
               /\ h[0] = ReplayStart(c) /\ h \in [0 .. Len(l) -> LoopStates]
               /\ \A k \in 1 .. Len(l) : h[k] = ReplayRecord(h[k - 1], l[k])
  <2>1. l \in Seq(DataRecords)
    BY DEF Logs, DataRecords
  <2>2. QED
    BY <2>1, ReplayUnfolds
<1>2. /\ Len(l) \in Nat /\ DOMAIN l = 1 .. Len(l)
      /\ \A i \in 1 .. Len(l) : l[i] \in DataRecords
  BY LenProperties DEF Logs, DataRecords
<1> DEFINE n == Len(l)
           P(k) == SubSeq(l, 1, k)
           Bad == {k \in 0 .. n : h[k] # LastWrites(c, P(k))}
<1>3. ASSUME NEW k \in 0 .. n
      PROVE  P(k) \in Logs /\ Len(P(k)) = k /\ \A i \in 1 .. k : P(k)[i] = l[i]
  <2>1. k \in Int /\ 1 \in Int /\ k \in Nat /\ \A i \in 1 .. k : l[i] \in DataRecords
    BY <1>2
  <2>2. /\ P(k) \in Seq(DataRecords) /\ Len(P(k)) = (IF 1 <= k THEN k - 1 + 1 ELSE 0)
        /\ \A i \in 1 .. (k - 1 + 1) : P(k)[i] = l[1 + i - 1]
    BY <2>1, SubSeqProperties
  <2>3. \A i \in 1 .. k : i \in 1 .. (k - 1 + 1) /\ 1 + i - 1 = i
    BY <2>1
  <2> HIDE DEF P
  <2>4. QED
    BY <2>1, <2>2, <2>3 DEF Logs, DataRecords
<1>4. P(0) = <<>>
  BY <1>2, <1>3, EmptySeq DEF Logs
<1>5. P(n) = l
  <2>1. P(n) \in Logs /\ Len(P(n)) = n /\ \A i \in 1 .. n : P(n)[i] = l[i]
    BY <1>2, <1>3
  <2> HIDE DEF P
  <2>2. QED
    BY <2>1, SeqEqual DEF Logs
<1>6. ASSUME NEW k \in 1 .. n
      PROVE  Followed(P(k - 1), l[k], P(k))
  <2>1. k - 1 \in 0 .. n /\ k \in 0 .. n /\ k \in Nat /\ 1 .. k \subseteq 1 .. n
    BY <1>2
  <2>2. /\ P(k - 1) \in Logs /\ Len(P(k - 1)) = k - 1
        /\ \A i \in 1 .. (k - 1) : P(k - 1)[i] = l[i]
        /\ P(k) \in Logs /\ Len(P(k)) = k /\ \A i \in 1 .. k : P(k)[i] = l[i]
    BY <1>3, <2>1
  <2>3. l[k] \in DataRecords
    BY <1>2
  <2> HIDE DEF P
  <2>4. P(k) = Append(P(k - 1), l[k])
    <3>1. /\ Append(P(k - 1), l[k]) \in Logs /\ Len(Append(P(k - 1), l[k])) = k
          /\ \A i \in 1 .. (k - 1) : Append(P(k - 1), l[k])[i] = P(k - 1)[i]
          /\ Append(P(k - 1), l[k])[k] = l[k]
      BY <2>1, <2>2, <2>3, AppendProperties DEF Logs, DataRecords
    <3>2. \A i \in 1 .. k : i = k \/ i \in 1 .. (k - 1)
      BY <2>1
    <3>3. \A i \in 1 .. k : P(k)[i] = Append(P(k - 1), l[k])[i]
      BY <2>2, <3>1, <3>2
    <3>4. QED
      BY <2>2, <3>1, <3>3, SeqEqual DEF Logs
  <2>5. Ascending(P(k))
    <3>1. DOMAIN P(k) = 1 .. k
      BY <2>2, LenProperties DEF Logs
    <3>2. ASSUME NEW j \in 1 .. k, NEW i \in 1 .. (j - 1)
          PROVE  P(k)[i].seq < P(k)[j].seq
      <4>1. j \in DOMAIN l /\ j \in 1 .. k /\ i \in 1 .. k
        BY <1>2, <2>1
      <4>2. l[i].seq < l[j].seq
        BY <4>1 DEF Ascending
      <4>3. QED
        BY <2>2, <4>1, <4>2
    <3>3. QED
      BY <3>1, <3>2 DEF Ascending
  <2>6. QED
    BY <2>2, <2>3, <2>4, <2>5 DEF Followed
<1>7. 0 \notin Bad
  BY <1>1, <1>4, LastWritesStart
<1>8. Bad = {}
  <2>1. SUFFICES ASSUME Bad # {} PROVE FALSE
    OBVIOUS
  <2>2. Bad \in SUBSET Nat
    BY <1>2
  <2> HIDE DEF P
  <2>3. PICK k \in Bad : \A m \in Bad : k <= m
    BY <2>1, <2>2, LeastMember
  <2>4. k \in 1 .. n /\ k - 1 \in 0 .. n /\ ~ (k <= k - 1)
    BY <1>2, <1>7, <2>3
  <2>5. h[k - 1] = LastWrites(c, P(k - 1)) /\ h[k - 1] \in LoopStates
    BY <1>1, <2>3, <2>4
  <2>6. ReplayRecord(LastWrites(c, P(k - 1)), l[k]) = LastWrites(c, P(k))
    <3>1. Followed(P(k - 1), l[k], P(k))
      BY <1>6, <2>4
    <3>2. QED
      BY <2>5, <3>1, LastWritesTurn
  <2>7. h[k] = LastWrites(c, P(k))
    BY <1>1, <2>4, <2>5, <2>6
  <2>8. QED
    BY <2>3, <2>7
<1>9. n \in 0 .. n
  BY <1>2
<1>10. h[n] = LastWrites(c, P(n))
  BY <1>8, <1>9
<1>11. QED
  BY <1>1, <1>5, <1>10

\* Whatever crashed or failed before, replay_journal, which takes the records of
\* the scan one by one, skips those the checkpoint covers and applies the rest,
\* recovers what the last applied record of each kind says: the definitions the
\* other theorems of the store are about are what the loop computes.
THEOREM ReplaysAreLastWrites == Spec => []ReplayIsLastWrite
<1>1. Spec => []ShapeInv
  BY InitShape, NextShape, PTL DEF Spec
<1>2. ShapeInv => ReplayIsLastWrite
  <2>1. SUFFICES ASSUME ShapeInv PROVE ReplayIsLastWrite
    OBVIOUS
  <2>2. /\ ckpt \in States /\ Len(ckpt.history) <= MaxHistory
        /\ log \in Logs /\ Ascending(log)
    BY <2>1 DEF ShapeInv, TypeOK, DiskOK, Numbered, JournalOrdered, Logs, Ascending
  <2>3. QED
    BY <2>2, ReplayLoopEnds DEF ReplayIsLastWrite
<1>3. QED
  BY <1>1, <1>2, PTL

=============================================================================
