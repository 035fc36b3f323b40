---------------------------- MODULE JournalProofs ----------------------------
(***************************************************************************)
(* Proofs about module Journal: how records are numbered, that opening a    *)
(* journal cuts nothing off that a scan would find, and that a scan finds   *)
(* whole calls only, every acknowledged one among them, wherever the        *)
(* process or the machine ended; and that the loop of the scan finds what   *)
(* the file as a whole says it should.                                      *)
(***************************************************************************)
EXTENDS Scanning, ListLemmas, SequenceTheorems

-----------------------------------------------------------------------------
(* Records and what a scan keeps of them *)

DataRecords == [kind : {"data"}, seq : Nat, op : Ops]
BeginRecords == [kind : {"begin"}, seq : Nat, id : Nat, count : Nat]
CommitRecords ==
  [kind : {"commit"}, seq : Nat, id : Nat, count : Nat, chain : Seq(Ops)]

\* Records that verify, and whatever may be in a file.
Whole == DataRecords \cup BeginRecords \cup CommitRecords
Records == Whole \cup {Torn}

Buffers == [active : BOOLEAN, id : Nat, count : Nat, records : Seq(DataRecords)]
ScanFields ==
  [records : Seq(DataRecords), read : Nat, valid : Nat, last : Nat,
   unfinished : Nat, transaction : Buffers]

\* The buffer after a Begin, and after a data record of the transaction.
Started(rec) ==
  [active |-> TRUE, id |-> rec.id, count |-> rec.count, records |-> <<>>]
Taken(b, rec) == [b EXCEPT !.records = Append(@, rec)]

LEMMA TornIsNotWhole == Torn \notin Whole
BY DEF Torn, Whole, DataRecords, BeginRecords, CommitRecords

\* What one record does to the state of a scan.
Scanned(s, rec, t) ==
  /\ t \in ScanFields
  /\ t.read = s.read + 1
  /\ t.last >= s.last /\ t.last >= rec.seq
  /\ rec \in BeginRecords =>
       /\ t.records = s.records /\ t.valid = s.valid
       /\ t.transaction = Started(rec)
  /\ rec \in DataRecords /\ s.transaction.active = TRUE =>
       /\ t.records = s.records /\ t.valid = s.valid
       /\ t.transaction = Taken(s.transaction, rec)
  /\ rec \in DataRecords /\ s.transaction.active = FALSE =>
       /\ t.records = Append(s.records, rec) /\ t.valid = t.read
       /\ t.transaction = s.transaction
  /\ rec \in CommitRecords /\ Accepts(s.transaction, rec) =>
       /\ t.records = s.records \o s.transaction.records
       /\ t.valid = t.read /\ t.transaction = NoTransaction
  /\ rec \in CommitRecords /\ ~ Accepts(s.transaction, rec) =>
       /\ t.records = s.records /\ t.valid = s.valid
       /\ t.transaction = NoTransaction

LEMMA ScanStep ==
  ASSUME NEW s \in ScanFields, NEW rec \in Whole, NEW t, t = ScanRecord(s, rec)
  PROVE  Scanned(s, rec, t)
<1> DEFINE met == [s EXCEPT !.read = @ + 1,
                            !.last = IF rec.seq > @ THEN rec.seq ELSE @]
<1>1. rec.seq \in Nat
  BY DEF Whole, DataRecords, BeginRecords, CommitRecords
<1>2. /\ met \in ScanFields /\ met.read = s.read + 1
      /\ met.last >= s.last /\ met.last >= rec.seq
      /\ met.records = s.records /\ met.valid = s.valid
      /\ met.unfinished = s.unfinished /\ met.transaction = s.transaction
  <2> DEFINE last == IF rec.seq > s.last THEN rec.seq ELSE s.last
  <2>1. s.read + 1 \in Nat /\ last \in Nat /\ last >= s.last /\ last >= rec.seq
    BY <1>1 DEF ScanFields
  <2>2. met = [s EXCEPT !.read = s.read + 1, !.last = last]
    OBVIOUS
  <2> HIDE DEF met, last
  <2>3. QED
    BY <2>1, <2>2 DEF ScanFields
<1> HIDE DEF met
<1>3. CASE rec \in BeginRecords
  <2>1. rec.kind = "begin" /\ rec.id \in Nat /\ rec.count \in Nat
    BY <1>3 DEF BeginRecords
  <2>2. t = BeginScanned(met, rec)
    BY <2>1 DEF ScanRecord, met
  <2>3. rec \notin DataRecords /\ rec \notin CommitRecords
    BY <2>1 DEF DataRecords, CommitRecords
  <2>4. [active |-> TRUE, id |-> rec.id, count |-> rec.count, records |-> <<>>]
          \in Buffers
    BY <2>1 DEF Buffers
  <2>5. PICK k \in Nat :
          t = [met EXCEPT !.unfinished = k,
                 !.transaction = [active |-> TRUE, id |-> rec.id,
                                  count |-> rec.count, records |-> <<>>]]
    <3> DEFINE k == met.unfinished + IF met.transaction.active THEN 1 ELSE 0
    <3>1. k \in Nat
      BY <1>2 DEF ScanFields
    <3>2. t = [met EXCEPT !.unfinished = k,
                 !.transaction = [active |-> TRUE, id |-> rec.id,
                                  count |-> rec.count, records |-> <<>>]]
      BY <2>2 DEF BeginScanned
    <3> HIDE DEF k
    <3>3. QED
      BY <3>1, <3>2
  <2>6. QED
    BY <1>2, <2>3, <2>4, <2>5 DEF ScanFields, Started, Scanned
<1>4. CASE rec \in CommitRecords
  <2>1. rec.kind = "commit"
    BY <1>4 DEF CommitRecords
  <2>2. t = CommitScanned(met, rec)
    BY <2>1 DEF ScanRecord, met
  <2>3. rec \notin DataRecords /\ rec \notin BeginRecords
    BY <2>1 DEF DataRecords, BeginRecords
  <2>4. NoTransaction \in Buffers
    BY DEF NoTransaction, Buffers
  <2>5. s.records \in Seq(DataRecords) /\ s.transaction.records \in Seq(DataRecords)
    BY DEF ScanFields, Buffers
  <2>6. s.records \o s.transaction.records \in Seq(DataRecords)
    BY <2>5, ConcatProperties
  <2>7. CASE Accepts(s.transaction, rec)
    <3>1. t = [met EXCEPT !.records = @ \o s.transaction.records,
                          !.valid = met.read, !.transaction = NoTransaction]
      BY <1>2, <2>2, <2>7 DEF CommitScanned
    <3>2. QED
      BY <1>2, <2>3, <2>4, <2>6, <2>7, <3>1 DEF ScanFields, Scanned
  <2>8. CASE ~ Accepts(s.transaction, rec)
    <3>1. PICK k \in Nat :
            t = [met EXCEPT !.unfinished = k, !.transaction = NoTransaction]
      <4>1. met.unfinished + 1 \in Nat
        BY <1>2 DEF ScanFields
      <4>2. t = [met EXCEPT !.unfinished = met.unfinished + 1,
                            !.transaction = NoTransaction]
        BY <1>2, <2>2, <2>8 DEF CommitScanned
      <4>3. QED
        BY <4>1, <4>2
    <3>2. QED
      BY <1>2, <2>3, <2>4, <2>8, <3>1 DEF ScanFields, Scanned
  <2>9. QED
    BY <2>7, <2>8
<1>5. CASE rec \in DataRecords
  <2>1. rec.kind = "data"
    BY <1>5 DEF DataRecords
  <2>2. t = DataScanned(met, rec)
    BY <2>1 DEF ScanRecord, met
  <2>3. rec \notin CommitRecords /\ rec \notin BeginRecords
    BY <2>1 DEF CommitRecords, BeginRecords
  <2>4. /\ s.records \in Seq(DataRecords) /\ s.transaction \in Buffers
        /\ s.transaction.records \in Seq(DataRecords)
    BY DEF ScanFields, Buffers
  <2>5. CASE s.transaction.active = TRUE
    <3>1. t = [met EXCEPT !.transaction.records = Append(@, rec)]
      BY <1>2, <2>2, <2>5 DEF DataScanned
    <3>2. Append(s.transaction.records, rec) \in Seq(DataRecords)
      BY <1>5, <2>4, AppendProperties
    <3>3. [s.transaction EXCEPT !.records = Append(@, rec)] \in Buffers
      BY <2>4, <3>2 DEF Buffers
    <3>4. t = [met EXCEPT !.transaction =
                            [s.transaction EXCEPT !.records = Append(@, rec)]]
      BY <1>2, <3>1
    <3>5. QED
      BY <1>2, <2>3, <2>5, <3>3, <3>4 DEF ScanFields, Taken, Scanned
  <2>6. CASE s.transaction.active = FALSE
    <3>1. t = [met EXCEPT !.records = Append(@, rec), !.valid = met.read]
      BY <1>2, <2>2, <2>6 DEF DataScanned
    <3>2. Append(s.records, rec) \in Seq(DataRecords)
      BY <1>5, <2>4, AppendProperties
    <3>3. QED
      BY <1>2, <2>3, <2>6, <3>1, <3>2 DEF ScanFields, Scanned
  <2>7. s.transaction.active \in BOOLEAN
    BY DEF ScanFields, Buffers
  <2>8. QED
    BY <2>5, <2>6, <2>7
<1>6. QED
  BY <1>3, <1>4, <1>5 DEF Whole

-----------------------------------------------------------------------------
(* Sequences, prefix by prefix *)

\* What holds of the empty sequence and is kept by appending holds of all.
LEMMA EverySequence ==
  ASSUME NEW S, NEW P \in SUBSET Seq(S), <<>> \in P,
         \A s \in P, e \in S : Append(s, e) \in P
  PROVE  P = Seq(S)
<1> DEFINE Bad == {Len(s) : s \in Seq(S) \ P}
<1>1. SUFFICES ASSUME Bad # {} PROVE FALSE
  OBVIOUS
<1>2. Bad \in SUBSET Nat
  BY LenProperties
<1>3. PICK n \in Bad : \A m \in Bad : n <= m
  BY <1>1, <1>2, LeastMember
<1>4. PICK s \in Seq(S) : s \notin P /\ Len(s) = n
  BY <1>3
<1>5. PICK q \in Seq(S), e \in S : s = Append(q, e)
  BY <1>4, SequenceEmptyOrAppend
<1>6. Len(s) = Len(q) + 1 /\ Len(q) \in Nat
  BY <1>5, AppendProperties, LenProperties
<1>7. q \notin P
  BY <1>4, <1>5
<1>8. Len(q) \in Bad
  BY <1>7
<1>9. n <= Len(q)
  BY <1>3, <1>8
<1>10. QED
  BY <1>4, <1>6, <1>9

\* A prefix of a sequence.
LEMMA PrefixProperties ==
  ASSUME NEW S, NEW s \in Seq(S), NEW n \in 0 .. Len(s)
  PROVE  /\ SubSeq(s, 1, n) \in Seq(S)
         /\ Len(SubSeq(s, 1, n)) = n
         /\ \A i \in 1 .. n : SubSeq(s, 1, n)[i] = s[i]
<1>1. Len(s) \in Nat
  BY LenProperties
<1>2. \A i \in 1 .. n : s[i] \in S
  BY <1>1, ElementOfSeq
<1>3. QED
  BY <1>1, <1>2, SubSeqProperties

LEMMA EqualPrefixes ==
  ASSUME NEW S, NEW s \in Seq(S), NEW t \in Seq(S),
         NEW n \in 0 .. Len(s), n \in 0 .. Len(t), \A i \in 1 .. n : s[i] = t[i]
  PROVE  SubSeq(s, 1, n) = SubSeq(t, 1, n)
<1>1. PICK x, y : x = SubSeq(s, 1, n) /\ y = SubSeq(t, 1, n)
  OBVIOUS
<1>2. x \in Seq(S) /\ Len(x) = n /\ \A i \in 1 .. n : x[i] = s[i]
  BY <1>1, PrefixProperties
<1>3. y \in Seq(S) /\ Len(y) = n /\ \A i \in 1 .. n : y[i] = t[i]
  BY <1>1, PrefixProperties
<1>4. x = y
  BY <1>2, <1>3, SeqEqual
<1>5. QED
  BY <1>1, <1>4

\* A recursive function over the positions of a file exists: ScanStates is
\* the one it is defined to be.
LEMMA ScanUnfolds ==
  ASSUME NEW r \in Seq(Whole)
  PROVE  /\ ScanStates(r)[0] = ScanStart
         /\ \A n \in 1 .. Len(r) :
              ScanStates(r)[n] = ScanRecord(ScanStates(r)[n - 1], r[n])
<1> DEFINE Unfolds(g, k) ==
             g = [n \in 0 .. k |-> IF n = 0 THEN ScanStart
                                   ELSE ScanRecord(g[n - 1], r[n])]
           Bad == {k \in Nat : ~ \E g : Unfolds(g, k)}
<1>1. Bad = {}
  <2>1. SUFFICES ASSUME Bad # {} PROVE FALSE
    OBVIOUS
  <2>2. PICK k \in Bad : \A m \in Bad : k <= m
    BY <2>1, LeastMember
  <2>3. CASE k = 0
    <3>1. Unfolds([n \in 0 .. 0 |-> ScanStart], 0)
      OBVIOUS
    <3>2. QED
      BY <2>2, <2>3, <3>1
  <2>4. CASE k # 0
    <3>1. k - 1 \in Nat /\ k - 1 \notin Bad
      BY <2>2, <2>4
    <3>2. PICK g : Unfolds(g, k - 1)
      BY <3>1
    <3> DEFINE h == [n \in 0 .. k |-> IF n < k THEN g[n]
                                      ELSE ScanRecord(g[k - 1], r[k])]
    <3>3. \A n \in 0 .. k : h[n] = IF n = 0 THEN ScanStart
                                   ELSE ScanRecord(h[n - 1], r[n])
      <4>1. TAKE n \in 0 .. k
      <4>2. CASE n = 0
        BY <2>4, <3>1, <3>2, <4>2
      <4>3. CASE n # 0 /\ n < k
        <5>1. n \in 0 .. k - 1 /\ n - 1 \in 0 .. k /\ n - 1 < k
          BY <4>3
        <5>2. g[n] = ScanRecord(g[n - 1], r[n])
          BY <3>2, <4>3, <5>1
        <5>3. h[n] = g[n] /\ h[n - 1] = g[n - 1]
          BY <4>3, <5>1
        <5>4. QED
          BY <4>3, <5>2, <5>3
      <4>4. CASE n = k
        <5>1. h[k] = ScanRecord(g[k - 1], r[k]) /\ h[k - 1] = g[k - 1]
          BY <3>1
        <5>2. QED
          BY <2>4, <4>4, <5>1
      <4>5. QED
        BY <4>2, <4>3, <4>4
    <3>4. Unfolds(h, k)
      BY <3>3
    <3>5. QED
      BY <2>2, <3>4
  <2>5. QED
    BY <2>3, <2>4
<1>2. Len(r) \in Nat
  BY LenProperties
<1>3. \E g : Unfolds(g, Len(r))
  BY <1>1, <1>2
<1>4. Unfolds(ScanStates(r), Len(r))
  BY <1>3 DEF ScanStates
<1>5. QED
  BY <1>2, <1>4

\* Where the loop is depends on the records it has read only.
LEMMA ScanStatesAgree ==
  ASSUME NEW r \in Seq(Whole), NEW q \in Seq(Whole),
         NEW k \in 0 .. Len(r), k <= Len(q), \A i \in 1 .. k : r[i] = q[i]
  PROVE  ScanStates(r)[k] = ScanStates(q)[k]
<1> DEFINE Bad == {n \in 0 .. k : ScanStates(r)[n] # ScanStates(q)[n]}
<1>1. SUFFICES ASSUME Bad # {} PROVE FALSE
  <2>1. Len(r) \in Nat
    BY LenProperties
  <2>2. k \in 0 .. k
    BY <2>1
  <2>3. QED
    BY <2>2
<1>2. Len(r) \in Nat /\ Len(q) \in Nat
  BY LenProperties
<1>3. PICK n \in Bad : \A m \in Bad : n <= m
  <2>1. Bad \in SUBSET Nat
    BY <1>2
  <2>2. QED
    BY <1>1, <2>1, LeastMember
<1>4. n # 0
  BY <1>3, ScanUnfolds
<1>5. n - 1 \notin Bad /\ n - 1 \in 0 .. k /\ n \in 1 .. k
  BY <1>2, <1>3, <1>4
<1>6. ScanStates(r)[n - 1] = ScanStates(q)[n - 1]
  BY <1>5
<1>7. n \in 1 .. Len(r) /\ n \in 1 .. Len(q)
  BY <1>2, <1>5
<1>8. ScanStates(r)[n] = ScanStates(q)[n]
  BY <1>5, <1>6, <1>7, ScanUnfolds
<1>9. QED
  BY <1>3, <1>8

\* The state of a scan that has read a file to its end.
ScanState(w) == ScanStates(w)[Len(w)]

\* A scan of a longer file goes on where that of the shorter one ended.
LEMMA ScanOneMore ==
  /\ ScanState(<<>>) = ScanStart
  /\ \A w \in Seq(Whole), rec \in Whole :
       ScanState(Append(w, rec)) = ScanRecord(ScanState(w), rec)
<1>1. ScanState(<<>>) = ScanStart
  BY ScanUnfolds, EmptySeq DEF ScanState
<1>2. ASSUME NEW w \in Seq(Whole), NEW rec \in Whole
      PROVE  ScanState(Append(w, rec)) = ScanRecord(ScanState(w), rec)
  <2> DEFINE v == Append(w, rec)
  <2>1. /\ v \in Seq(Whole) /\ Len(v) = Len(w) + 1 /\ v[Len(w) + 1] = rec
        /\ Len(w) \in Nat /\ \A i \in 1 .. Len(w) : v[i] = w[i]
    BY AppendProperties, LenProperties
  <2> HIDE DEF v
  <2>2. ScanStates(v)[Len(w)] = ScanStates(w)[Len(w)]
    <3>1. Len(w) \in 0 .. Len(v) /\ Len(w) <= Len(w)
      BY <2>1
    <3>2. QED
      BY <2>1, <3>1, ScanStatesAgree
  <2>3. ScanStates(v)[Len(w) + 1] =
          ScanRecord(ScanStates(v)[Len(w) + 1 - 1], v[Len(w) + 1])
    <3>1. Len(w) + 1 \in 1 .. Len(v)
      BY <2>1
    <3>2. QED
      BY <2>1, <3>1, ScanUnfolds
  <2>4. Len(w) + 1 - 1 = Len(w)
    BY <2>1
  <2>5. QED
    BY <2>1, <2>2, <2>3, <2>4 DEF ScanState, v
<1>3. QED
  BY <1>1, <1>2

\* What a scan of whole records establishes: it has read them all, knows their
\* highest number, and finds all it found before the end of the last record
\* that committed something.
ScanOK(w) ==
  LET s == ScanState(w)
  IN  /\ s \in ScanFields /\ s.read = Len(w) /\ s.valid <= Len(w)
      /\ \A i \in 1 .. Len(w) : w[i].seq <= s.last
      /\ ScanState(SubSeq(w, 1, s.valid)).records = s.records

LEMMA ScanInvariant == \A w \in Seq(Whole) : ScanOK(w)
<1> DEFINE P == {w \in Seq(Whole) : ScanOK(w)}
<1>1. <<>> \in P
  <2>1. ScanStart \in ScanFields
    <3>1. <<>> \in Seq(DataRecords)
      BY EmptySeq
    <3>2. QED
      BY <3>1 DEF ScanStart, ScanFields, NoTransaction, Buffers
  <2>2. ScanStart.read = 0 /\ ScanStart.valid = 0
    BY DEF ScanStart
  <2>3. <<>> \in Seq(Whole) /\ Len(<<>>) = 0
    BY EmptySeq
  <2>4. SubSeq(<<>>, 1, 0) = <<>>
    BY SubSeqEmpty
  <2>5. ScanState(<<>>) = ScanStart
    BY ScanOneMore
  <2>6. ScanOK(<<>>)
    <3>1. SubSeq(<<>>, 1, ScanStart.valid) = <<>>
      BY <2>2, <2>4
    <3>2. \A i \in 1 .. Len(<<>>) : FALSE
      BY <2>3
    <3>3. ScanStart.valid <= Len(<<>>)
      BY <2>2, <2>3
    <3>4. QED
      BY <2>1, <2>2, <2>3, <2>5, <3>1, <3>2, <3>3 DEF ScanOK
  <2>7. QED
    BY <2>3, <2>6
<1>2. ASSUME NEW w \in P, NEW rec \in Whole
      PROVE  Append(w, rec) \in P
  <2> DEFINE v == Append(w, rec)
             s == ScanState(w)
             t == ScanState(v)
  <2>1. /\ v \in Seq(Whole) /\ Len(v) = Len(w) + 1 /\ v[Len(w) + 1] = rec
        /\ Len(w) \in Nat /\ \A i \in 1 .. Len(w) : v[i] = w[i]
    BY AppendProperties, LenProperties
  <2>2. t = ScanRecord(s, rec)
    BY ScanOneMore
  <2>3. /\ s \in ScanFields /\ s.read = Len(w) /\ s.valid <= Len(w)
        /\ \A i \in 1 .. Len(w) : w[i].seq <= s.last
        /\ ScanState(SubSeq(w, 1, s.valid)).records = s.records
    BY DEF ScanOK
  <2> HIDE DEF v, s, t
  <2>4. /\ t \in ScanFields /\ t.read = s.read + 1
        /\ t.last >= s.last /\ t.last >= rec.seq
        /\ \/ t.records = s.records /\ t.valid = s.valid
           \/ t.valid = t.read
    <3>1. Scanned(s, rec, t)
      BY <2>2, <2>3, ScanStep
    <3>2. s.transaction.active \in BOOLEAN
      BY <2>3 DEF ScanFields, Buffers
    <3>3. QED
      BY <3>1, <3>2 DEF Scanned, Whole
  <2>5. s.valid \in Nat /\ s.last \in Nat /\ t.last \in Nat /\ rec.seq \in Nat
    BY <2>3, <2>4 DEF ScanFields, Whole, DataRecords, BeginRecords, CommitRecords
  <2>6. t.read = Len(v) /\ t.valid <= Len(v)
    BY <2>1, <2>3, <2>4, <2>5
  <2>7. ASSUME NEW i \in 1 .. Len(v) PROVE v[i].seq <= t.last
    <3>1. CASE i \in 1 .. Len(w)
      <4>1. w[i] \in Whole
        BY <3>1, ElementOfSeq
      <4>2. w[i].seq \in Nat
        BY <4>1 DEF Whole, DataRecords, BeginRecords, CommitRecords
      <4>3. v[i] = w[i] /\ w[i].seq <= s.last
        BY <2>1, <2>3, <3>1
      <4>4. QED
        BY <2>4, <2>5, <4>2, <4>3
    <3>2. CASE i = Len(w) + 1
      BY <2>1, <2>4, <2>5, <3>2
    <3>3. QED
      BY <2>1, <3>1, <3>2
  <2>8. ScanState(SubSeq(v, 1, t.valid)).records = t.records
    <3>1. CASE t.valid = t.read
      <4>1. SubSeq(v, 1, Len(v)) = v
        BY <2>1, SubSeqFull
      <4>2. QED
        BY <2>6, <3>1, <4>1 DEF t
    <3>2. CASE t.records = s.records /\ t.valid = s.valid
      <4>1. SubSeq(v, 1, s.valid) = SubSeq(w, 1, s.valid)
        <5>1. s.valid \in 0 .. Len(w) /\ s.valid \in 0 .. Len(v)
          BY <2>1, <2>3, <2>5
        <5>2. \A i \in 1 .. s.valid : v[i] = w[i]
          BY <2>1, <5>1
        <5>3. QED
          BY <2>1, <5>1, <5>2, EqualPrefixes
      <4>2. QED
        BY <2>3, <3>2, <4>1
    <3>3. QED
      BY <2>4, <3>1, <3>2
  <2>9. ScanOK(v)
    BY <2>4, <2>6, <2>7, <2>8 DEF ScanOK, t
  <2>10. QED
    BY <2>1, <2>9 DEF v
<1>3. P = Seq(Whole)
  <2>1. P \in SUBSET Seq(Whole)
    OBVIOUS
  <2> HIDE DEF P
  <2>2. QED
    BY <1>1, <1>2, <2>1, EverySequence
<1>4. QED
  BY <1>3

-----------------------------------------------------------------------------
(* Where a scan stops *)

LEMMA ReadableProperties ==
  ASSUME NEW r \in Seq(Records), NEW w, w = Readable(r)
  PROVE  /\ w \in Seq(Whole) /\ Len(w) \in 0 .. Len(r)
         /\ \A i \in 1 .. Len(w) : w[i] = r[i]
         /\ Len(w) < Len(r) => r[Len(w) + 1] = Torn
         /\ w = SubSeq(r, 1, Len(w))
<1> DEFINE Tears == {n \in DOMAIN r : r[n] = Torn}
<1>1. DOMAIN r = 1 .. Len(r) /\ Len(r) \in Nat
  BY LenProperties
<1>2. \A i \in 1 .. Len(r) : r[i] \in Records
  BY ElementOfSeq
<1>3. CASE Tears = {}
  <2>1. \A i \in 1 .. Len(r) : r[i] \in Whole
    BY <1>1, <1>2, <1>3 DEF Records
  <2>2. w = r
    BY <1>3 DEF Readable
  <2>3. SubSeq(r, 1, Len(r)) \in Seq(Whole)
    BY <1>1, <2>1, SubSeqProperties
  <2>4. SubSeq(r, 1, Len(r)) = r
    BY SubSeqFull
  <2>5. QED
    BY <1>1, <2>2, <2>3, <2>4
<1>4. CASE Tears # {}
  <2>1. Tears \in SUBSET Nat
    BY <1>1
  <2>2. PICK k \in Tears : \A n \in Tears : k <= n
    BY <1>4, <2>1, LeastMember
  <2>3. k \in DOMAIN r /\ r[k] = Torn /\ \A m \in 1 .. (k - 1) : r[m] # Torn
    BY <1>1, <2>2
  <2> DEFINE First == CHOOSE n \in DOMAIN r :
                        r[n] = Torn /\ \A m \in 1 .. (n - 1) : r[m] # Torn
  <2>4. /\ First \in DOMAIN r /\ r[First] = Torn
        /\ \A m \in 1 .. (First - 1) : r[m] # Torn
    BY <2>3
  <2>5. w = SubSeq(r, 1, First - 1)
    BY <1>4 DEF Readable
  <2> HIDE DEF First
  <2>6. First - 1 \in 0 .. Len(r) /\ First - 1 \in Int /\ First - 1 + 1 = First
    BY <1>1, <2>4
  <2>7. \A i \in 1 .. (First - 1) : r[i] \in Whole
    BY <1>1, <1>2, <2>4 DEF Records
  <2>8. w \in Seq(Whole)
    BY <2>5, <2>6, <2>7, SubSeqProperties
  <2>9. Len(w) = First - 1 /\ \A i \in 1 .. (First - 1) : w[i] = r[i]
    BY <2>5, <2>6, PrefixProperties
  <2>10. QED
    BY <2>4, <2>5, <2>6, <2>8, <2>9
<1>5. QED
  BY <1>3, <1>4

\* Whole records that reach to the end of the file or to a torn one are all
\* that is read.
LEMMA ReadableIs ==
  ASSUME NEW r \in Seq(Records), NEW w \in Seq(Whole), Len(w) <= Len(r),
         \A i \in 1 .. Len(w) : w[i] = r[i],
         Len(w) < Len(r) => r[Len(w) + 1] = Torn
  PROVE  Readable(r) = w
<1>1. PICK v : v = Readable(r)
  OBVIOUS
<1>2. /\ v \in Seq(Whole) /\ Len(v) \in 0 .. Len(r)
      /\ \A i \in 1 .. Len(v) : v[i] = r[i]
      /\ Len(v) < Len(r) => r[Len(v) + 1] = Torn
  BY <1>1, ReadableProperties
<1>3. Len(v) \in Nat /\ Len(w) \in Nat /\ Len(r) \in Nat
  BY <1>2, LenProperties
<1>4. ~ (Len(v) < Len(w))
  <2>1. SUFFICES ASSUME Len(v) < Len(w) PROVE FALSE
    OBVIOUS
  <2>2. Len(v) + 1 \in 1 .. Len(w) /\ Len(v) < Len(r)
    BY <1>3, <2>1
  <2>3. w[Len(v) + 1] = Torn /\ w[Len(v) + 1] \in Whole
    BY <1>2, <2>2, ElementOfSeq
  <2>4. QED
    BY <2>3, TornIsNotWhole
<1>5. ~ (Len(w) < Len(v))
  <2>1. SUFFICES ASSUME Len(w) < Len(v) PROVE FALSE
    OBVIOUS
  <2>2. Len(w) + 1 \in 1 .. Len(v) /\ Len(w) < Len(r)
    BY <1>2, <1>3, <2>1
  <2>3. v[Len(w) + 1] = Torn /\ v[Len(w) + 1] \in Whole
    BY <1>2, <2>2, ElementOfSeq
  <2>4. QED
    BY <2>3, TornIsNotWhole
<1>6. Len(v) = Len(w)
  BY <1>3, <1>4, <1>5
<1>7. v = w
  BY <1>2, <1>6, SeqEqual
<1>8. QED
  BY <1>1, <1>7

\* Whole records are read to the end.
LEMMA ReadableOfWhole ==
  ASSUME NEW w \in Seq(Whole)
  PROVE  w \in Seq(Records) /\ Readable(w) = w
<1>1. w \in Seq(Records)
  BY SeqMonotonic DEF Records
<1>2. Len(w) \in Nat
  BY LenProperties
<1>3. QED
  BY <1>1, <1>2, ReadableIs

\* A torn record at the end adds nothing to what is read.
LEMMA ReadableOfTorn ==
  ASSUME NEW r \in Seq(Records)
  PROVE  Append(r, Torn) \in Seq(Records) /\ Readable(Append(r, Torn)) = Readable(r)
<1>1. PICK w : w = Readable(r)
  OBVIOUS
<1>2. /\ w \in Seq(Whole) /\ Len(w) \in 0 .. Len(r)
      /\ \A i \in 1 .. Len(w) : w[i] = r[i]
      /\ Len(w) < Len(r) => r[Len(w) + 1] = Torn
  BY <1>1, ReadableProperties
<1>3. PICK q : q = Append(r, Torn)
  OBVIOUS
<1>4. Torn \in Records
  BY DEF Records
<1>5. /\ q \in Seq(Records) /\ Len(q) = Len(r) + 1 /\ q[Len(r) + 1] = Torn
      /\ Len(r) \in Nat /\ \A i \in 1 .. Len(r) : q[i] = r[i]
  BY <1>3, <1>4, AppendProperties, LenProperties
<1>6. Len(w) <= Len(q) /\ \A i \in 1 .. Len(w) : w[i] = q[i]
  BY <1>2, <1>5
<1>7. q[Len(w) + 1] = Torn
  <2>1. CASE Len(w) = Len(r)
    BY <1>5, <2>1
  <2>2. CASE Len(w) < Len(r)
    BY <1>2, <1>5, <2>2
  <2>3. QED
    BY <1>2, <1>5, <2>1, <2>2
<1>8. Readable(q) = w
  BY <1>2, <1>5, <1>6, <1>7, ReadableIs
<1>9. QED
  BY <1>1, <1>3, <1>5, <1>8

\* What is read of a prefix of a file is a prefix of what is read of the file.
LEMMA ReadableOfPrefix ==
  ASSUME NEW r \in Seq(Records), NEW n \in 0 .. Len(r),
         NEW v, v = Readable(SubSeq(r, 1, n)), NEW w, w = Readable(r)
  PROVE  /\ v \in Seq(Whole) /\ Len(v) <= Len(w) /\ Len(v) <= n
         /\ \A i \in 1 .. Len(v) : v[i] = w[i]
<1>1. PICK q : q = SubSeq(r, 1, n)
  OBVIOUS
<1>2. q \in Seq(Records) /\ Len(q) = n /\ \A i \in 1 .. n : q[i] = r[i]
  BY <1>1, PrefixProperties
<1>3. /\ v \in Seq(Whole) /\ Len(v) \in 0 .. n
      /\ \A i \in 1 .. Len(v) : v[i] = q[i]
  BY <1>1, <1>2, ReadableProperties
<1>4. /\ w \in Seq(Whole) /\ Len(w) \in 0 .. Len(r)
      /\ \A i \in 1 .. Len(w) : w[i] = r[i]
      /\ Len(w) < Len(r) => r[Len(w) + 1] = Torn
  BY ReadableProperties
<1>5. Len(r) \in Nat
  BY LenProperties
<1>6. \A i \in 1 .. Len(v) : v[i] = r[i]
  BY <1>2, <1>3, <1>5
<1>7. ~ (Len(w) < Len(v))
  <2>1. SUFFICES ASSUME Len(w) < Len(v) PROVE FALSE
    OBVIOUS
  <2>2. Len(w) + 1 \in 1 .. Len(v) /\ Len(w) < Len(r)
    BY <1>3, <1>4, <1>5, <2>1
  <2>3. v[Len(w) + 1] = Torn /\ v[Len(w) + 1] \in Whole
    BY <1>3, <1>4, <1>6, <2>2, ElementOfSeq
  <2>4. QED
    BY <2>3, TornIsNotWhole
<1>8. Len(v) <= Len(w)
  BY <1>3, <1>4, <1>5, <1>7
<1>9. \A i \in 1 .. Len(v) : i \in 1 .. Len(w)
  BY <1>3, <1>4, <1>5, <1>8
<1>10. QED
  BY <1>3, <1>4, <1>5, <1>6, <1>8, <1>9

\* A whole record is read if no torn one precedes it.
LEMMA ReadableOfLonger ==
  ASSUME NEW r \in Seq(Records), NEW rec \in Whole,
         NEW v, v = Readable(Append(r, rec)), NEW w, w = Readable(r)
  PROVE  /\ Append(r, rec) \in Seq(Records)
         /\ \/ v = w
            \/ v = Append(w, rec) /\ w = r
<1>1. PICK q : q = Append(r, rec)
  OBVIOUS
<1>2. rec \in Records
  BY DEF Records
<1>3. /\ q \in Seq(Records) /\ Len(q) = Len(r) + 1
      /\ Len(r) \in Nat /\ \A i \in 1 .. Len(r) : q[i] = r[i]
  BY <1>1, <1>2, AppendProperties, LenProperties
<1>4. /\ w \in Seq(Whole) /\ Len(w) \in 0 .. Len(r)
      /\ \A i \in 1 .. Len(w) : w[i] = r[i]
      /\ Len(w) < Len(r) => r[Len(w) + 1] = Torn
      /\ w = SubSeq(r, 1, Len(w))
  BY ReadableProperties
<1>5. CASE Len(w) < Len(r)
  <2>1. q[Len(w) + 1] = Torn
    BY <1>3, <1>4, <1>5
  <2>2. Len(w) <= Len(q) /\ \A i \in 1 .. Len(w) : w[i] = q[i]
    BY <1>3, <1>4
  <2>3. Readable(q) = w
    BY <1>3, <1>4, <2>1, <2>2, ReadableIs
  <2>4. QED
    BY <1>1, <1>3, <2>3
<1>6. CASE Len(w) = Len(r)
  <2>1. w = r
    BY <1>4, <1>6, SubSeqFull
  <2>2. q \in Seq(Whole)
    BY <1>1, <1>4, <2>1, AppendProperties
  <2>3. Readable(q) = q
    BY <2>2, ReadableOfWhole
  <2>4. QED
    BY <1>1, <1>3, <2>1, <2>3
<1>7. QED
  BY <1>3, <1>4, <1>5, <1>6

\* A scan of a file in terms of what is read of it.
LEMMA ScanProperties ==
  ASSUME NEW r \in Seq(Records), NEW w, w = Readable(r)
  PROVE  /\ Scan(r).records = ScanState(w).records
         /\ Scan(r).records \in Seq(DataRecords)
         /\ Scan(r).valid = ScanState(w).valid /\ Scan(r).valid \in 0 .. Len(w)
         /\ Scan(r).last \in Nat /\ \A i \in 1 .. Len(w) : w[i].seq <= Scan(r).last
         /\ Scan(r).dangling = ScanState(w).transaction.active
         /\ Scan(r).truncated = (Len(w) < Len(r))
<1>1. PICK s : s = ScanState(w)
  OBVIOUS
<1>2. w \in Seq(Whole)
  BY ReadableProperties
<1>3. /\ s \in ScanFields /\ s.read = Len(w) /\ s.valid <= Len(w)
      /\ \A i \in 1 .. Len(w) : w[i].seq <= s.last
  BY <1>1, <1>2, ScanInvariant DEF ScanOK
<1>4. /\ s.records \in Seq(DataRecords) /\ s.valid \in Nat /\ s.last \in Nat
  BY <1>3 DEF ScanFields
<1>5. /\ Scan(r).records = s.records /\ Scan(r).valid = s.valid
      /\ Scan(r).last = s.last /\ Scan(r).dangling = s.transaction.active
      /\ Scan(r).truncated = (s.read < Len(r))
  BY <1>1 DEF Scan, ScanState
<1>6. Len(w) \in Nat
  BY <1>2, LenProperties
<1>7. Scan(r).truncated = (Len(w) < Len(r))
  BY <1>3, <1>5
<1>8. Scan(r).valid \in 0 .. Len(w)
  BY <1>3, <1>4, <1>5, <1>6
<1>9. \A i \in 1 .. Len(w) : w[i].seq <= Scan(r).last
  BY <1>3, <1>5
<1>10. QED
  BY <1>1, <1>4, <1>5, <1>7, <1>8, <1>9

\* The file up to its last commit is whole, and all that a scan found is in it.
LEMMA RepairedFile ==
  ASSUME NEW r \in Seq(Records), NEW q, q = SubSeq(r, 1, Scan(r).valid)
  PROVE  /\ q \in Seq(Whole) /\ Len(q) = Scan(r).valid /\ Len(q) <= Len(r)
         /\ Readable(q) = q
         /\ Scan(q).records = Scan(r).records /\ Scan(q).truncated = FALSE
<1>1. PICK w : w = Readable(r)
  OBVIOUS
<1>2. /\ w \in Seq(Whole) /\ Len(w) \in 0 .. Len(r)
      /\ \A i \in 1 .. Len(w) : w[i] = r[i]
  BY <1>1, ReadableProperties
<1>3. /\ Scan(r).records = ScanState(w).records
      /\ Scan(r).valid = ScanState(w).valid /\ Scan(r).valid \in 0 .. Len(w)
  BY <1>1, ScanProperties
<1>4. PICK k : k = Scan(r).valid
  OBVIOUS
<1>5. Len(r) \in Nat
  BY LenProperties
<1>6. k \in 0 .. Len(w) /\ k \in 0 .. Len(r) /\ k <= Len(r)
  BY <1>2, <1>3, <1>4, <1>5
<1>7. q = SubSeq(w, 1, k)
  <2>1. \A i \in 1 .. k : r[i] = w[i]
    BY <1>2, <1>6
  <2>2. w \in Seq(Records)
    BY <1>2, ReadableOfWhole
  <2>3. SubSeq(r, 1, k) = SubSeq(w, 1, k)
    BY <1>6, <2>1, <2>2, EqualPrefixes
  <2>4. QED
    BY <1>4, <2>3
<1>8. q \in Seq(Whole) /\ Len(q) = k
  <2>1. w \in Seq(Whole) /\ k \in 0 .. Len(w)
    BY <1>2, <1>6
  <2>2. SubSeq(w, 1, k) \in Seq(Whole) /\ Len(SubSeq(w, 1, k)) = k
    BY <2>1, PrefixProperties
  <2>3. QED
    BY <1>7, <2>2
<1>9. Readable(q) = q /\ q \in Seq(Records)
  BY <1>8, ReadableOfWhole
<1>10. Scan(q).records = ScanState(q).records /\ Scan(q).truncated = FALSE
  <2>1. Scan(q).records = ScanState(q).records
    BY <1>9, ScanProperties
  <2>2. Scan(q).truncated = (Len(q) < Len(q))
    BY <1>9, ScanProperties
  <2>3. (Len(q) < Len(q)) = FALSE
    BY <1>6, <1>8
  <2>4. QED
    BY <2>1, <2>2, <2>3
<1>11. ScanState(q).records = ScanState(w).records
  BY <1>2, <1>3, <1>4, <1>7, ScanInvariant DEF ScanOK
<1>12. QED
  BY <1>3, <1>4, <1>6, <1>8, <1>9, <1>10, <1>11

\* The payloads of data records, taken together and one by one.
LEMMA PayloadsProperties ==
  ASSUME NEW a \in Seq(DataRecords)
  PROVE  /\ Payloads(a) \in Seq(Ops) /\ Len(Payloads(a)) = Len(a)
         /\ \A i \in 1 .. Len(a) : Payloads(a)[i] = a[i].op
         /\ \A b \in Seq(DataRecords) : Payloads(a \o b) = Payloads(a) \o Payloads(b)
         /\ \A rec \in DataRecords :
              Payloads(Append(a, rec)) = Append(Payloads(a), rec.op)
<1>1. ASSUME NEW b \in Seq(DataRecords)
      PROVE  /\ Payloads(b) \in Seq(Ops) /\ Len(Payloads(b)) = Len(b)
             /\ \A i \in 1 .. Len(b) : Payloads(b)[i] = b[i].op
  <2>1. Len(b) \in Nat /\ DOMAIN b = 1 .. Len(b)
    BY LenProperties
  <2>2. ASSUME NEW i \in 1 .. Len(b) PROVE b[i].op \in Ops
    <3>1. b[i] \in DataRecords
      BY ElementOfSeq
    <3>2. QED
      BY <3>1 DEF DataRecords
  <2>3. Payloads(b) = [i \in 1 .. Len(b) |-> b[i].op]
    BY <2>1 DEF Payloads
  <2>4. QED
    BY <2>1, <2>2, <2>3
<1>2. ASSUME NEW b \in Seq(DataRecords)
      PROVE  Payloads(a \o b) = Payloads(a) \o Payloads(b)
  <2>1. /\ a \o b \in Seq(DataRecords) /\ Len(a \o b) = Len(a) + Len(b)
        /\ \A i \in 1 .. Len(a) + Len(b) :
             (a \o b)[i] = IF i <= Len(a) THEN a[i] ELSE b[i - Len(a)]
    BY ConcatProperties
  <2>2. PICK pa, pb, pc1 : /\ pa = Payloads(a) /\ pb = Payloads(b)
                           /\ pc1 = Payloads(a \o b)
    OBVIOUS
  <2>3. /\ pa \in Seq(Ops) /\ Len(pa) = Len(a)
        /\ \A i \in 1 .. Len(a) : pa[i] = a[i].op
        /\ pb \in Seq(Ops) /\ Len(pb) = Len(b)
        /\ \A i \in 1 .. Len(b) : pb[i] = b[i].op
        /\ pc1 \in Seq(Ops) /\ Len(pc1) = Len(a) + Len(b)
        /\ \A i \in 1 .. Len(a) + Len(b) : pc1[i] = (a \o b)[i].op
    BY <1>1, <2>1, <2>2
  <2>4. /\ pa \o pb \in Seq(Ops) /\ Len(pa \o pb) = Len(a) + Len(b)
        /\ \A i \in 1 .. Len(a) + Len(b) :
             (pa \o pb)[i] = IF i <= Len(a) THEN pa[i] ELSE pb[i - Len(a)]
    <3>1. /\ pa \in Seq(Ops) /\ pb \in Seq(Ops)
          /\ Len(pa) = Len(a) /\ Len(pb) = Len(b)
      BY <2>3
    <3>2. /\ pa \o pb \in Seq(Ops) /\ Len(pa \o pb) = Len(pa) + Len(pb)
          /\ \A i \in 1 .. Len(pa) + Len(pb) :
               (pa \o pb)[i] = IF i <= Len(pa) THEN pa[i] ELSE pb[i - Len(pa)]
      BY <3>1, ConcatProperties
    <3>3. QED
      BY <3>1, <3>2, Zenon
  <2>5. Len(a) \in Nat /\ Len(b) \in Nat
    BY LenProperties
  <2>6. ASSUME NEW i \in 1 .. Len(pc1) PROVE pc1[i] = (pa \o pb)[i]
    <3>1. CASE i <= Len(a)
      <4>1. i \in 1 .. Len(a) /\ i \in 1 .. Len(a) + Len(b)
        BY <2>3, <2>5, <3>1
      <4>2. QED
        BY <2>1, <2>3, <2>4, <3>1, <4>1
    <3>2. CASE ~ (i <= Len(a))
      <4>1. i - Len(a) \in 1 .. Len(b) /\ i \in 1 .. Len(a) + Len(b)
        BY <2>3, <2>5, <3>2
      <4>2. QED
        BY <2>1, <2>3, <2>4, <3>2, <4>1
    <3>3. QED
      BY <3>1, <3>2
  <2>7. pc1 = pa \o pb
    BY <2>3, <2>4, <2>6, SeqEqual
  <2>8. QED
    BY <2>2, <2>7
<1>3. ASSUME NEW rec \in DataRecords
      PROVE  Payloads(Append(a, rec)) = Append(Payloads(a), rec.op)
  <2>1. /\ Append(a, rec) \in Seq(DataRecords) /\ Len(Append(a, rec)) = Len(a) + 1
        /\ \A i \in 1 .. Len(a) : Append(a, rec)[i] = a[i]
        /\ Append(a, rec)[Len(a) + 1] = rec
    BY AppendProperties
  <2>2. PICK pa, pb, v : /\ pa = Payloads(a) /\ pb = Append(Payloads(a), rec.op)
                         /\ v = Append(a, rec)
    OBVIOUS
  <2>3. rec.op \in Ops
    BY DEF DataRecords
  <2>4. /\ pa \in Seq(Ops) /\ Len(pa) = Len(a)
        /\ \A i \in 1 .. Len(a) : pa[i] = a[i].op
    BY <1>1, <2>2
  <2>5. /\ pb \in Seq(Ops) /\ Len(pb) = Len(a) + 1
        /\ \A i \in 1 .. Len(a) : pb[i] = pa[i]
        /\ pb[Len(a) + 1] = rec.op
    BY <2>2, <2>3, <2>4, AppendProperties
  <2>6. /\ v \in Seq(DataRecords) /\ Len(v) = Len(a) + 1
        /\ \A i \in 1 .. Len(a) : v[i] = a[i]
        /\ v[Len(a) + 1] = rec
    BY <2>1, <2>2
  <2>7. /\ Payloads(v) \in Seq(Ops) /\ Len(Payloads(v)) = Len(a) + 1
        /\ \A i \in 1 .. Len(a) + 1 : Payloads(v)[i] = v[i].op
    BY <1>1, <2>6
  <2>8. Len(a) \in Nat
    BY LenProperties
  <2>9. \A i \in 1 .. Len(a) + 1 : i \in 1 .. Len(a) \/ i = Len(a) + 1
    BY <2>8
  <2>10. \A i \in 1 .. Len(a) + 1 : Payloads(v)[i] = pb[i]
    BY <2>4, <2>5, <2>6, <2>7, <2>9
  <2>11. Payloads(v) = pb
    BY <2>5, <2>7, <2>10, SeqEqual
  <2>12. QED
    BY <2>2, <2>11
<1>4. QED
  BY <1>1, <1>2, <1>3

LEMMA FoundType ==
  ASSUME NEW r \in Seq(Records)
  PROVE  Found(r) \in Seq(Ops)
BY ScanProperties, PayloadsProperties DEF Found

-----------------------------------------------------------------------------
(* What the variables hold *)

Calls == [ops : Seq(Ops), alone : BOOLEAN]

\* A closed journal has no call in progress; what a call still has to append
\* is numbered from next_sequence_ on.
TypeInv ==
  /\ recs \in Seq(Records) /\ durable \in 0 .. Len(recs)
  /\ pc \in {"closed", "open"} /\ nextSeq \in Nat
  /\ pending \in Seq(Whole) /\ current \in Calls /\ outcomes \subseteq Seq(Ops)
  /\ pc = "closed" => current = NoCall
  /\ current = NoCall => pending = <<>>
  /\ \A i \in 1 .. Len(pending) : pending[i].seq = nextSeq + i - 1

\* The j-th record of a transaction that starts with number first.
CallRecord(first, ops, j) ==
  IF j = 1 THEN BeginRecord(first, Len(ops))
  ELSE IF j <= Len(ops) + 1 THEN DataRecord(first + j - 1, ops[j - 1])
  ELSE CommitRecord(first + Len(ops) + 1, first, ops)


\* append_transaction numbers its records without a gap.
LEMMA TransactionRecordsProperties ==
  ASSUME nextSeq \in Nat, NEW ops \in Seq(Ops), NEW q, q = TransactionRecords(ops)
  PROVE  /\ q \in Seq(Whole) /\ Len(q) = Len(ops) + 2 /\ q # <<>>
         /\ \A i \in 1 .. Len(q) :
              q[i] = CallRecord(nextSeq, ops, i) /\ q[i].seq = nextSeq + i - 1
<1> DEFINE n == Len(ops)
           a == <<BeginRecord(nextSeq, n)>>
           b == [i \in 1 .. n |-> DataRecord(nextSeq + i, ops[i])]
           c == <<CommitRecord(nextSeq + n + 1, nextSeq, ops)>>
<1>1. n \in Nat
  BY LenProperties
<1>2. BeginRecord(nextSeq, n) \in Whole
  BY <1>1 DEF BeginRecord, Whole, BeginRecords
<1>3. CommitRecord(nextSeq + n + 1, nextSeq, ops) \in Whole
  BY <1>1 DEF CommitRecord, Whole, CommitRecords
<1>4. \A i \in 1 .. n : DataRecord(nextSeq + i, ops[i]) \in Whole
  <2>1. TAKE i \in 1 .. n
  <2>2. ops[i] \in Ops /\ nextSeq + i \in Nat
    BY <1>1, ElementOfSeq
  <2>3. QED
    BY <2>2 DEF DataRecord, Whole, DataRecords
<1>5. a \in Seq(Whole) /\ Len(a) = 1 /\ a[1] = BeginRecord(nextSeq, n)
  BY <1>2
<1>6. c \in Seq(Whole) /\ Len(c) = 1 /\ c[1] = CommitRecord(nextSeq + n + 1, nextSeq, ops)
  BY <1>3
<1>7. /\ b \in Seq(Whole) /\ Len(b) = n
      /\ \A i \in 1 .. n : b[i] = DataRecord(nextSeq + i, ops[i])
  BY <1>1, <1>4
<1>8. q = (a \o b) \o c
  BY DEF TransactionRecords
<1> HIDE DEF n, a, b, c
<1>9. /\ a \o b \in Seq(Whole) /\ Len(a \o b) = n + 1
      /\ \A i \in 1 .. n + 1 : (a \o b)[i] = IF i <= 1 THEN a[i] ELSE b[i - 1]
  <2>1. Len(a) + Len(b) = n + 1 /\ Len(a) = 1
    BY <1>1, <1>5, <1>7
  <2>2. /\ a \o b \in Seq(Whole) /\ Len(a \o b) = Len(a) + Len(b)
        /\ \A i \in 1 .. Len(a) + Len(b) :
             (a \o b)[i] = IF i <= Len(a) THEN a[i] ELSE b[i - Len(a)]
    BY <1>5, <1>7, ConcatProperties
  <2>3. QED
    BY <2>1, <2>2, Zenon
<1>10. /\ q \in Seq(Whole) /\ Len(q) = n + 2
       /\ \A i \in 1 .. n + 2 :
            q[i] = IF i <= n + 1 THEN (a \o b)[i] ELSE c[i - (n + 1)]
  <2>1. PICK d : d = a \o b
    OBVIOUS
  <2>2. d \in Seq(Whole) /\ Len(d) = n + 1 /\ Len(d) + Len(c) = n + 2
    BY <1>1, <1>6, <1>9, <2>1
  <2>3. /\ d \o c \in Seq(Whole) /\ Len(d \o c) = Len(d) + Len(c)
        /\ \A i \in 1 .. Len(d) + Len(c) :
             (d \o c)[i] = IF i <= Len(d) THEN d[i] ELSE c[i - Len(d)]
    BY <1>6, <2>2, ConcatProperties
  <2>4. QED
    BY <1>8, <2>1, <2>2, <2>3, Zenon
<1>11. ASSUME NEW i \in 1 .. n + 2
       PROVE  q[i] = CallRecord(nextSeq, ops, i) /\ q[i].seq = nextSeq + i - 1
  <2>1. CASE i = 1
    <3>1. q[i] = BeginRecord(nextSeq, n)
      <4>1. 1 \in 1 .. n + 1 /\ 1 \in 1 .. n + 2 /\ 1 <= 1 /\ 1 <= n + 1
        BY <1>1
      <4>2. q[1] = (a \o b)[1] /\ (a \o b)[1] = a[1]
        BY <1>9, <1>10, <4>1, Zenon
      <4>3. QED
        BY <1>5, <2>1, <4>2
    <3>2. QED
      BY <2>1, <3>1 DEF CallRecord, BeginRecord, n
  <2>2. CASE i # 1 /\ i <= n + 1
    <3>1. i - 1 \in 1 .. n /\ i \in 1 .. n + 1 /\ ~ (i <= 1)
      BY <1>1, <2>2
    <3>2. q[i] = DataRecord(nextSeq + (i - 1), ops[i - 1])
      BY <1>7, <1>9, <1>10, <2>2, <3>1
    <3>3. nextSeq + (i - 1) = nextSeq + i - 1
      BY <1>1
    <3>4. QED
      BY <2>2, <3>2, <3>3 DEF CallRecord, DataRecord, n
  <2>3. CASE i = n + 2
    <3>1. ~ (i <= n + 1) /\ i - (n + 1) = 1 /\ i # 1
      BY <1>1, <2>3
    <3>2. q[i] = CommitRecord(nextSeq + n + 1, nextSeq, ops)
      BY <1>6, <1>10, <3>1
    <3>3. nextSeq + n + 1 = nextSeq + i - 1
      BY <1>1, <2>3
    <3>4. QED
      BY <3>1, <3>2, <3>3 DEF CallRecord, CommitRecord, n
  <2>4. QED
    BY <1>1, <2>1, <2>2, <2>3
<1>12. q # <<>>
  BY <1>1, <1>10, EmptySeq
<1>13. QED
  BY <1>10, <1>11, <1>12 DEF n

\* A cut is a prefix that keeps what is durable, torn at its end or not.
LEMMA CutProperties ==
  ASSUME TypeInv, NEW tearing \in BOOLEAN, NEW q \in Cuts(tearing)
  PROVE  \E n \in durable .. Len(recs), p \in Seq(Records) :
           /\ p = SubSeq(recs, 1, n) /\ Len(p) = n /\ n \in 0 .. Len(recs)
           /\ q = p \/ (/\ tearing /\ (n < Len(recs) \/ pending # <<>>)
                        /\ q = Append(p, Torn))
           /\ q \in Seq(Records) /\ n <= Len(q) /\ Readable(q) = Readable(p)
<1>1. recs \in Seq(Records) /\ durable \in 0 .. Len(recs)
  BY DEF TypeInv
<1>2. Len(recs) \in Nat
  BY <1>1, LenProperties
<1>3. PICK n \in durable .. Len(recs) :
        \/ q = SubSeq(recs, 1, n)
        \/ /\ tearing /\ (n < Len(recs) \/ pending # <<>>)
           /\ q = Append(SubSeq(recs, 1, n), Torn)
  BY DEF Cuts
<1>4. PICK p : p = SubSeq(recs, 1, n)
  OBVIOUS
<1>5. n \in 0 .. Len(recs)
  BY <1>1, <1>2
<1>6. p \in Seq(Records) /\ Len(p) = n
  BY <1>1, <1>4, <1>5, PrefixProperties
<1>7. q = p \/ (/\ tearing /\ (n < Len(recs) \/ pending # <<>>)
                /\ q = Append(p, Torn))
  BY <1>3, <1>4
<1>8. q \in Seq(Records) /\ n <= Len(q) /\ Readable(q) = Readable(p)
  <2>1. CASE q = p
    BY <1>5, <1>6, <2>1
  <2>2. CASE q = Append(p, Torn)
    <3>1. q \in Seq(Records) /\ Readable(q) = Readable(p)
      BY <1>6, <2>2, ReadableOfTorn
    <3>2. Len(q) = n + 1
      BY <1>6, <2>2
    <3>3. QED
      BY <1>5, <3>1, <3>2
  <2>3. QED
    BY <1>7, <2>1, <2>2
<1>9. QED
  BY <1>4, <1>5, <1>6, <1>7, <1>8, Zenon

LEMMA WithCurrentType ==
  ASSUME TypeInv
  PROVE  WithCurrent \subseteq Seq(Ops)
<1>1. current.ops \in Seq(Ops)
  BY DEF TypeInv, Calls
<1>2. \A o \in outcomes : o \o current.ops \in Seq(Ops)
  BY <1>1, ConcatProperties DEF TypeInv
<1>3. QED
  BY <1>2 DEF WithCurrent

LEMMA GroupProperties ==
  ASSUME NEW ops \in Groups
  PROVE  ops \in Seq(Ops) /\ Len(ops) \in Nat \ {0} /\ ops # <<>>
<1>1. PICK n \in 1 .. MaxGroup : ops \in [1 .. n -> Ops]
  BY DEF Groups
<1>2. n \in Nat \ {0}
  BY JournalAssumption
<1>3. ops \in Seq(Ops) /\ Len(ops) = n
  BY <1>1, <1>2
<1>4. QED
  BY <1>2, <1>3, EmptySeq

LEMMA TypeInit == Init => TypeInv
<1> SUFFICES ASSUME Init PROVE TypeInv
  OBVIOUS
<1>1. <<>> \in Seq(Ops) /\ <<>> \in Seq(Records) /\ <<>> \in Seq(Whole) /\ Len(<<>>) = 0
  BY EmptySeq
<1>2. NoCall \in Calls
  BY <1>1 DEF NoCall, Calls
<1>3. QED
  BY <1>1, <1>2 DEF Init, TypeInv

LEMMA TypeStep == TypeInv /\ [Next]_vars => TypeInv'
<1> SUFFICES ASSUME TypeInv, [Next]_vars PROVE TypeInv'
  OBVIOUS
<1>1. /\ recs \in Seq(Records) /\ durable \in 0 .. Len(recs)
      /\ pc \in {"closed", "open"} /\ nextSeq \in Nat
      /\ pending \in Seq(Whole) /\ current \in Calls /\ outcomes \subseteq Seq(Ops)
      /\ pc = "closed" => current = NoCall
      /\ current = NoCall => pending = <<>>
      /\ \A i \in 1 .. Len(pending) : pending[i].seq = nextSeq + i - 1
  BY DEF TypeInv
<1>2. Len(recs) \in Nat /\ durable \in Nat
  BY <1>1, LenProperties
<1>3. NoCall \in Calls /\ <<>> \in Seq(Whole) /\ Len(<<>>) = 0 /\ 1 .. 0 = {}
  BY EmptySeq DEF NoCall, Calls
<1>4. WithCurrent \subseteq Seq(Ops)
  BY WithCurrentType
<1>5. ASSUME NEW possible, possible \subseteq Seq(Ops), Settle(possible)
      PROVE  outcomes' \subseteq Seq(Ops)
  BY <1>5 DEF Settle
<1>6. ASSUME NEW tearing \in BOOLEAN, recs' \in Cuts(tearing)
      PROVE  recs' \in Seq(Records) /\ Len(recs') \in Nat /\ durable <= Len(recs')
  <2>1. PICK n \in durable .. Len(recs), p \in Seq(Records) :
          recs' \in Seq(Records) /\ n <= Len(recs')
    BY <1>6, CutProperties
  <2>2. Len(recs') \in Nat
    BY <2>1, LenProperties
  <2>3. QED
    BY <1>2, <2>1, <2>2
<1>7. CASE Open
  <2>1. pc' = "open" /\ UNCHANGED <<pending, current>> /\ pending' = <<>>
    BY <1>1, <1>7 DEF Open
  <2>2. outcomes' \subseteq Seq(Ops)
    BY <1>1, <1>5, <1>7 DEF Open
  <2>3. Scan(recs).last \in Nat /\ nextSeq' = Scan(recs).last + 1
    BY <1>1, <1>7, ScanProperties DEF Open
  <2>4. recs' \in Seq(Records) /\ durable' \in 0 .. Len(recs')
    <3>1. CASE Scan(recs).truncated
      <4>1. /\ recs' = SubSeq(recs, 1, Scan(recs).valid)
            /\ durable' = Scan(recs).valid
        BY <1>7, <3>1 DEF Open
      <4>2. recs' \in Seq(Whole) /\ Len(recs') = Scan(recs).valid
        BY <1>1, <4>1, RepairedFile
      <4>3. recs' \in Seq(Records) /\ Len(recs') \in Nat
        BY <4>2, ReadableOfWhole, LenProperties
      <4>4. QED
        BY <4>1, <4>2, <4>3
    <3>2. CASE ~ Scan(recs).truncated
      BY <1>1, <1>7, <3>2 DEF Open, file
    <3>3. QED
      BY <3>1, <3>2
  <2>5. QED
    BY <1>1, <1>3, <2>1, <2>2, <2>3, <2>4 DEF TypeInv
<1>8. ASSUME NEW ops \in Groups, AppendTransaction(ops) PROVE TypeInv'
  <2>1. ops \in Seq(Ops) /\ ops # <<>>
    BY GroupProperties
  <2>2. /\ pending' = TransactionRecords(ops)
        /\ current' = [ops |-> ops, alone |-> FALSE]
        /\ UNCHANGED <<recs, durable, pc, nextSeq, outcomes>> /\ pc = "open"
    BY <1>8 DEF AppendTransaction, file, Idle
  <2>3. /\ pending' \in Seq(Whole)
        /\ \A i \in 1 .. Len(pending') : pending'[i].seq = nextSeq + i - 1
    BY <1>1, <2>1, <2>2, TransactionRecordsProperties
  <2>4. current' \in Calls /\ current' # NoCall
    BY <2>1, <2>2 DEF Calls, NoCall
  <2>5. QED
    BY <1>1, <2>2, <2>3, <2>4 DEF TypeInv
<1>9. ASSUME NEW op \in Ops, AppendAlone(op) PROVE TypeInv'
  <2>1. /\ pending' = <<DataRecord(nextSeq, op)>>
        /\ current' = [ops |-> <<op>>, alone |-> TRUE]
        /\ UNCHANGED <<recs, durable, pc, nextSeq, outcomes>> /\ pc = "open"
    BY <1>9 DEF AppendAlone, file, Idle
  <2>2. DataRecord(nextSeq, op) \in Whole /\ DataRecord(nextSeq, op).seq = nextSeq
    BY <1>1 DEF DataRecord, Whole, DataRecords
  <2>3. /\ pending' \in Seq(Whole)
        /\ \A i \in 1 .. Len(pending') : pending'[i].seq = nextSeq + i - 1
    BY <1>1, <2>1, <2>2
  <2>4. current' \in Calls /\ current' # NoCall
    BY <2>1 DEF Calls, NoCall
  <2>5. QED
    BY <1>1, <2>1, <2>3, <2>4 DEF TypeInv
<1>10. CASE AppendRecord
  <2>1. /\ pending # <<>> /\ recs' = Append(recs, Head(pending))
        /\ pending' = Tail(pending) /\ nextSeq' = nextSeq + 1
        /\ UNCHANGED <<durable, pc, current, outcomes>>
    BY <1>10 DEF AppendRecord
  <2>2. /\ Head(pending) \in Whole /\ pending' \in Seq(Whole)
        /\ Len(pending') = Len(pending) - 1
        /\ \A i \in 1 .. Len(pending') : pending'[i] = pending[i + 1]
    BY <1>1, <2>1, HeadTailProperties
  <2>3. recs' \in Seq(Records) /\ Len(recs') = Len(recs) + 1
    BY <1>1, <2>1, <2>2, AppendProperties DEF Records
  <2>4. ASSUME NEW i \in 1 .. Len(pending')
        PROVE  pending'[i].seq = nextSeq' + i - 1
    <3>1. Len(pending) \in Nat
      BY <1>1, LenProperties
    <3>2. i + 1 \in 1 .. Len(pending) /\ i \in Int
      BY <2>2, <3>1
    <3>3. pending'[i].seq = nextSeq + (i + 1) - 1
      BY <1>1, <2>2, <3>2
    <3>4. QED
      BY <1>1, <2>1, <3>2, <3>3
  <2>5. current # NoCall
    BY <1>1, <2>1
  <2>6. durable' \in 0 .. Len(recs')
    BY <1>1, <1>2, <2>1, <2>3
  <2>7. nextSeq' \in Nat
    BY <1>1, <2>1
  <2>8. QED
    BY <1>1, <2>1, <2>2, <2>3, <2>4, <2>5, <2>6, <2>7 DEF TypeInv
<1>11. CASE Sync
  <2>1. /\ durable' = Len(recs) /\ current' = NoCall /\ pending = <<>>
        /\ UNCHANGED <<recs, pc, nextSeq, pending>>
    BY <1>11 DEF Sync
  <2>2. outcomes' \subseteq Seq(Ops)
    BY <1>1, <1>4, <1>5, <1>11 DEF Sync
  <2>3. QED
    BY <1>1, <1>2, <1>3, <2>1, <2>2 DEF TypeInv
<1>12. CASE CallFails
  <2>1. /\ recs' \in Cuts(TornWrites) /\ pending' = <<>> /\ current' = NoCall
        /\ UNCHANGED <<durable, pc, nextSeq>>
    BY <1>12 DEF CallFails
  <2>2. outcomes' \subseteq Seq(Ops)
    BY <1>1, <1>4, <1>5, <1>12 DEF CallFails
  <2>3. recs' \in Seq(Records) /\ Len(recs') \in Nat /\ durable <= Len(recs')
    BY <1>6, <2>1, JournalAssumption
  <2>4. QED
    BY <1>1, <1>2, <1>3, <2>1, <2>2, <2>3 DEF TypeInv
<1>13. CASE Close
  BY <1>1, <1>3, <1>13 DEF Close, Idle, TypeInv, file
<1>14. CASE Kill
  <2>1. /\ recs' \in Cuts(TRUE) /\ UNCHANGED durable
        /\ pc' = "closed" /\ nextSeq' = 1 /\ pending' = <<>> /\ current' = NoCall
    BY <1>14 DEF Kill
  <2>2. outcomes' \subseteq Seq(Ops)
    BY <1>1, <1>4, <1>5, <1>14 DEF Kill
  <2>3. recs' \in Seq(Records) /\ Len(recs') \in Nat /\ durable <= Len(recs')
    BY <1>6, <2>1
  <2>4. QED
    BY <1>1, <1>2, <1>3, <2>1, <2>2, <2>3 DEF TypeInv
<1>15. CASE PowerLoss
  <2>1. /\ recs' \in Cuts(TRUE) /\ durable' = Len(recs')
        /\ pc' = "closed" /\ nextSeq' = 1 /\ pending' = <<>> /\ current' = NoCall
    BY <1>15 DEF PowerLoss
  <2>2. outcomes' \subseteq Seq(Ops)
    BY <1>1, <1>4, <1>5, <1>15 DEF PowerLoss
  <2>3. recs' \in Seq(Records) /\ Len(recs') \in Nat
    BY <1>6, <2>1
  <2>4. QED
    BY <1>1, <1>2, <1>3, <2>1, <2>2, <2>3 DEF TypeInv
<1>16. CASE UNCHANGED vars
  BY <1>1, <1>16 DEF vars, file, TypeInv
<1>17. QED
  BY <1>7, <1>8, <1>9, <1>10, <1>11, <1>12, <1>13, <1>14, <1>15, <1>16 DEF Next

LEMMA JournalTypes == Spec => []TypeInv
<1>1. Init => TypeInv
  BY TypeInit
<1>2. TypeInv /\ [Next]_vars => TypeInv'
  BY TypeStep
<1>3. QED
  BY <1>1, <1>2, PTL DEF Spec

-----------------------------------------------------------------------------
(* Repairs *)

\* Opening a journal cuts off nothing that a scan would find, and leaves a
\* file that is read to its end.
THEOREM OpeningRepairs == Spec => OpenRepairs
<1>1. ASSUME TypeInv, [Next]_vars, pc = "closed", pc' = "open"
      PROVE  Scan(recs').records = Scan(recs).records /\ ~ Scan(recs').truncated
  <2>1. Open
    BY <1>1 DEF Next, AppendTransaction, AppendAlone, Idle, AppendRecord, Sync,
                CallFails, Close, Kill, PowerLoss, vars, TypeInv
  <2>2. recs \in Seq(Records)
    BY <1>1 DEF TypeInv
  <2>3. CASE Scan(recs).truncated
    <3>1. recs' = SubSeq(recs, 1, Scan(recs).valid)
      BY <2>1, <2>3 DEF Open
    <3>2. QED
      BY <2>2, <3>1, RepairedFile
  <2>4. CASE ~ Scan(recs).truncated
    <3>1. recs' = recs
      BY <2>1, <2>4 DEF Open, file
    <3>2. QED
      BY <2>4, <3>1
  <2>5. QED
    BY <2>3, <2>4
<1>2. QED
  BY <1>1, JournalTypes, PTL DEF Spec, OpenRepairs

-----------------------------------------------------------------------------
(* Numbering *)

\* Records in the order of their numbers, all below a bound if there is one.
Numbered(w, bounded, bound) ==
  /\ \A m, n \in 1 .. Len(w) : m < n => w[m].seq < w[n].seq
  /\ bounded => \A n \in 1 .. Len(w) : w[n].seq < bound

LEMMA NumberedMeans ==
  ASSUME NEW r \in Seq(Records), NEW w, w = Readable(r), NEW bounded, NEW bound
  PROVE  Numbered(w, bounded, bound) <=>
           /\ \A m, n \in DOMAIN Readable(r) : m < n => r[m].seq < r[n].seq
           /\ bounded => \A n \in DOMAIN Readable(r) : r[n].seq < bound
<1>1. w \in Seq(Whole) /\ \A i \in 1 .. Len(w) : w[i] = r[i]
  BY ReadableProperties
<1>2. DOMAIN w = 1 .. Len(w)
  BY <1>1, LenProperties
<1>3. QED
  BY <1>1, <1>2 DEF Numbered

\* A prefix is numbered as what it is a prefix of.
LEMMA NumberedPrefix ==
  ASSUME NEW w \in Seq(Whole), NEW v \in Seq(Whole), Len(v) <= Len(w),
         \A i \in 1 .. Len(v) : v[i] = w[i],
         NEW bounded, NEW bound, Numbered(w, bounded, bound)
  PROVE  Numbered(v, bounded, bound)
<1>1. Len(w) \in Nat /\ Len(v) \in Nat
  BY LenProperties
<1>2. \A i \in 1 .. Len(v) : i \in 1 .. Len(w)
  BY <1>1
<1>3. QED
  BY <1>2 DEF Numbered

LEMMA NumberStep ==
  TypeInv /\ SequencesIncrease /\ [Next]_vars => SequencesIncrease'
<1> SUFFICES ASSUME TypeInv, SequencesIncrease, [Next]_vars
             PROVE  SequencesIncrease'
  OBVIOUS
<1>1. TypeInv'
  BY TypeStep
<1>2. recs \in Seq(Records) /\ recs' \in Seq(Records) /\ nextSeq \in Nat
  BY <1>1 DEF TypeInv
<1>3. PICK w, v : w = Readable(recs) /\ v = Readable(recs')
  OBVIOUS
<1>4. w \in Seq(Whole) /\ v \in Seq(Whole)
  BY <1>2, <1>3, ReadableProperties
<1>5. Numbered(w, pc = "open", nextSeq)
  BY <1>2, <1>3, NumberedMeans DEF SequencesIncrease
<1>6. SUFFICES Numbered(v, pc' = "open", nextSeq')
  BY <1>2, <1>3, NumberedMeans DEF SequencesIncrease
\* What every cut of the file reads.
<1>7. ASSUME NEW tearing \in BOOLEAN, recs' \in Cuts(tearing)
      PROVE  Numbered(v, pc = "open", nextSeq)
  <2>1. PICK n \in durable .. Len(recs), p \in Seq(Records) :
          /\ p = SubSeq(recs, 1, n) /\ n \in 0 .. Len(recs)
          /\ Readable(recs') = Readable(p)
    BY <1>7, CutProperties
  <2>2. v = Readable(SubSeq(recs, 1, n))
    BY <1>3, <2>1
  <2>3. Len(v) <= Len(w) /\ \A i \in 1 .. Len(v) : v[i] = w[i]
    BY <1>2, <1>3, <2>1, <2>2, ReadableOfPrefix
  <2>4. QED
    BY <1>4, <1>5, <2>3, NumberedPrefix
<1>8. CASE Open
  <2>1. Scan(recs).last \in Nat /\ \A i \in 1 .. Len(w) : w[i].seq <= Scan(recs).last
    BY <1>2, <1>3, ScanProperties
  <2>2. nextSeq' = Scan(recs).last + 1 /\ pc' = "open"
    BY <1>8 DEF Open
  <2>3. ASSUME NEW i \in 1 .. Len(w) PROVE w[i].seq < nextSeq'
    <3>1. w[i] \in Whole
      BY <1>4, ElementOfSeq
    <3>2. w[i].seq \in Nat
      BY <3>1 DEF Whole, DataRecords, BeginRecords, CommitRecords
    <3>3. QED
      BY <2>1, <2>2, <3>2
  <2>4. Numbered(w, pc' = "open", nextSeq')
    BY <1>5, <2>3 DEF Numbered
  <2>5. Len(v) <= Len(w) /\ \A i \in 1 .. Len(v) : v[i] = w[i]
    <3>1. CASE Scan(recs).truncated
      <4>1. PICK k : k = Scan(recs).valid
        OBVIOUS
      <4>2. recs' = SubSeq(recs, 1, k)
        BY <1>8, <3>1, <4>1 DEF Open
      <4>3. k \in 0 .. Len(recs)
        <5>1. k \in 0 .. Len(w) /\ Len(w) \in 0 .. Len(recs)
          BY <1>2, <1>3, <4>1, ScanProperties, ReadableProperties
        <5>2. Len(recs) \in Nat
          BY <1>2, LenProperties
        <5>3. QED
          BY <5>1, <5>2
      <4>4. v = Readable(SubSeq(recs, 1, k))
        BY <1>3, <4>2
      <4>5. QED
        BY <1>2, <1>3, <4>3, <4>4, ReadableOfPrefix
    <3>2. CASE ~ Scan(recs).truncated
      <4>1. recs' = recs
        BY <1>8, <3>2 DEF Open, file
      <4>2. Len(w) \in Nat
        BY <1>4, LenProperties
      <4>3. QED
        BY <1>3, <4>1, <4>2
    <3>3. QED
      BY <3>1, <3>2
  <2>6. QED
    BY <1>4, <2>4, <2>5, NumberedPrefix
<1>9. ASSUME recs' = recs, pc' = pc, nextSeq' = nextSeq
      PROVE  Numbered(v, pc' = "open", nextSeq')
  BY <1>3, <1>5, <1>9
<1>10. ASSUME NEW ops \in Groups, AppendTransaction(ops)
       PROVE  Numbered(v, pc' = "open", nextSeq')
  BY <1>9, <1>10 DEF AppendTransaction, file
<1>11. ASSUME NEW op \in Ops, AppendAlone(op)
       PROVE  Numbered(v, pc' = "open", nextSeq')
  BY <1>9, <1>11 DEF AppendAlone, file
<1>12. CASE AppendRecord
  <2>1. PICK rec : rec = Head(pending)
    OBVIOUS
  <2>2. /\ pending # <<>> /\ recs' = Append(recs, rec)
        /\ nextSeq' = nextSeq + 1 /\ pc' = pc
    BY <1>12, <2>1 DEF AppendRecord
  <2>3. pc = "open"
    BY <2>2 DEF TypeInv
  <2>4. rec \in Whole /\ rec.seq = nextSeq
    <3>1. pending \in Seq(Whole) /\ rec = pending[1]
      BY <2>1, <2>2 DEF TypeInv
    <3>2. Len(pending) \in Nat \ {0}
      BY <2>2, <3>1, EmptySeq
    <3>3. 1 \in 1 .. Len(pending)
      BY <3>2
    <3>4. rec.seq = nextSeq + 1 - 1
      BY <3>1, <3>3 DEF TypeInv
    <3>5. QED
      BY <1>2, <3>1, <3>3, <3>4, ElementOfSeq
  <2>5. \A i \in 1 .. Len(w) : w[i] \in Whole /\ w[i].seq \in Nat
    <3>1. \A i \in 1 .. Len(w) : w[i] \in Whole
      BY <1>4, ElementOfSeq
    <3>2. \A q \in Whole : q.seq \in Nat
      BY DEF Whole, DataRecords, BeginRecords, CommitRecords
    <3>3. QED
      BY <3>1, <3>2
  <2>6. Numbered(w, pc' = "open", nextSeq')
    BY <1>2, <1>5, <2>2, <2>5 DEF Numbered
  <2>7. CASE v = w
    BY <2>6, <2>7
  <2>8. CASE v = Append(w, rec)
    <3>1. /\ Len(v) = Len(w) + 1 /\ Len(w) \in Nat
          /\ \A i \in 1 .. Len(w) : v[i] = w[i] /\ v[Len(w) + 1] = rec
      BY <1>4, <2>4, <2>8, AppendProperties, LenProperties
    <3>2. v[Len(w) + 1] = rec
      BY <1>4, <2>4, <2>8, AppendProperties
    <3>3. \A i \in 1 .. Len(w) : w[i].seq < nextSeq
      BY <1>5, <2>3 DEF Numbered
    <3>4. \A i \in 1 .. Len(v) : i \in 1 .. Len(w) \/ i = Len(w) + 1
      BY <3>1
    <3>5. ASSUME NEW m \in 1 .. Len(v), NEW n \in 1 .. Len(v), m < n
          PROVE  v[m].seq < v[n].seq
      <4>1. m \in 1 .. Len(w)
        BY <3>1, <3>5
      <4>2. CASE n \in 1 .. Len(w)
        BY <1>5, <3>1, <3>5, <4>1, <4>2 DEF Numbered
      <4>3. CASE n = Len(w) + 1
        BY <2>4, <3>1, <3>2, <3>3, <4>1, <4>3
      <4>4. QED
        BY <3>4, <4>2, <4>3
    <3>6. ASSUME NEW n \in 1 .. Len(v) PROVE v[n].seq < nextSeq'
      <4>1. CASE n \in 1 .. Len(w)
        BY <1>2, <2>2, <2>5, <3>1, <3>3, <4>1
      <4>2. CASE n = Len(w) + 1
        BY <1>2, <2>2, <2>4, <3>2, <4>2
      <4>3. QED
        BY <3>4, <4>1, <4>2
    <3>7. QED
      BY <3>5, <3>6 DEF Numbered
  <2>9. QED
    BY <1>2, <1>3, <2>2, <2>4, <2>7, <2>8, ReadableOfLonger
<1>13. CASE Sync
  BY <1>9, <1>13 DEF Sync
<1>14. CASE CallFails
  <2>1. recs' \in Cuts(TornWrites) /\ TornWrites \in BOOLEAN
        /\ nextSeq' = nextSeq /\ pc' = pc
    BY <1>14, JournalAssumption DEF CallFails
  <2>2. QED
    BY <1>7, <2>1
<1>15. CASE Close
  <2>1. recs' = recs /\ pc' = "closed"
    BY <1>15 DEF Close, file
  <2>2. QED
    BY <1>3, <1>5, <2>1 DEF Numbered
<1>16. CASE Kill
  <2>1. recs' \in Cuts(TRUE) /\ pc' = "closed"
    BY <1>16 DEF Kill
  <2>2. QED
    BY <1>7, <2>1 DEF Numbered
<1>17. CASE PowerLoss
  <2>1. recs' \in Cuts(TRUE) /\ pc' = "closed"
    BY <1>17 DEF PowerLoss
  <2>2. QED
    BY <1>7, <2>1 DEF Numbered
<1>18. CASE UNCHANGED vars
  BY <1>9, <1>18 DEF vars, file
<1>19. QED
  BY <1>8, <1>10, <1>11, <1>12, <1>13, <1>14, <1>15, <1>16, <1>17, <1>18 DEF Next

\* The records a scan reads are numbered in file order, and an open journal
\* gives out numbers above theirs: no crash, repair or failed call makes it
\* use one again that is still read.
THEOREM RecordsAreNumberedInOrder == Spec => []SequencesIncrease
<1>1. Init => SequencesIncrease
  <2> SUFFICES ASSUME Init PROVE SequencesIncrease
    OBVIOUS
  <2>1. recs = <<>> /\ pc = "closed" /\ <<>> \in Seq(Whole) /\ Len(<<>>) = 0
    BY EmptySeq DEF Init
  <2>2. Readable(recs) = <<>>
    BY <2>1, ReadableOfWhole
  <2>3. DOMAIN Readable(recs) = {}
    BY <2>2
  <2>4. QED
    BY <2>1, <2>3 DEF SequencesIncrease
<1>2. TypeInv /\ SequencesIncrease /\ [Next]_vars => SequencesIncrease'
  BY NumberStep
<1>3. QED
  BY <1>1, <1>2, JournalTypes, PTL DEF Spec

-----------------------------------------------------------------------------
(* What a scan finds *)

\* No record follows a torn one.
TornIsLast ==
  \A n \in DOMAIN recs : recs[n] = Torn => n = Len(recs) /\ pc = "closed"

\* A transaction of which k records are written: the others are still to come,
\* and a scan would have in its buffer what is written of the data.
Underway(k) ==
  LET b == ScanState(recs).transaction
  IN  /\ \A i \in 1 .. Len(pending) :
           pending[i] = CallRecord(nextSeq - k, current.ops, k + i)
      /\ k > 0 => /\ b.active /\ b.id = nextSeq - k /\ b.count = Len(current.ops)
                  /\ Payloads(b.records) = SubSeq(current.ops, 1, k - 1)

CallOK ==
  pending # <<>> =>
    IF current.alone
      THEN /\ Len(pending) = 1 /\ pending[1] \in DataRecords
           /\ current.ops = <<pending[1].op>>
      ELSE \E k \in 0 .. Len(current.ops) + 1 :
             k = Len(current.ops) + 2 - Len(pending) /\ Underway(k)

\* A call that has written everything is found, except that an unfinished
\* transaction may have taken in a record written alone.
DoneOK ==
  current # NoCall /\ pending = <<>> /\ ~ (current.alone /\ Scan(recs).dangling)
    => Found(recs) \in WithCurrent

CommitInv == TypeInv /\ TornIsLast /\ CallOK /\ DoneOK /\ CommittedExactly

\* What is found depends on what is read only.
LEMMA FoundByReading ==
  ASSUME NEW r \in Seq(Records), NEW q \in Seq(Records), Readable(r) = Readable(q)
  PROVE  Found(r) = Found(q)
BY ScanProperties DEF Found

\* Cuts of a cut are found as cuts of the file are.
LEMMA CutOfCut ==
  ASSUME TypeInv, NEW tearing \in BOOLEAN, NEW q \in Cuts(tearing),
         NEW k \in durable .. Len(q)
  PROVE  \E j \in durable .. Len(recs) :
           Found(SubSeq(q, 1, k)) = Found(SubSeq(recs, 1, j))
<1>1. recs \in Seq(Records) /\ durable \in 0 .. Len(recs)
  BY DEF TypeInv
<1>2. Len(recs) \in Nat
  BY <1>1, LenProperties
<1>3. PICK n \in durable .. Len(recs), p \in Seq(Records) :
        /\ p = SubSeq(recs, 1, n) /\ Len(p) = n /\ n \in 0 .. Len(recs)
        /\ q = p \/ q = Append(p, Torn)
        /\ q \in Seq(Records) /\ n <= Len(q) /\ Readable(q) = Readable(p)
  BY CutProperties
<1>4. Len(q) \in Nat
  BY <1>3, LenProperties
<1>5. \A i \in 1 .. n : p[i] = recs[i]
  BY <1>1, <1>3, PrefixProperties
<1>6. CASE k <= n
  <2>1. k \in 0 .. Len(q) /\ k \in 0 .. Len(recs) /\ k \in durable .. Len(recs)
    BY <1>1, <1>2, <1>3, <1>4, <1>6
  <2>2. \A i \in 1 .. k : q[i] = recs[i]
    <3>1. TAKE i \in 1 .. k
    <3>2. i \in 1 .. n
      BY <1>2, <1>3, <1>6, <2>1
    <3>3. q[i] = p[i]
      <4>1. CASE q = p
        BY <4>1
      <4>2. CASE q = Append(p, Torn)
        BY <1>3, <3>2, <4>2, AppendProperties DEF Records
      <4>3. QED
        BY <1>3, <4>1, <4>2
    <3>4. QED
      BY <1>5, <3>2, <3>3
  <2>3. SubSeq(q, 1, k) = SubSeq(recs, 1, k)
    BY <1>1, <1>3, <2>1, <2>2, EqualPrefixes
  <2>4. QED
    BY <2>1, <2>3
<1>7. CASE ~ (k <= n)
  <2>1. q = Append(p, Torn)
    BY <1>1, <1>2, <1>3, <1>4, <1>7
  <2>2. Len(q) = n + 1
    BY <1>3, <2>1
  <2>3. k = Len(q)
    BY <1>1, <1>2, <1>3, <1>7, <2>2
  <2>4. SubSeq(q, 1, k) = q
    BY <1>3, <2>3, SubSeqFull
  <2>5. Found(q) = Found(p)
    BY <1>3, FoundByReading
  <2>6. QED
    BY <1>3, <2>4, <2>5
<1>8. QED
  BY <1>6, <1>7

\* What is found of the prefixes is what is found of the cuts, before a step
\* and after it.
LEMMA FoundOfCuts ==
  ASSUME TypeInv
  PROVE  CommittedExactly <=> \A n \in durable .. Len(recs) :
                                Found(SubSeq(recs, 1, n)) \in outcomes \cup WithCurrent
<1>1. ASSUME CommittedExactly, NEW n \in durable .. Len(recs)
      PROVE  Found(SubSeq(recs, 1, n)) \in outcomes \cup WithCurrent
  <2>1. SubSeq(recs, 1, n) \in Cuts(TRUE)
    BY DEF Cuts
  <2>2. QED
    BY <1>1, <2>1 DEF CommittedExactly
<1>2. ASSUME \A n \in durable .. Len(recs) :
               Found(SubSeq(recs, 1, n)) \in outcomes \cup WithCurrent,
             NEW q \in Cuts(TRUE)
      PROVE  Found(q) \in outcomes \cup WithCurrent
  <2>1. PICK n \in durable .. Len(recs), p \in Seq(Records) :
          /\ p = SubSeq(recs, 1, n) /\ q \in Seq(Records)
          /\ Readable(q) = Readable(p)
    BY CutProperties
  <2>2. Found(q) = Found(p)
    BY <2>1, FoundByReading
  <2>3. QED
    BY <1>2, <2>1, <2>2
<1>3. QED
  BY <1>1, <1>2 DEF CommittedExactly

LEMMA FoundOfNextCuts ==
  TypeInv' => (CommittedExactly <=>
                 \A n \in durable .. Len(recs) :
                   Found(SubSeq(recs, 1, n)) \in outcomes \cup WithCurrent)'
<1>1. TypeInv => (CommittedExactly <=>
                    \A n \in durable .. Len(recs) :
                      Found(SubSeq(recs, 1, n)) \in outcomes \cup WithCurrent)
  BY FoundOfCuts
<1>2. QED
  BY <1>1, PTL

\* Settling keeps what is found, if it is among what was possible.
LEMMA SettledIsCommitted ==
  ASSUME TypeInv', NEW possible, Settle(possible),
         \A n \in durable' .. Len(recs') : Found(SubSeq(recs', 1, n)) \in possible
  PROVE  CommittedExactly'
<1>1. ASSUME NEW n \in durable' .. Len(recs')
      PROVE  Found(SubSeq(recs', 1, n)) \in outcomes'
  <2>1. SubSeq(recs', 1, n) \in Cuts(TRUE)'
    BY DEF Cuts
  <2>2. QED
    BY <2>1 DEF Settle
<1>2. QED
  BY <1>1, FoundOfNextCuts

\* Between calls, what may be found is what was promised.
LEMMA BetweenCalls ==
  ASSUME TypeInv, current = NoCall
  PROVE  WithCurrent = outcomes
<1>1. pending = <<>> /\ outcomes \subseteq Seq(Ops) /\ current.ops = <<>>
  BY DEF TypeInv, NoCall
<1>2. \A o \in outcomes : o \o current.ops = o
  BY <1>1, ConcatEmptySeq
<1>3. QED
  BY <1>1, <1>2 DEF WithCurrent

\* Without torn writes an open file is whole.
LEMMA OpenFileIsWhole ==
  ASSUME TypeInv, TornIsLast, pc = "open"
  PROVE  recs \in Seq(Whole)
<1>1. recs \in Seq(Records)
  BY DEF TypeInv
<1>2. PICK w : w = Readable(recs)
  OBVIOUS
<1>3. /\ w \in Seq(Whole) /\ Len(w) \in 0 .. Len(recs)
      /\ Len(w) < Len(recs) => recs[Len(w) + 1] = Torn
      /\ w = SubSeq(recs, 1, Len(w))
  BY <1>1, <1>2, ReadableProperties
<1>4. Len(recs) \in Nat /\ DOMAIN recs = 1 .. Len(recs)
  BY <1>1, LenProperties
<1>5. ~ (Len(w) < Len(recs))
  <2>1. SUFFICES ASSUME Len(w) < Len(recs) PROVE FALSE
    OBVIOUS
  <2>2. Len(w) + 1 \in DOMAIN recs /\ recs[Len(w) + 1] = Torn
    BY <1>3, <1>4, <2>1
  <2>3. QED
    BY <2>2 DEF TornIsLast
<1>6. Len(w) = Len(recs)
  <2>1. Len(w) \in 0 .. Len(recs)
    BY <1>3
  <2>2. QED
    BY <1>4, <1>5, <2>1
<1>7. QED
  BY <1>1, <1>3, <1>6, SubSeqFull

\* Whole files hold no torn record.
LEMMA WholeIsNotTorn ==
  ASSUME NEW w \in Seq(Whole), NEW n \in DOMAIN w
  PROVE  w[n] # Torn
<1>1. n \in 1 .. Len(w)
  BY LenProperties
<1>2. w[n] \in Whole
  BY <1>1, ElementOfSeq
<1>3. QED
  BY <1>2, TornIsNotWhole

\* Whatever is cut off, a torn record is the last one.
LEMMA TornStaysLast ==
  ASSUME TypeInv, TornIsLast, NEW q \in Cuts(TRUE), NEW n \in DOMAIN q, q[n] = Torn
  PROVE  n = Len(q)
<1>1. recs \in Seq(Records) /\ durable \in 0 .. Len(recs)
  BY DEF TypeInv
<1>2. Len(recs) \in Nat /\ DOMAIN recs = 1 .. Len(recs)
  BY <1>1, LenProperties
<1>3. PICK m \in durable .. Len(recs), p \in Seq(Records) :
        /\ p = SubSeq(recs, 1, m) /\ Len(p) = m /\ m \in 0 .. Len(recs)
        /\ q = p \/ (/\ m < Len(recs) \/ pending # <<>>
                     /\ q = Append(p, Torn))
        /\ q \in Seq(Records)
  BY CutProperties
<1>4. \A i \in 1 .. m : p[i] = recs[i] /\ i \in DOMAIN recs
  BY <1>1, <1>2, <1>3, PrefixProperties
<1>5. DOMAIN q = 1 .. Len(q) /\ Len(q) \in Nat
  BY <1>3, LenProperties
<1>6. CASE q = p
  <2>1. n \in 1 .. m /\ recs[n] = Torn
    BY <1>3, <1>4, <1>5, <1>6
  <2>2. n = Len(recs)
    BY <1>4, <2>1 DEF TornIsLast
  <2>3. Len(q) = m /\ m \in 0 .. Len(recs)
    BY <1>3, <1>6
  <2>4. Len(recs) \in 1 .. m
    BY <2>1, <2>2
  <2>5. m = Len(recs)
    <3>1. PICK k \in Nat : k = Len(recs)
      BY <1>2
    <3>2. m \in 0 .. k /\ k \in 1 .. m
      BY <2>3, <2>4, <3>1
    <3>3. m = k
      BY <3>2
    <3>4. QED
      BY <3>1, <3>3
  <2>6. QED
    BY <2>2, <2>3, <2>5
<1>7. CASE (m < Len(recs) \/ pending # <<>>) /\ q = Append(p, Torn)
  <2>1. Len(q) = m + 1 /\ \A i \in 1 .. m : q[i] = p[i]
    BY <1>3, <1>7, AppendProperties DEF Records
  <2>2. n \notin 1 .. m
    <3>1. SUFFICES ASSUME n \in 1 .. m PROVE FALSE
      OBVIOUS
    <3>2. recs[n] = Torn /\ n \in DOMAIN recs
      BY <1>4, <2>1, <3>1
    <3>3. n = Len(recs) /\ pc = "closed"
      BY <3>2 DEF TornIsLast
    <3>4. pending = <<>>
      BY <3>3 DEF TypeInv
    <3>5. m < Len(recs)
      BY <1>7, <3>4
    <3>6. QED
      BY <1>2, <1>3, <3>1, <3>3, <3>5
  <2>3. QED
    BY <1>3, <1>5, <2>1, <2>2
<1>8. QED
  BY <1>3, <1>6, <1>7

\* Once opened, a file is whole.
LEMMA OpenedFileIsWhole ==
  ASSUME TypeInv, Open
  PROVE  recs' \in Seq(Whole) /\ Found(recs') = Found(recs)
<1>1. recs \in Seq(Records)
  BY DEF TypeInv
<1>2. CASE Scan(recs).truncated
  <2>1. recs' = SubSeq(recs, 1, Scan(recs).valid)
    BY <1>2 DEF Open
  <2>2. QED
    BY <1>1, <2>1, RepairedFile DEF Found
<1>3. CASE ~ Scan(recs).truncated
  <2>1. recs' = recs
    BY <1>3 DEF Open, file
  <2>2. PICK w : w = Readable(recs)
    OBVIOUS
  <2>3. Scan(recs).truncated = (Len(w) < Len(recs))
    BY <1>1, <2>2, ScanProperties
  <2>4. ~ (Len(w) < Len(recs))
    BY <1>3, <2>3
  <2>5. w \in Seq(Whole) /\ Len(w) \in 0 .. Len(recs) /\ w = SubSeq(recs, 1, Len(w))
    BY <1>1, <2>2, ReadableProperties
  <2>6. Len(w) = Len(recs)
    BY <1>1, <2>4, <2>5, LenProperties
  <2>7. QED
    BY <1>1, <2>1, <2>5, <2>6, SubSeqFull
<1>4. QED
  BY <1>2, <1>3

\* What one record that a call appends makes of the scan: the call goes on, or
\* it is done, and is found unless a transaction has taken it in.
AppendedOK ==
  /\ CallOK /\ DoneOK
  /\ Found(recs) \in outcomes \cup WithCurrent

\* A record written alone commits itself, or is taken in.
LEMMA AloneIsAppended ==
  ASSUME TypeInv, TypeInv', AppendRecord, recs \in Seq(Whole), CallOK,
         current.alone, Found(recs) \in outcomes
  PROVE  AppendedOK'
<1>1. PICK rec : rec = Head(pending)
  OBVIOUS
<1>2. /\ pending # <<>> /\ recs' = Append(recs, rec) /\ pending' = Tail(pending)
      /\ UNCHANGED <<current, outcomes>>
  BY <1>1 DEF AppendRecord
<1>3. Len(pending) = 1 /\ rec \in DataRecords /\ current.ops = <<rec.op>>
  <2>1. rec = pending[1]
    BY <1>1, <1>2 DEF TypeInv
  <2>2. QED
    BY <1>2, <2>1 DEF CallOK
<1>4. pending' = <<>>
  <2>1. pending \in Seq(Whole)
    BY DEF TypeInv
  <2>2. pending' \in Seq(Whole) /\ Len(pending') = 0
    BY <1>2, <1>3, <2>1, HeadTailProperties
  <2>3. QED
    BY <2>2, EmptySeq
<1>5. rec \in Whole /\ recs' \in Seq(Whole)
  BY <1>2, <1>3, AppendProperties DEF Whole
<1>6. PICK s, t : s = ScanState(recs) /\ t = ScanState(recs')
  OBVIOUS
<1>7. s \in ScanFields /\ t = ScanRecord(s, rec)
  <2>1. s \in ScanFields
    BY <1>6, ScanInvariant DEF ScanOK
  <2>2. t = ScanRecord(s, rec)
    BY <1>2, <1>5, <1>6, ScanOneMore
  <2>3. QED
    BY <2>1, <2>2
<1>8. Scanned(s, rec, t)
  BY <1>5, <1>7, ScanStep
<1>9. /\ Found(recs) = Payloads(s.records) /\ Found(recs') = Payloads(t.records)
      /\ Scan(recs').dangling = t.transaction.active
      /\ s.records \in Seq(DataRecords)
  BY <1>5, <1>6, ReadableOfWhole, ScanProperties DEF Found
<1>10. s.transaction \in Buffers /\ s.transaction.active \in BOOLEAN
  BY <1>7 DEF ScanFields, Buffers
<1>11. CASE s.transaction.active = TRUE
  <2>1. t.records = s.records /\ t.transaction = Taken(s.transaction, rec)
    BY <1>3, <1>8, <1>11 DEF Scanned
  <2>2. t.transaction.active = TRUE
    BY <1>10, <1>11, <2>1 DEF Taken, Buffers
  <2>3. Found(recs') = Found(recs) /\ Scan(recs').dangling = TRUE
    BY <1>9, <2>1, <2>2
  <2>4. QED
    BY <1>2, <1>4, <2>3 DEF AppendedOK, CallOK, DoneOK
<1>12. CASE s.transaction.active = FALSE
  <2>1. t.records = Append(s.records, rec)
    BY <1>3, <1>8, <1>12 DEF Scanned
  <2>2. Found(recs') = Append(Found(recs), rec.op)
    BY <1>3, <1>9, <2>1, PayloadsProperties
  <2>3. Found(recs) \in Seq(Ops) /\ rec.op \in Ops
    <3>1. Found(recs) \in Seq(Ops)
      BY ReadableOfWhole, FoundType
    <3>2. QED
      BY <1>3, <3>1 DEF DataRecords
  <2>4. Found(recs') = Found(recs) \o current.ops
    BY <1>3, <2>2, <2>3, AppendIsConcat
  <2>5. Found(recs') \in WithCurrent'
    BY <1>2, <1>4, <2>4 DEF WithCurrent
  <2>6. QED
    BY <1>4, <2>5 DEF AppendedOK, CallOK, DoneOK
<1>13. QED
  BY <1>10, <1>11, <1>12

\* A transaction goes on until its Commit, which commits all of it.
LEMMA TransactionIsAppended ==
  ASSUME TypeInv, TypeInv', AppendRecord, recs \in Seq(Whole), CallOK,
         ~ current.alone, Found(recs) \in outcomes
  PROVE  AppendedOK'
<1>1. PICK rec : rec = Head(pending)
  OBVIOUS
<1>2. /\ pending # <<>> /\ recs' = Append(recs, rec) /\ pending' = Tail(pending)
      /\ nextSeq' = nextSeq + 1 /\ UNCHANGED <<current, outcomes>>
  BY <1>1 DEF AppendRecord
<1>3. PICK ops : ops = current.ops
  OBVIOUS
<1>4. PICK n \in Nat : n = Len(ops)
  <2>1. ops \in Seq(Ops)
    BY <1>3 DEF TypeInv, Calls
  <2>2. QED
    BY <2>1, LenProperties
<1>5. PICK k \in 0 .. n + 1 : k = n + 2 - Len(pending) /\ Underway(k)
  BY <1>2, <1>3, <1>4 DEF CallOK
<1>6. /\ pending \in Seq(Whole) /\ nextSeq \in Nat /\ ops \in Seq(Ops)
      /\ current.alone \in BOOLEAN /\ Len(pending) \in Nat
  BY <1>3, LenProperties DEF TypeInv, Calls
<1>7. /\ rec \in Whole /\ rec = pending[1] /\ pending' \in Seq(Whole)
      /\ Len(pending') = Len(pending) - 1
      /\ \A i \in 1 .. Len(pending') : pending'[i] = pending[i + 1]
  BY <1>1, <1>2, <1>6, HeadTailProperties
<1>8. PICK first \in Int : first = nextSeq - k
  BY <1>6
<1>9. rec = CallRecord(first, ops, k + 1)
  <2>1. 1 \in 1 .. Len(pending)
    BY <1>4, <1>5, <1>6
  <2>2. \A i \in 1 .. Len(pending) :
          pending[i] = CallRecord(nextSeq - k, current.ops, k + i)
    BY <1>5 DEF Underway
  <2>3. pending[1] = CallRecord(nextSeq - k, current.ops, k + 1)
    BY <2>1, <2>2
  <2>4. QED
    BY <1>3, <1>7, <1>8, <2>3
<1>10. PICK s, t : s = ScanState(recs) /\ t = ScanState(recs')
  OBVIOUS
<1>11. s \in ScanFields /\ t = ScanRecord(s, rec)
  <2>1. s \in ScanFields
    BY <1>10, ScanInvariant DEF ScanOK
  <2>2. t = ScanRecord(s, rec)
    BY <1>2, <1>7, <1>10, ScanOneMore
  <2>3. QED
    BY <2>1, <2>2
<1>12. Scanned(s, rec, t)
  BY <1>7, <1>11, ScanStep
<1>13. recs' \in Seq(Whole)
  BY <1>2, <1>7, AppendProperties
<1>14. /\ Found(recs) = Payloads(s.records) /\ Found(recs') = Payloads(t.records)
       /\ s.records \in Seq(DataRecords)
  BY <1>10, <1>13, ReadableOfWhole, ScanProperties DEF Found
<1>15. PICK b : b = s.transaction
  OBVIOUS
<1>16. b \in Buffers /\ b.records \in Seq(DataRecords) /\ b.active \in BOOLEAN
  BY <1>11, <1>15 DEF ScanFields, Buffers
<1>17. k > 0 => /\ b.active /\ b.id = first /\ b.count = n
                /\ Payloads(b.records) = SubSeq(ops, 1, k - 1)
  BY <1>3, <1>4, <1>5, <1>8, <1>10, <1>15 DEF Underway
\* The call goes on.
<1>18. ASSUME k < n + 1, t.records = s.records,
              t.transaction.active, t.transaction.id = first,
              t.transaction.count = n,
              Payloads(t.transaction.records) = SubSeq(ops, 1, k)
       PROVE  AppendedOK'
  <2>1. k + 1 \in 0 .. n + 1 /\ k + 1 = n + 2 - Len(pending') /\ Len(pending') > 0
    BY <1>4, <1>5, <1>6, <1>7, <1>18
  <2>2. nextSeq' - (k + 1) = first /\ (k + 1) - 1 = k /\ k + 1 > 0
    BY <1>2, <1>4, <1>5, <1>6, <1>8
  <2>3. ASSUME NEW i \in 1 .. Len(pending')
        PROVE  pending'[i] = CallRecord(first, ops, (k + 1) + i)
    <3>1. i + 1 \in 1 .. Len(pending) /\ k + (i + 1) = (k + 1) + i
      BY <1>4, <1>5, <1>6, <1>7
    <3>2. pending[i + 1] = CallRecord(first, ops, k + (i + 1))
      BY <1>3, <1>5, <1>8, <3>1 DEF Underway
    <3>3. QED
      BY <1>7, <3>1, <3>2
  <2>4. Underway(k + 1)'
    BY <1>2, <1>3, <1>4, <1>10, <1>18, <2>2, <2>3 DEF Underway
  <2>5. pending' # <<>>
    BY <2>1, EmptySeq
  <2>6. ~ current'.alone /\ Len(current'.ops) = n
    BY <1>2, <1>3, <1>4
  <2>7. \E j \in 0 .. n + 1 : j = n + 2 - Len(pending') /\ Underway(j)'
    BY <2>1, <2>4
  <2>8. CallOK'
    BY <2>6, <2>7 DEF CallOK
  <2>9. Found(recs') = Found(recs)
    BY <1>14, <1>18
  <2>10. QED
    BY <1>2, <2>5, <2>8, <2>9 DEF AppendedOK, DoneOK
<1>19. CASE k = 0
  <2>1. rec = BeginRecord(first, n) /\ rec \in BeginRecords
    <3>1. rec = BeginRecord(first, n)
      BY <1>4, <1>9, <1>19 DEF CallRecord
    <3>2. first \in Nat
      BY <1>6, <1>8, <1>19
    <3>3. QED
      BY <3>1, <3>2 DEF BeginRecord, BeginRecords
  <2>2. t.records = s.records /\ t.transaction = Started(rec)
    BY <1>12, <2>1 DEF Scanned
  <2>3. /\ t.transaction.active /\ t.transaction.id = first
        /\ t.transaction.count = n /\ t.transaction.records = <<>>
    BY <2>1, <2>2 DEF Started, BeginRecord
  <2>4. Payloads(<<>>) = SubSeq(ops, 1, k)
    <3>1. <<>> \in Seq(DataRecords) /\ Len(<<>>) = 0
      BY EmptySeq
    <3>2. Payloads(<<>>) \in Seq(Ops) /\ Len(Payloads(<<>>)) = 0
      BY <3>1, PayloadsProperties
    <3>3. Payloads(<<>>) = <<>>
      BY <3>2, EmptySeq
    <3>4. SubSeq(ops, 1, k) = <<>>
      BY <1>19, SubSeqEmpty
    <3>5. QED
      BY <3>3, <3>4
  <2>5. k < n + 1
    BY <1>4, <1>19
  <2>6. QED
    BY <1>18, <2>2, <2>3, <2>4, <2>5
<1>20. CASE k > 0 /\ k < n + 1
  <2>1. k \in 1 .. n /\ k + 1 # 1 /\ k + 1 <= n + 1
    BY <1>4, <1>5, <1>20
  <2>2. rec = DataRecord(first + (k + 1) - 1, ops[k])
    <3>1. (k + 1) - 1 = k
      BY <2>1
    <3>2. rec = DataRecord(first + (k + 1) - 1, ops[(k + 1) - 1])
      BY <1>4, <1>9, <2>1 DEF CallRecord
    <3>3. QED
      BY <3>1, <3>2
  <2>3. rec.kind = "data" /\ rec.op = ops[k]
    BY <2>2 DEF DataRecord
  <2>4. rec \in DataRecords
    BY <1>7, <2>3 DEF Whole, DataRecords, BeginRecords, CommitRecords
  <2>5. b.active = TRUE
    BY <1>16, <1>17, <1>20
  <2>6. t.records = s.records /\ t.transaction = Taken(b, rec)
    BY <1>12, <1>15, <2>4, <2>5 DEF Scanned
  <2>7. /\ t.transaction.active /\ t.transaction.id = first
        /\ t.transaction.count = n
        /\ t.transaction.records = Append(b.records, rec)
    BY <1>16, <1>17, <1>20, <2>6 DEF Taken, Buffers
  <2>8. Payloads(Append(b.records, rec)) = Append(SubSeq(ops, 1, k - 1), ops[k])
    BY <1>16, <1>17, <1>20, <2>3, <2>4, PayloadsProperties
  <2>9. Append(SubSeq(ops, 1, k - 1), ops[k]) = SubSeq(ops, 1, k)
    <3>1. k - 1 \in 0 .. Len(ops) /\ k \in 0 .. Len(ops) /\ (k - 1) + 1 = k
      BY <1>4, <2>1
    <3>2. PICK x, y, z : /\ x = SubSeq(ops, 1, k - 1) /\ y = SubSeq(ops, 1, k)
                         /\ z = Append(x, ops[k])
      OBVIOUS
    <3>3. x \in Seq(Ops) /\ Len(x) = k - 1 /\ \A i \in 1 .. (k - 1) : x[i] = ops[i]
      BY <1>6, <3>1, <3>2, PrefixProperties
    <3>4. y \in Seq(Ops) /\ Len(y) = k /\ \A i \in 1 .. k : y[i] = ops[i]
      BY <1>6, <3>1, <3>2, PrefixProperties
    <3>5. ops[k] \in Ops
      BY <1>4, <1>6, <2>1, ElementOfSeq
    <3>6. /\ z \in Seq(Ops) /\ Len(z) = k /\ z[k] = ops[k]
          /\ \A i \in 1 .. (k - 1) : z[i] = x[i]
      BY <3>1, <3>2, <3>3, <3>5, AppendProperties
    <3>7. \A i \in 1 .. k : i \in 1 .. (k - 1) \/ i = k
      BY <2>1
    <3>8. z = y
      BY <3>3, <3>4, <3>6, <3>7, SeqEqual
    <3>9. QED
      BY <3>2, <3>8
  <2>10. QED
    BY <1>18, <1>20, <2>6, <2>7, <2>8, <2>9
<1>21. CASE k = n + 1
  <2>1. rec = CommitRecord(first + n + 1, first, ops)
    <3>1. k + 1 # 1 /\ ~ (k + 1 <= n + 1)
      BY <1>4, <1>21
    <3>2. QED
      BY <1>4, <1>9, <3>1 DEF CallRecord
  <2>2. /\ rec.kind = "commit" /\ rec.id = first /\ rec.count = n
        /\ rec.chain = ops
    BY <1>4, <2>1 DEF CommitRecord
  <2>3. rec \in CommitRecords
    BY <1>7, <2>2 DEF Whole, DataRecords, BeginRecords, CommitRecords
  <2>4. Payloads(b.records) = ops
    <3>1. k > 0 /\ k - 1 = n
      BY <1>4, <1>21
    <3>2. SubSeq(ops, 1, n) = ops
      BY <1>4, <1>6, SubSeqFull
    <3>3. QED
      BY <1>17, <3>1, <3>2
  <2>5. Len(b.records) = n
    BY <1>4, <1>16, <2>4, PayloadsProperties
  <2>6. Accepts(b, rec)
    <3>1. k > 0
      BY <1>4, <1>21
    <3>2. QED
      BY <1>17, <2>2, <2>4, <2>5, <3>1 DEF Accepts
  <2>7. t.records = s.records \o b.records
    BY <1>12, <1>15, <2>3, <2>6 DEF Scanned
  <2>8. Found(recs') = Found(recs) \o ops
    BY <1>14, <1>16, <2>4, <2>7, PayloadsProperties
  <2>9. pending' = <<>>
    <3>1. Len(pending') = 0
      BY <1>4, <1>5, <1>6, <1>7, <1>21
    <3>2. QED
      BY <1>7, <3>1, EmptySeq
  <2>10. Found(recs') \in WithCurrent'
    BY <1>2, <1>3, <2>8, <2>9 DEF WithCurrent
  <2>11. QED
    BY <2>9, <2>10 DEF AppendedOK, CallOK, DoneOK
<1>22. QED
  BY <1>4, <1>5, <1>19, <1>20, <1>21

LEMMA CommitStep ==
  ASSUME TornWrites = FALSE
  PROVE  CommitInv /\ [Next]_vars => CommitInv'
<1> SUFFICES ASSUME CommitInv, [Next]_vars PROVE CommitInv'
  OBVIOUS
<1>1. TypeInv /\ TornIsLast /\ CallOK /\ DoneOK /\ CommittedExactly
  BY DEF CommitInv
<1>2. TypeInv'
  BY <1>1, TypeStep
<1>3. /\ recs \in Seq(Records) /\ durable \in 0 .. Len(recs)
      /\ pc \in {"closed", "open"} /\ outcomes \subseteq Seq(Ops)
      /\ pc = "closed" => current = NoCall
      /\ current = NoCall => pending = <<>>
      /\ recs' \in Seq(Records) /\ current.alone \in BOOLEAN
  BY <1>1, <1>2 DEF TypeInv, Calls
<1>4. Len(recs) \in Nat
  BY <1>3, LenProperties
<1>5. \A n \in durable .. Len(recs) :
        Found(SubSeq(recs, 1, n)) \in outcomes \cup WithCurrent
  BY <1>1, FoundOfCuts
<1>6. SubSeq(recs, 1, Len(recs)) = recs /\ Len(recs) \in durable .. Len(recs)
  BY <1>3, <1>4, SubSeqFull
<1>7. Found(recs) \in outcomes \cup WithCurrent
  BY <1>5, <1>6
<1>8. current = NoCall => WithCurrent = outcomes
  BY <1>1, BetweenCalls
<1>9. pc = "open" => recs \in Seq(Whole)
  BY <1>1, OpenFileIsWhole
\* After a step that leaves no call in progress, the call needs no invariant.
<1>10. ASSUME pending' = <<>>, current' = NoCall PROVE CallOK' /\ DoneOK'
  BY <1>10 DEF CallOK, DoneOK
\* A cut leaves what was possible.
<1>11. ASSUME NEW tearing \in BOOLEAN, recs' \in Cuts(tearing),
              durable' \in durable .. Len(recs'), Settle(outcomes \cup WithCurrent)
       PROVE  CommittedExactly'
  <2>1. ASSUME NEW n \in durable' .. Len(recs')
        PROVE  Found(SubSeq(recs', 1, n)) \in outcomes \cup WithCurrent
    <3>1. n \in durable .. Len(recs')
      <4>1. Len(recs') \in Nat /\ durable \in Nat
        BY <1>3, LenProperties
      <4>2. QED
        BY <1>11, <4>1
    <3>2. PICK j \in durable .. Len(recs) :
            Found(SubSeq(recs', 1, n)) = Found(SubSeq(recs, 1, j))
      BY <1>1, <1>11, <3>1, CutOfCut
    <3>3. QED
      BY <1>5, <3>2
  <2>2. QED
    BY <1>2, <1>11, <2>1, SettledIsCommitted
<1>12. ASSUME recs' \in Seq(Whole) PROVE TornIsLast'
  BY <1>12, WholeIsNotTorn DEF TornIsLast
<1>13. ASSUME recs' \in Cuts(TRUE), pc' = "closed" PROVE TornIsLast'
  BY <1>1, <1>13, TornStaysLast DEF TornIsLast
<1>14. ASSUME NEW tearing \in BOOLEAN, recs' \in Cuts(tearing)
       PROVE  durable \in durable .. Len(recs') /\ Len(recs') \in durable .. Len(recs')
  <2>1. PICK n \in durable .. Len(recs), p \in Seq(Records) : n <= Len(recs')
    BY <1>1, <1>14, CutProperties
  <2>2. Len(recs') \in Nat
    BY <1>3, LenProperties
  <2>3. QED
    BY <1>3, <1>4, <2>1, <2>2
<1>15. CASE Open
  <2>1. /\ pc = "closed" /\ UNCHANGED <<pending, current>> /\ Settle(outcomes)
    BY <1>15 DEF Open
  <2>2. current' = NoCall /\ pending' = <<>>
    BY <1>3, <2>1
  <2>3. recs' \in Seq(Whole) /\ Found(recs') = Found(recs)
    BY <1>1, <1>15, OpenedFileIsWhole
  <2>4. ASSUME NEW n \in durable' .. Len(recs')
        PROVE  Found(SubSeq(recs', 1, n)) \in outcomes
    <3>1. CASE Scan(recs).truncated
      <4>1. recs' = SubSeq(recs, 1, Scan(recs).valid) /\ durable' = Scan(recs).valid
        BY <1>15, <3>1 DEF Open
      <4>2. Len(recs') = durable'
        BY <1>3, <4>1, RepairedFile
      <4>3. Len(recs') \in Nat
        BY <1>3, LenProperties
      <4>4. n = Len(recs')
        BY <4>2, <4>3
      <4>5. SubSeq(recs', 1, n) = recs'
        BY <1>3, <4>4, SubSeqFull
      <4>6. QED
        BY <1>3, <1>7, <1>8, <2>1, <2>3, <4>5
    <3>2. CASE ~ Scan(recs).truncated
      <4>1. recs' = recs /\ durable' = durable
        BY <1>15, <3>2 DEF Open, file
      <4>2. QED
        BY <1>3, <1>5, <1>8, <2>1, <4>1
    <3>3. QED
      BY <3>1, <3>2
  <2>5. CommittedExactly'
    BY <1>2, <2>1, <2>4, SettledIsCommitted
  <2>6. QED
    BY <1>2, <1>10, <1>12, <2>2, <2>3, <2>5 DEF CommitInv
\* A call that starts promises nothing yet.
<1>16. ASSUME UNCHANGED <<file, pc, outcomes>>, current = NoCall
       PROVE  TornIsLast' /\ CommittedExactly'
  <2>1. UNCHANGED <<recs, durable, pc, outcomes>>
    BY <1>16 DEF file
  <2>2. \A n \in durable' .. Len(recs') :
          Found(SubSeq(recs', 1, n)) \in outcomes' \cup WithCurrent'
    BY <1>5, <1>8, <1>16, <2>1
  <2>3. CommittedExactly'
    BY <1>2, <2>2, FoundOfNextCuts
  <2>4. QED
    BY <1>1, <2>1, <2>3 DEF TornIsLast
<1>17. ASSUME NEW ops \in Groups, AppendTransaction(ops) PROVE CommitInv'
  <2>1. /\ UNCHANGED <<file, pc, nextSeq, outcomes>> /\ current = NoCall
        /\ pending' = TransactionRecords(ops)
        /\ current' = [ops |-> ops, alone |-> FALSE]
    BY <1>17 DEF AppendTransaction, Idle
  <2>2. TornIsLast' /\ CommittedExactly'
    BY <1>16, <2>1
  <2>3. ops \in Seq(Ops) /\ Len(ops) \in Nat
    BY GroupProperties
  <2>4. nextSeq \in Nat
    BY <1>1 DEF TypeInv
  <2>5. /\ Len(pending') = Len(ops) + 2 /\ pending' # <<>>
        /\ \A i \in 1 .. Len(pending') : pending'[i] = CallRecord(nextSeq, ops, i)
    BY <2>1, <2>3, <2>4, TransactionRecordsProperties
  <2>6. Underway(0)'
    <3>1. nextSeq' - 0 = nextSeq /\ current'.ops = ops
      BY <2>1, <2>4
    <3>2. ASSUME NEW i \in 1 .. Len(pending')
          PROVE  pending'[i] = CallRecord(nextSeq' - 0, current'.ops, 0 + i)
      <4>1. 0 + i = i
        OBVIOUS
      <4>2. QED
        BY <2>5, <3>1, <4>1
    <3>3. QED
      BY <3>2 DEF Underway
  <2>7. CallOK'
    <3>1. ~ current'.alone /\ current'.ops = ops
      BY <2>1
    <3>2. 0 \in 0 .. Len(ops) + 1 /\ 0 = Len(ops) + 2 - Len(pending')
      BY <2>3, <2>5
    <3>3. \E k \in 0 .. Len(ops) + 1 :
            k = Len(ops) + 2 - Len(pending') /\ Underway(k)'
      BY <2>6, <3>2
    <3>4. QED
      BY <3>1, <3>3 DEF CallOK
  <2>8. DoneOK'
    BY <2>5 DEF DoneOK
  <2>9. QED
    BY <1>2, <2>2, <2>7, <2>8 DEF CommitInv
<1>18. ASSUME NEW op \in Ops, AppendAlone(op) PROVE CommitInv'
  <2>1. /\ UNCHANGED <<file, pc, nextSeq, outcomes>> /\ current = NoCall
        /\ pending' = <<DataRecord(nextSeq, op)>>
        /\ current' = [ops |-> <<op>>, alone |-> TRUE]
    BY <1>18 DEF AppendAlone, Idle
  <2>2. TornIsLast' /\ CommittedExactly'
    BY <1>16, <2>1
  <2>3. DataRecord(nextSeq, op) \in DataRecords /\ DataRecord(nextSeq, op).op = op
    BY <1>1 DEF TypeInv, DataRecord, DataRecords
  <2>4. /\ Len(pending') = 1 /\ pending'[1] = DataRecord(nextSeq, op)
        /\ pending' # <<>>
    BY <2>1
  <2>5. CallOK'
    BY <2>1, <2>3, <2>4 DEF CallOK
  <2>6. DoneOK'
    BY <2>4 DEF DoneOK
  <2>7. QED
    BY <1>2, <2>2, <2>5, <2>6 DEF CommitInv
<1>19. CASE AppendRecord
  <2>1. PICK rec : rec = Head(pending)
    OBVIOUS
  <2>2. /\ pending # <<>> /\ recs' = Append(recs, rec)
        /\ UNCHANGED <<durable, pc, current, outcomes>>
    BY <1>19, <2>1 DEF AppendRecord
  <2>3. pc = "open" /\ recs \in Seq(Whole)
    BY <1>3, <1>9, <2>2
  <2>4. WithCurrent = {}
    BY <2>2 DEF WithCurrent
  <2>5. Found(recs) \in outcomes
    BY <1>7, <2>4
  <2>6. AppendedOK'
    <3>1. CASE current.alone
      BY <1>1, <1>2, <1>19, <2>3, <2>5, <3>1, AloneIsAppended
    <3>2. CASE ~ current.alone
      BY <1>1, <1>2, <1>19, <2>3, <2>5, <3>2, TransactionIsAppended
    <3>3. QED
      BY <3>1, <3>2
  <2>7. CallOK' /\ DoneOK' /\ Found(recs') \in outcomes' \cup WithCurrent'
    BY <2>6 DEF AppendedOK
  <2>8. rec \in Whole
    <3>1. pending \in Seq(Whole)
      BY <1>1 DEF TypeInv
    <3>2. QED
      BY <2>1, <2>2, <3>1, HeadTailProperties
  <2>9. /\ recs' \in Seq(Whole) /\ Len(recs') = Len(recs) + 1
        /\ \A i \in 1 .. Len(recs) : recs'[i] = recs[i]
    BY <2>2, <2>3, <2>8, AppendProperties
  <2>10. ASSUME NEW n \in durable' .. Len(recs')
         PROVE  Found(SubSeq(recs', 1, n)) \in outcomes' \cup WithCurrent'
    <3>1. n \in durable .. Len(recs) \/ n = Len(recs')
      BY <1>3, <1>4, <2>2, <2>9
    <3>2. CASE n \in durable .. Len(recs)
      <4>1. n \in 0 .. Len(recs) /\ n \in 0 .. Len(recs')
        BY <1>3, <1>4, <2>9, <3>2
      <4>2. \A i \in 1 .. n : recs'[i] = recs[i]
        BY <1>4, <2>9, <4>1
      <4>3. SubSeq(recs', 1, n) = SubSeq(recs, 1, n)
        BY <1>3, <4>1, <4>2, EqualPrefixes
      <4>4. QED
        BY <1>5, <2>2, <2>4, <3>2, <4>3
    <3>3. CASE n = Len(recs')
      BY <1>3, <2>7, <3>3, SubSeqFull
    <3>4. QED
      BY <3>1, <3>2, <3>3
  <2>11. CommittedExactly'
    BY <1>2, <2>10, FoundOfNextCuts
  <2>12. QED
    BY <1>2, <1>12, <2>7, <2>9, <2>11 DEF CommitInv
<1>20. CASE Sync
  <2>1. /\ current # NoCall /\ pending = <<>> /\ durable' = Len(recs)
        /\ current' = NoCall /\ pending' = <<>> /\ UNCHANGED <<recs, pc>>
    BY <1>20 DEF Sync
  <2>2. PICK possible :
          /\ possible = IF current.alone /\ Scan(recs).dangling
                          THEN outcomes \cup WithCurrent ELSE WithCurrent
          /\ Settle(possible)
    BY <1>20 DEF Sync
  <2>3. Found(recs) \in possible
    <3>1. CASE current.alone /\ Scan(recs).dangling
      BY <1>7, <2>2, <3>1
    <3>2. CASE ~ (current.alone /\ Scan(recs).dangling)
      BY <1>1, <2>1, <2>2, <3>2 DEF DoneOK
    <3>3. QED
      BY <3>1, <3>2
  <2>4. ASSUME NEW n \in durable' .. Len(recs')
        PROVE  Found(SubSeq(recs', 1, n)) \in possible
    <3>1. n = Len(recs)
      BY <1>4, <2>1
    <3>2. QED
      BY <1>6, <2>1, <2>3, <3>1
  <2>5. CommittedExactly'
    BY <1>2, <2>2, <2>4, SettledIsCommitted
  <2>6. TornIsLast'
    BY <1>1, <2>1 DEF TornIsLast
  <2>7. QED
    BY <1>2, <1>10, <2>1, <2>5, <2>6 DEF CommitInv
<1>21. CASE CallFails
  <2>1. /\ recs' \in Cuts(FALSE) /\ pending' = <<>> /\ current' = NoCall
        /\ current # NoCall /\ UNCHANGED <<durable, pc, nextSeq>>
        /\ Settle(outcomes \cup WithCurrent)
    BY <1>21, Zenon DEF CallFails
  <2>2. CommittedExactly'
    BY <1>11, <1>14, <2>1
  <2>3. recs \in Seq(Whole)
    BY <1>3, <1>9, <2>1
  <2>4. recs' \in Seq(Whole)
    <3>1. PICK n \in durable .. Len(recs), p \in Seq(Records) :
            p = SubSeq(recs, 1, n) /\ n \in 0 .. Len(recs) /\ recs' = p
      BY <1>1, <2>1, CutProperties
    <3>2. QED
      BY <2>3, <3>1, PrefixProperties
  <2>5. QED
    BY <1>2, <1>10, <1>12, <2>1, <2>2, <2>4 DEF CommitInv
<1>22. CASE Close
  <2>1. /\ UNCHANGED <<recs, durable, pending, current, outcomes>>
        /\ pc = "open" /\ pc' = "closed" /\ current = NoCall
    BY <1>22 DEF Close, file, Idle
  <2>2. pending' = <<>> /\ current' = NoCall
    BY <1>3, <2>1
  <2>3. \A n \in durable' .. Len(recs') :
          Found(SubSeq(recs', 1, n)) \in outcomes' \cup WithCurrent'
    BY <1>5, <1>8, <2>1
  <2>4. CommittedExactly'
    BY <1>2, <2>3, FoundOfNextCuts
  <2>5. TornIsLast'
    BY <1>1, <2>1 DEF TornIsLast
  <2>6. QED
    BY <1>2, <1>10, <2>2, <2>4, <2>5 DEF CommitInv
<1>23. CASE Kill
  <2>1. /\ recs' \in Cuts(TRUE) /\ durable' = durable /\ pc' = "closed"
        /\ pending' = <<>> /\ current' = NoCall /\ Settle(outcomes \cup WithCurrent)
    BY <1>23 DEF Kill
  <2>2. QED
    BY <1>2, <1>10, <1>11, <1>13, <1>14, <2>1 DEF CommitInv
<1>24. CASE PowerLoss
  <2>1. /\ recs' \in Cuts(TRUE) /\ durable' = Len(recs') /\ pc' = "closed"
        /\ pending' = <<>> /\ current' = NoCall /\ Settle(outcomes \cup WithCurrent)
    BY <1>24 DEF PowerLoss
  <2>2. QED
    BY <1>2, <1>10, <1>11, <1>13, <1>14, <2>1 DEF CommitInv
<1>25. CASE UNCHANGED vars
  <2>1. UNCHANGED <<recs, durable, pc, nextSeq, pending, current, outcomes>>
    BY <1>25 DEF vars, file
  <2>2. \A n \in durable' .. Len(recs') :
          Found(SubSeq(recs', 1, n)) \in outcomes' \cup WithCurrent'
    BY <1>5, <2>1 DEF WithCurrent
  <2>3. CommittedExactly'
    BY <1>2, <2>2, FoundOfNextCuts
  <2>4. TornIsLast' /\ DoneOK'
    BY <1>1, <2>1 DEF TornIsLast, DoneOK, WithCurrent
  <2>5. CallOK'
    BY <1>1, <2>1 DEF CallOK, Underway
  <2>6. QED
    BY <1>2, <2>3, <2>4, <2>5 DEF CommitInv
<1>26. QED
  BY <1>15, <1>17, <1>18, <1>19, <1>20, <1>21, <1>22, <1>23, <1>24, <1>25 DEF Next

LEMMA CommitInit == Init => CommitInv
<1> SUFFICES ASSUME Init PROVE CommitInv
  OBVIOUS
<1>1. TypeInv
  BY TypeInit
<1>2. /\ recs = <<>> /\ durable = 0 /\ pending = <<>> /\ current = NoCall
      /\ outcomes = {<<>>}
  BY DEF Init
<1>3. <<>> \in Seq(Whole) /\ Len(<<>>) = 0 /\ <<>> \in Seq(DataRecords)
  BY EmptySeq
<1>4. Found(recs) = <<>>
  <2>1. Readable(<<>>) = <<>> /\ <<>> \in Seq(Records)
    BY <1>3, ReadableOfWhole
  <2>2. Scan(<<>>).records = ScanStart.records
    BY <2>1, ScanProperties, ScanOneMore
  <2>3. Scan(<<>>).records = <<>>
    BY <2>2 DEF ScanStart
  <2>4. Payloads(<<>>) \in Seq(Ops) /\ Len(Payloads(<<>>)) = 0
    BY <1>3, PayloadsProperties
  <2>5. QED
    BY <1>2, <2>3, <2>4, EmptySeq DEF Found
<1>5. ASSUME NEW n \in durable .. Len(recs)
      PROVE  Found(SubSeq(recs, 1, n)) \in outcomes
  <2>1. n = 0
    BY <1>2, <1>3
  <2>2. SubSeq(recs, 1, n) = <<>>
    BY <2>1, SubSeqEmpty
  <2>3. QED
    BY <1>2, <1>4, <2>2
<1>6. CommittedExactly
  BY <1>1, <1>5, FoundOfCuts
<1>7. TornIsLast /\ CallOK /\ DoneOK
  BY <1>2, <1>3, WholeIsNotTorn DEF TornIsLast, CallOK, DoneOK
<1>8. QED
  BY <1>1, <1>6, <1>7 DEF CommitInv

\* Wherever the process or the machine ends, a scan finds every acknowledged
\* call in its place and calls that were not acknowledged as a whole or not at
\* all, provided that a failed write leaves no torn record that the journal,
\* which stays open, would append to.
THEOREM ScansFindWholeCalls ==
  ASSUME TornWrites = FALSE
  PROVE  Spec => []CommittedExactly
<1>1. Init => CommitInv
  BY CommitInit
<1>2. CommitInv /\ [Next]_vars => CommitInv'
  BY CommitStep
<1>3. CommitInv => CommittedExactly
  BY DEF CommitInv
<1>4. QED
  BY <1>1, <1>2, <1>3, PTL DEF Spec

-----------------------------------------------------------------------------
(* The loop of the scan and the file as a whole *)

\* What one record does to the count of unfinished transactions.
LEMMA UnfinishedStep ==
  ASSUME NEW s \in ScanFields, NEW rec \in Whole, NEW t, t = ScanRecord(s, rec)
  PROVE  /\ rec \in BeginRecords =>
              t.unfinished = s.unfinished + (IF s.transaction.active = TRUE THEN 1 ELSE 0)
         /\ rec \in DataRecords => t.unfinished = s.unfinished
         /\ rec \in CommitRecords =>
              t.unfinished = s.unfinished + (IF Accepts(s.transaction, rec) THEN 0 ELSE 1)
<1> DEFINE met == [s EXCEPT !.read = @ + 1,
                            !.last = IF rec.seq > @ THEN rec.seq ELSE @]
<1>1. /\ met.unfinished = s.unfinished /\ met.transaction = s.transaction
      /\ DOMAIN met = DOMAIN s
  OBVIOUS
<1>2. /\ s.unfinished \in Nat /\ s.transaction.active \in BOOLEAN
      /\ "unfinished" \in DOMAIN s /\ "transaction" \in DOMAIN s
  BY DEF ScanFields, Buffers
<1>3. CASE rec \in BeginRecords
  <2>1. rec.kind = "begin" /\ rec \notin DataRecords /\ rec \notin CommitRecords
    BY <1>3 DEF BeginRecords, DataRecords, CommitRecords
  <2>2. t = BeginScanned(met, rec)
    BY <2>1 DEF ScanRecord
  <2> HIDE DEF met
  <2>3. t.unfinished = s.unfinished + (IF s.transaction.active THEN 1 ELSE 0)
    BY <1>1, <1>2, <2>2 DEF BeginScanned
  <2>4. QED
    BY <1>2, <2>1, <2>3
<1>4. CASE rec \in DataRecords
  <2>1. rec.kind = "data" /\ rec \notin BeginRecords /\ rec \notin CommitRecords
    BY <1>4 DEF BeginRecords, DataRecords, CommitRecords
  <2>2. t = DataScanned(met, rec)
    BY <2>1 DEF ScanRecord
  <2> HIDE DEF met
  <2>3. t.unfinished = s.unfinished
    BY <1>1, <1>2, <2>2 DEF DataScanned
  <2>4. QED
    BY <2>1, <2>3
<1>5. CASE rec \in CommitRecords
  <2>1. rec.kind = "commit" /\ rec \notin BeginRecords /\ rec \notin DataRecords
    BY <1>5 DEF BeginRecords, DataRecords, CommitRecords
  <2>2. t = CommitScanned(met, rec)
    BY <2>1 DEF ScanRecord
  <2> HIDE DEF met
  <2>3. t.unfinished = s.unfinished + (IF Accepts(s.transaction, rec) THEN 0 ELSE 1)
    BY <1>1, <1>2, <2>2 DEF CommitScanned
  <2>4. QED
    BY <2>1, <2>3
<1>6. QED
  BY <1>3, <1>4, <1>5 DEF Whole

\* The kinds of whole records.
LEMMA WholeKinds ==
  ASSUME NEW w \in Seq(Whole), NEW n \in 1 .. Len(w)
  PROVE  /\ w[n] \in Whole /\ DOMAIN w = 1 .. Len(w) /\ Len(w) \in Nat
         /\ w[n].kind \in {"begin", "data", "commit"}
         /\ w[n].kind = "begin" <=> w[n] \in BeginRecords
         /\ w[n].kind = "data" <=> w[n] \in DataRecords
         /\ w[n].kind = "commit" <=> w[n] \in CommitRecords
<1>1. w[n] \in Whole /\ DOMAIN w = 1 .. Len(w) /\ Len(w) \in Nat
  BY LenProperties, ElementOfSeq
<1>2. QED
  BY <1>1 DEF Whole, BeginRecords, DataRecords, CommitRecords

LEMMA OpensProperty ==
  ASSUME NEW w \in Seq(Whole), NEW n \in 1 .. Len(w), NEW b, b = Opens(w, n)
  PROVE  /\ b \in 0 .. (n - 1)
         /\ b # 0 => w[b].kind # "data"
         /\ \A m \in (b + 1) .. (n - 1) : w[m].kind = "data"
<1> DEFINE S == {0} \cup {m \in Markers(w) : m < n}
<1>1. DOMAIN w = 1 .. Len(w) /\ Len(w) \in Nat
  BY LenProperties
<1>2. n \in Nat /\ S \in SUBSET Nat /\ S # {} /\ \A x \in S : x <= n
  BY <1>1 DEF Markers
<1>3. b = Max(S)
  BY DEF Opens
<1>4. b \in S /\ \A x \in S : x <= b
  <2> HIDE DEF S
  <2>1. QED
    BY <1>2, <1>3, MaxProperty
<1>5. b \in 0 .. (n - 1) /\ (b # 0 => b \in Markers(w))
  BY <1>1, <1>4 DEF Markers
<1>6. ASSUME NEW m \in (b + 1) .. (n - 1), w[m].kind # "data" PROVE FALSE
  <2>1. m \in 1 .. Len(w) /\ m < n /\ ~ (m <= b)
    BY <1>1, <1>5
  <2>2. m \in S
    BY <1>1, <1>6, <2>1 DEF Markers
  <2>3. QED
    BY <1>4, <2>1, <2>2
<1>7. QED
  BY <1>5, <1>6 DEF Markers

\* The Begin or Commit a record follows is the one no other comes after.
LEMMA OpensIs ==
  ASSUME NEW w \in Seq(Whole), NEW n \in 1 .. Len(w), NEW b \in 1 .. (n - 1),
         w[b].kind # "data", \A m \in (b + 1) .. (n - 1) : w[m].kind = "data"
  PROVE  Opens(w, n) = b
<1>1. PICK c : c = Opens(w, n)
  OBVIOUS
<1>2. /\ c \in 0 .. (n - 1) /\ (c # 0 => w[c].kind # "data")
      /\ \A m \in (c + 1) .. (n - 1) : w[m].kind = "data"
  BY <1>1, OpensProperty
<1>3. Len(w) \in Nat
  BY LenProperties
<1>4. ~ (c < b)
  BY <1>2, <1>3
<1>5. ~ (b < c)
  BY <1>2, <1>3
<1>6. QED
  BY <1>1, <1>2, <1>3, <1>4, <1>5

\* What is kept, record by record.
LEMMA KeptUnfolds ==
  ASSUME NEW w \in Seq(Whole)
  PROVE  /\ Kept(w)[0] = <<>>
         /\ \A n \in 1 .. Len(w) :
              Kept(w)[n] = IF Applies(w, n) THEN Append(Kept(w)[n - 1], w[n])
                           ELSE Kept(w)[n - 1]
<1> DEFINE Turn(n, before) == IF Applies(w, n) THEN Append(before, w[n]) ELSE before
           Unfolds(g, k) ==
             g = [n \in 0 .. k |-> IF n = 0 THEN <<>> ELSE Turn(n, g[n - 1])]
           Bad == {k \in Nat : ~ \E g : Unfolds(g, k)}
<1>1. Kept(w) = CHOOSE g : Unfolds(g, Len(w))
  BY DEF Kept
<1> HIDE DEF Turn
<1>2. Bad = {}
  <2>1. SUFFICES ASSUME Bad # {} PROVE FALSE
    OBVIOUS
  <2>2. PICK k \in Bad : \A m \in Bad : k <= m
    BY <2>1, LeastMember
  <2>3. CASE k = 0
    <3>1. Unfolds([n \in 0 .. 0 |-> <<>>], 0)
      OBVIOUS
    <3>2. QED
      BY <2>2, <2>3, <3>1
  <2>4. CASE k # 0
    <3>1. k - 1 \in Nat /\ k - 1 \notin Bad
      BY <2>2, <2>4
    <3>2. PICK g : Unfolds(g, k - 1)
      BY <3>1
    <3> DEFINE h == [n \in 0 .. k |-> IF n < k THEN g[n] ELSE Turn(k, g[k - 1])]
    <3>3. \A n \in 0 .. k : h[n] = IF n = 0 THEN <<>> ELSE Turn(n, h[n - 1])
      <4>1. TAKE n \in 0 .. k
      <4>2. CASE n = 0
        BY <2>4, <3>1, <3>2, <4>2
      <4>3. CASE n # 0 /\ n < k
        <5>1. n \in 0 .. k - 1 /\ n - 1 \in 0 .. k /\ n - 1 < k
          BY <4>3
        <5>2. g[n] = Turn(n, g[n - 1])
          BY <3>2, <4>3, <5>1
        <5>3. h[n] = g[n] /\ h[n - 1] = g[n - 1]
          BY <4>3, <5>1
        <5>4. QED
          BY <4>3, <5>2, <5>3
      <4>4. CASE n = k
        <5>1. h[k] = Turn(k, g[k - 1]) /\ h[k - 1] = g[k - 1]
          BY <3>1
        <5>2. QED
          BY <2>4, <4>4, <5>1
      <4>5. QED
        BY <4>2, <4>3, <4>4
    <3>4. Unfolds(h, k)
      BY <3>3
    <3>5. QED
      BY <2>2, <3>4
  <2>5. QED
    BY <2>3, <2>4
<1>3. Len(w) \in Nat
  BY LenProperties
<1>4. \E g : Unfolds(g, Len(w))
  BY <1>2, <1>3
<1>5. Unfolds(Kept(w), Len(w))
  <2> HIDE DEF Unfolds
  <2>1. QED
    BY <1>1, <1>4
<1>6. Kept(w)[0] = <<>>
  BY <1>3, <1>5
<1>7. ASSUME NEW n \in 1 .. Len(w)
      PROVE  Kept(w)[n] = Turn(n, Kept(w)[n - 1])
  <2>1. n \in 0 .. Len(w) /\ n # 0
    BY <1>3
  <2>2. PICK g : g = Kept(w)
    OBVIOUS
  <2>3. Unfolds(g, Len(w))
    BY <1>5, <2>2
  <2>4. g[n] = Turn(n, g[n - 1])
    BY <2>1, <2>3
  <2>5. QED
    BY <2>2, <2>4
<1>8. QED
  BY <1>6, <1>7 DEF Turn

\* Concatenation and appending, in either order.
LEMMA AppendToConcat ==
  ASSUME NEW S, NEW s \in Seq(S), NEW t \in Seq(S), NEW e \in S
  PROVE  s \o Append(t, e) = Append(s \o t, e)
OBVIOUS

\* A run of data records after a Begin at b, up to m.
Run(w, b, m) ==
  /\ b \in 1 .. Len(w) /\ m \in b .. Len(w) /\ w[b].kind = "begin"
  /\ \A j \in (b + 1) .. m : w[j].kind = "data"

\* The records of a run are kept if its transaction commits.
LEMMA RunApplies ==
  ASSUME NEW w \in Seq(Whole), NEW b, NEW m, Run(w, b, m), NEW j \in (b + 1) .. m
  PROVE  /\ j \in 1 .. Len(w) /\ j - 1 \in b .. m
         /\ Applies(w, j) <=> Committed(w, b)
<1>1. Len(w) \in Nat
  BY LenProperties
<1>2. /\ j \in 1 .. Len(w) /\ j - 1 \in b .. m /\ b \in 1 .. (j - 1)
      /\ w[b].kind = "begin" /\ w[j].kind = "data"
      /\ \A i \in (b + 1) .. (j - 1) : w[i].kind = "data"
  BY <1>1 DEF Run
<1>3. Opens(w, j) = b
  BY <1>2, OpensIs
<1>4. b # 0 /\ w[b].kind # "commit"
  BY <1>2
<1>5. QED
  BY <1>2, <1>3, <1>4, Zenon DEF Applies

LEMMA RunDropped ==
  ASSUME NEW w \in Seq(Whole), NEW b, NEW m, Run(w, b, m), ~ Committed(w, b)
  PROVE  Kept(w)[m] = Kept(w)[b]
<1> DEFINE Bad == {k \in b .. m : Kept(w)[k] # Kept(w)[b]}
<1>1. Len(w) \in Nat /\ b \in Nat /\ m \in b .. Len(w)
  BY LenProperties DEF Run
<1>2. SUFFICES ASSUME Bad # {} PROVE FALSE
  <2>1. m \in b .. m
    BY <1>1
  <2>2. QED
    BY <2>1
<1>3. PICK k \in Bad : \A n \in Bad : k <= n
  <2>1. Bad \in SUBSET Nat
    BY <1>1
  <2>2. QED
    BY <1>2, <2>1, LeastMember
<1>4. k \in (b + 1) .. m /\ k - 1 \in b .. m /\ ~ (k <= k - 1)
  BY <1>1, <1>3
<1>5. Kept(w)[k - 1] = Kept(w)[b]
  BY <1>3, <1>4
<1>6. k \in 1 .. Len(w) /\ ~ Applies(w, k)
  BY <1>4, RunApplies
<1>7. Kept(w)[k] = Kept(w)[k - 1]
  BY <1>6, KeptUnfolds
<1>8. QED
  BY <1>3, <1>5, <1>7

LEMMA RunTaken ==
  ASSUME NEW w \in Seq(Whole), NEW b, NEW m, Run(w, b, m), Committed(w, b),
         Kept(w)[b] \in Seq(DataRecords), NEW t \in Seq(DataRecords),
         Len(t) = m - b, \A i \in 1 .. (m - b) : t[i] = w[b + i]
  PROVE  Kept(w)[m] = Kept(w)[b] \o t
<1> DEFINE P(k) == SubSeq(t, 1, k - b)
           Bad == {k \in b .. m : Kept(w)[k] # Kept(w)[b] \o P(k)}
<1>1. Len(w) \in Nat /\ b \in Nat /\ m \in b .. Len(w) /\ m \in Nat /\ m - b \in Nat
  BY LenProperties DEF Run
<1>2. P(m) = t
  BY <1>1, SubSeqFull
<1>3. m \in b .. m
  BY <1>1
<1>4. Bad = {}
  <2>1. SUFFICES ASSUME Bad # {} PROVE FALSE
    OBVIOUS
  <2>2. Bad \in SUBSET Nat
    BY <1>1
  <2> HIDE DEF P
  <2>3. PICK k \in Bad : \A n \in Bad : k <= n
    BY <2>1, <2>2, LeastMember
  <2>4. k # b
    <3>1. b - b \in 0 .. Len(t) /\ b - b = 0
      BY <1>1
    <3>2. P(b) \in Seq(DataRecords) /\ Len(P(b)) = 0
      BY <3>1, PrefixProperties DEF P
    <3>3. P(b) = <<>>
      BY <3>2, EmptySeq
    <3>4. Kept(w)[b] \o P(b) = Kept(w)[b]
      BY <3>3, ConcatEmptySeq
    <3>5. QED
      BY <2>3, <3>4
  <2>5. k \in (b + 1) .. m /\ k - 1 \in b .. m /\ ~ (k <= k - 1) /\ k \in Nat
    BY <1>1, <2>3, <2>4
  <2>6. Kept(w)[k - 1] = Kept(w)[b] \o P(k - 1)
    BY <2>3, <2>5
  <2>7. k \in 1 .. Len(w) /\ Applies(w, k)
    BY <2>5, RunApplies
  <2>8. Kept(w)[k] = Append(Kept(w)[k - 1], w[k])
    BY <2>7, KeptUnfolds
  <2>9. /\ P(k - 1) \in Seq(DataRecords) /\ Len(P(k - 1)) = k - 1 - b
        /\ \A i \in 1 .. (k - 1 - b) : P(k - 1)[i] = t[i]
        /\ P(k) \in Seq(DataRecords) /\ Len(P(k)) = k - b
        /\ \A i \in 1 .. (k - b) : P(k)[i] = t[i]
    <3>1. k - 1 - b \in 0 .. Len(t) /\ k - b \in 0 .. Len(t)
      BY <1>1, <2>5
    <3>2. QED
      BY <3>1, PrefixProperties DEF P
  <2>10. w[k] = t[k - b] /\ w[k] \in DataRecords /\ k - b \in 1 .. (k - b)
    <3>1. k - b \in 1 .. (m - b) /\ b + (k - b) = k
      BY <1>1, <2>5
    <3>2. t[k - b] \in DataRecords
      BY <3>1, ElementOfSeq
    <3>3. QED
      BY <3>1, <3>2
  <2>11. P(k) = Append(P(k - 1), w[k])
    <3>1. /\ Append(P(k - 1), w[k]) \in Seq(DataRecords)
          /\ Len(Append(P(k - 1), w[k])) = k - b
          /\ \A i \in 1 .. (k - 1 - b) : Append(P(k - 1), w[k])[i] = P(k - 1)[i]
          /\ Append(P(k - 1), w[k])[k - b] = w[k]
      <4>1. k - 1 - b + 1 = k - b
        BY <1>1, <2>5
      <4>2. QED
        BY <2>9, <2>10, <4>1, AppendProperties
    <3>2. \A i \in 1 .. (k - b) : i = k - b \/ i \in 1 .. (k - 1 - b)
      BY <1>1, <2>5
    <3>3. \A i \in 1 .. (k - b) : P(k)[i] = Append(P(k - 1), w[k])[i]
      BY <2>9, <2>10, <3>1, <3>2
    <3>4. QED
      BY <2>9, <3>1, <3>3, SeqEqual
  <2>12. Kept(w)[b] \o Append(P(k - 1), w[k]) = Append(Kept(w)[b] \o P(k - 1), w[k])
    <3>1. PICK a \in Seq(DataRecords), q \in Seq(DataRecords), v \in DataRecords :
            a = Kept(w)[b] /\ q = P(k - 1) /\ v = w[k]
      BY <2>9, <2>10, Zenon
    <3>2. a \o Append(q, v) = Append(a \o q, v)
      BY AppendToConcat
    <3>3. QED
      BY <3>1, <3>2
  <2>13. QED
    BY <2>3, <2>6, <2>8, <2>11, <2>12
<1>5. Kept(w)[m] = Kept(w)[b] \o P(m)
  BY <1>3, <1>4
<1>6. QED
  BY <1>2, <1>5


\* What the transactions lost are once a run has begun.
LEMMA LostProperties ==
  ASSUME NEW w \in Seq(Whole), NEW n \in 0 .. Len(w)
  PROVE  IsFiniteSet(Lost(w, n)) /\ Cardinality(Lost(w, n)) \in Nat
<1>1. n \in Int /\ 1 \in Int
  BY LenProperties
<1>2. IsFiniteSet(1 .. n)
  BY <1>1, FS_Interval
<1>3. Lost(w, n) \subseteq 1 .. n
  BY DEF Lost
<1>4. QED
  BY <1>2, <1>3, FS_Subset, FS_CardinalityType

LEMMA LostSame ==
  ASSUME NEW w \in Seq(Whole), NEW n \in 1 .. Len(w), w[n].kind # "begin"
  PROVE  Lost(w, n) = Lost(w, n - 1)
<1>1. Len(w) \in Nat
  BY LenProperties
<1>2. 1 .. n = (1 .. (n - 1)) \cup {n}
  BY <1>1
<1>3. QED
  BY <1>2 DEF Lost

LEMMA RunLost ==
  ASSUME NEW w \in Seq(Whole), NEW b, NEW m, Run(w, b, m)
  PROVE  /\ b - 1 \in 0 .. Len(w)
         /\ Committed(w, b) => Lost(w, m) = Lost(w, b - 1)
         /\ ~ Committed(w, b) =>
              Cardinality(Lost(w, m)) = Cardinality(Lost(w, b - 1)) + 1
<1>1. Len(w) \in Nat /\ b \in 1 .. Len(w) /\ m \in b .. Len(w)
  BY LenProperties DEF Run
<1>2. ASSUME NEW x \in 1 .. m, w[x].kind = "begin" PROVE x = b \/ x \in 1 .. (b - 1)
  <2>1. x \notin (b + 1) .. m
    BY <1>2 DEF Run
  <2>2. QED
    BY <1>1, <2>1
<1>3. \A x \in 1 .. (b - 1) : x \in 1 .. m /\ x # b
  BY <1>1
<1>4. b \in 1 .. m /\ b - 1 \in 0 .. Len(w) /\ w[b].kind = "begin" /\ b \notin 1 .. (b - 1)
  BY <1>1 DEF Run
<1>5. Lost(w, m) = Lost(w, b - 1) \cup (IF Committed(w, b) THEN {} ELSE {b})
  BY <1>2, <1>3, <1>4 DEF Lost
<1>6. ASSUME ~ Committed(w, b)
      PROVE  Cardinality(Lost(w, m)) = Cardinality(Lost(w, b - 1)) + 1
  <2>1. Lost(w, m) = Lost(w, b - 1) \cup {b}
    BY <1>5, <1>6
  <2>2. b \notin Lost(w, b - 1)
    BY <1>4 DEF Lost
  <2>3. IsFiniteSet(Lost(w, b - 1))
    BY <1>4, LostProperties
  <2>4. QED
    BY <2>1, <2>2, <2>3, FS_AddElement
<1>7. QED
  BY <1>4, <1>5, <1>6

\* A run that ends in a Begin, or with the file, does not commit.
LEMMA RunAbandoned ==
  ASSUME NEW w \in Seq(Whole), NEW b, NEW m, Run(w, b, m),
         m < Len(w) => w[m + 1].kind = "begin"
  PROVE  ~ Committed(w, b)
<1> DEFINE c == b + w[b].count + 1
<1>1. /\ Len(w) \in Nat /\ b \in 1 .. Len(w) /\ m \in b .. Len(w)
      /\ DOMAIN w = 1 .. Len(w) /\ w[b].kind = "begin"
      /\ \A j \in (b + 1) .. m : w[j].kind = "data"
  BY LenProperties DEF Run
<1>2. w[b].count \in Nat
  <2>1. w[b] \in BeginRecords
    BY <1>1, WholeKinds
  <2>2. QED
    BY <2>1 DEF BeginRecords
<1> SUFFICES ASSUME Committed(w, b) PROVE FALSE
  OBVIOUS
<1>3. /\ c \in DOMAIN w /\ w[c].kind = "commit"
      /\ Markers(w) \cap (b + 1) .. (c - 1) = {}
  BY DEF Committed
<1>4. c \in Nat /\ b < c
  BY <1>1, <1>2
<1> HIDE DEF c
<1>5. c \notin (b + 1) .. m
  BY <1>1, <1>3
<1>6. m < c /\ m < Len(w)
  BY <1>1, <1>3, <1>4, <1>5
<1>7. w[m + 1].kind = "begin" /\ m + 1 \in DOMAIN w
  BY <1>1, <1>6
<1>8. m + 1 \in Markers(w)
  BY <1>7 DEF Markers
<1>9. m + 1 # c
  BY <1>3, <1>7
<1>10. m + 1 \in (b + 1) .. (c - 1)
  BY <1>1, <1>4, <1>6, <1>9
<1>11. QED
  BY <1>3, <1>8, <1>10

\* A run that ends in a Commit commits if the Commit accepts what the run left
\* in the buffer.
LEMMA RunCommits ==
  ASSUME NEW w \in Seq(Whole), NEW b, NEW n, n \in 1 .. Len(w), Run(w, b, n - 1),
         w[n].kind = "commit", NEW t \in Buffers, t.active = TRUE,
         t.id = w[b].id, t.count = w[b].count, Len(t.records) = n - 1 - b,
         \A i \in 1 .. (n - 1 - b) : t.records[i] = w[b + i]
  PROVE  Accepts(t, w[n]) <=> Committed(w, b)
<1> DEFINE c == b + w[b].count + 1
           k == w[b].count
<1>1. /\ Len(w) \in Nat /\ b \in 1 .. Len(w) /\ n - 1 \in b .. Len(w) /\ n \in Nat
      /\ DOMAIN w = 1 .. Len(w) /\ w[b].kind = "begin"
      /\ \A j \in (b + 1) .. (n - 1) : w[j].kind = "data"
  BY LenProperties DEF Run
<1>2. k \in Nat
  <2>1. w[b] \in BeginRecords
    BY <1>1, WholeKinds
  <2>2. QED
    BY <2>1 DEF BeginRecords
<1>3. t.records \in Seq(DataRecords) /\ DOMAIN t.records = 1 .. (n - 1 - b)
  <2>1. t.records \in Seq(DataRecords)
    BY DEF Buffers
  <2>2. QED
    BY <2>1, LenProperties
<1>4. Payloads(t.records) = [i \in 1 .. (n - 1 - b) |-> w[b + i].op]
  BY <1>3 DEF Payloads
<1>5. Committed(w, b) <=>
        /\ c \in DOMAIN w /\ w[c].kind = "commit"
        /\ w[c].id = w[b].id /\ w[c].count = k
        /\ Markers(w) \cap (b + 1) .. (c - 1) = {}
        /\ w[c].chain = [i \in 1 .. k |-> w[b + i].op]
  BY DEF Committed
<1>6. ASSUME Accepts(t, w[n]) PROVE Committed(w, b)
  <2>1. /\ w[n].id = w[b].id /\ w[n].count = k /\ w[n].count = n - 1 - b
        /\ w[n].chain = Payloads(t.records)
    BY <1>6 DEF Accepts
  <2>2. c = n /\ k = n - 1 - b
    BY <1>1, <1>2, <2>1
  <2>3. Markers(w) \cap (b + 1) .. (n - 1) = {}
    BY <1>1 DEF Markers
  <2> HIDE DEF c, k
  <2>4. QED
    BY <1>1, <1>4, <1>5, <2>1, <2>2, <2>3
<1>7. ASSUME Committed(w, b) PROVE Accepts(t, w[n])
  <2>1. /\ c \in DOMAIN w /\ w[c].kind = "commit"
        /\ w[c].id = w[b].id /\ w[c].count = k
        /\ Markers(w) \cap (b + 1) .. (c - 1) = {}
        /\ w[c].chain = [i \in 1 .. k |-> w[b + i].op]
    BY <1>5, <1>7
  <2>2. c \in Nat /\ b < c
    BY <1>1, <1>2
  <2>3. n \in Markers(w)
    BY <1>1 DEF Markers
  <2>4. c = n
    <3> HIDE DEF c, k
    <3>1. ~ (c < n)
      BY <1>1, <2>1, <2>2
    <3>2. ~ (n < c)
      BY <1>1, <2>1, <2>2, <2>3
    <3>3. QED
      BY <1>1, <2>2, <3>1, <3>2
  <2>5. k = n - 1 - b
    BY <1>1, <1>2, <2>4
  <2> HIDE DEF c, k
  <2>6. QED
    BY <1>4, <2>1, <2>4, <2>5 DEF Accepts, k
<1>8. QED
  BY <1>6, <1>7

\* No Commit is among the records but that of the transaction the last Begin
\* before it opened.
Begun(q) ==
  \A n \in 1 .. Len(q) : q[n].kind = "commit" =>
    \E m \in 1 .. (n - 1) : /\ q[m].kind = "begin"
                            /\ \A j \in (m + 1) .. (n - 1) : q[j].kind = "data"

\* Every Begin among the first n records is followed by a Commit.
Closed(w, n) ==
  \A m \in 1 .. n : w[m].kind = "begin" => \E c \in (m + 1) .. n : w[c].kind = "commit"

\* A transaction is in the buffer: it holds the run since its Begin, and what
\* was found before is what is kept before it.
InBuffer(w, n, s, b) ==
  /\ Run(w, b, n) /\ s.transaction.id = w[b].id /\ s.transaction.count = w[b].count
  /\ Len(s.transaction.records) = n - b
  /\ \A i \in 1 .. (n - b) : s.transaction.records[i] = w[b + i]
  /\ s.records = Kept(w)[b]
  /\ s.unfinished = Cardinality(Lost(w, b - 1))

\* What the loop has found after n records, in terms of the file.
FoundAfter(w, n, s) ==
  /\ s \in ScanFields
  /\ s.transaction.active = TRUE => \E b : InBuffer(w, n, s, b)
  /\ s.transaction.active = FALSE => /\ s.records = Kept(w)[n] /\ Closed(w, n)
                                     /\ s.unfinished = Cardinality(Lost(w, n))

LEMMA FoundAtBegin ==
  ASSUME NEW w \in Seq(Whole), NEW n \in 1 .. Len(w), w[n].kind = "begin",
         NEW s, FoundAfter(w, n - 1, s), NEW t, t = ScanRecord(s, w[n])
  PROVE  FoundAfter(w, n, t)
<1>1. /\ w[n] \in Whole /\ w[n] \in BeginRecords /\ Len(w) \in Nat
      /\ n - 1 \in 0 .. Len(w) /\ n - n = 0 /\ 1 .. 0 = {}
  BY WholeKinds
<1>2. s \in ScanFields /\ s.transaction.active \in BOOLEAN
  BY DEF FoundAfter, ScanFields, Buffers
<1>3. Scanned(s, w[n], t)
  BY <1>1, <1>2, ScanStep
<1>4. /\ t \in ScanFields /\ t.records = s.records
      /\ t.transaction = Started(w[n])
  BY <1>1, <1>3 DEF Scanned
<1>5. /\ t.transaction.active = TRUE /\ t.transaction.id = w[n].id
      /\ t.transaction.count = w[n].count /\ t.transaction.records = <<>>
  BY <1>4 DEF Started
<1>6. t.unfinished = s.unfinished + (IF s.transaction.active = TRUE THEN 1 ELSE 0)
  BY <1>1, <1>2, UnfinishedStep
<1>7. Kept(w)[n] = Kept(w)[n - 1]
  <2>1. ~ Applies(w, n)
    BY DEF Applies
  <2>2. QED
    BY <2>1, KeptUnfolds
<1>8. Run(w, n, n)
  BY <1>1 DEF Run
<1>9. s.records = Kept(w)[n - 1] /\ t.unfinished = Cardinality(Lost(w, n - 1))
  <2>1. CASE s.transaction.active = FALSE
    <3>1. s.unfinished = Cardinality(Lost(w, n - 1)) /\ s.records = Kept(w)[n - 1]
      BY <2>1 DEF FoundAfter
    <3>2. Cardinality(Lost(w, n - 1)) \in Nat
      BY <1>1, LostProperties
    <3>3. QED
      BY <1>6, <2>1, <3>1, <3>2
  <2>2. CASE s.transaction.active = TRUE
    <3>1. PICK b : InBuffer(w, n - 1, s, b)
      BY <2>2 DEF FoundAfter
    <3>2. /\ Run(w, b, n - 1) /\ s.records = Kept(w)[b]
          /\ s.unfinished = Cardinality(Lost(w, b - 1))
      BY <3>1 DEF InBuffer
    <3>3. ~ Committed(w, b)
      <4>1. n - 1 + 1 = n
        BY <1>1
      <4>2. n - 1 < Len(w) => w[n - 1 + 1].kind = "begin"
        BY <4>1
      <4>3. QED
        BY <3>2, <4>2, RunAbandoned
    <3>4. Kept(w)[n - 1] = Kept(w)[b]
      BY <3>2, <3>3, RunDropped
    <3>5. Cardinality(Lost(w, n - 1)) = Cardinality(Lost(w, b - 1)) + 1
      BY <3>2, <3>3, RunLost
    <3>6. QED
      BY <1>6, <2>2, <3>2, <3>4, <3>5
  <2>3. QED
    BY <1>2, <2>1, <2>2
<1>10. InBuffer(w, n, t, n)
  BY <1>1, <1>4, <1>5, <1>7, <1>8, <1>9 DEF InBuffer
<1>11. QED
  BY <1>4, <1>5, <1>10 DEF FoundAfter

LEMMA FoundAtData ==
  ASSUME NEW w \in Seq(Whole), NEW n \in 1 .. Len(w), w[n].kind = "data",
         NEW s, FoundAfter(w, n - 1, s), NEW t, t = ScanRecord(s, w[n])
  PROVE  FoundAfter(w, n, t)
<1>1. /\ w[n] \in Whole /\ w[n] \in DataRecords /\ Len(w) \in Nat
      /\ n - 1 \in 0 .. Len(w)
  BY WholeKinds
<1>2. s \in ScanFields /\ s.transaction.active \in BOOLEAN /\ s.transaction \in Buffers
  BY DEF FoundAfter, ScanFields, Buffers
<1>3. Scanned(s, w[n], t)
  BY <1>1, <1>2, ScanStep
<1>4. t \in ScanFields /\ t.unfinished = s.unfinished
  BY <1>1, <1>2, <1>3, UnfinishedStep DEF Scanned
<1>5. CASE s.transaction.active = TRUE
  <2>1. t.records = s.records /\ t.transaction = Taken(s.transaction, w[n])
    BY <1>1, <1>3, <1>5 DEF Scanned
  <2>2. PICK b : InBuffer(w, n - 1, s, b)
    BY <1>5 DEF FoundAfter
  <2>3. /\ Run(w, b, n - 1) /\ s.transaction.id = w[b].id
        /\ s.transaction.count = w[b].count
        /\ Len(s.transaction.records) = n - 1 - b
        /\ \A i \in 1 .. (n - 1 - b) : s.transaction.records[i] = w[b + i]
        /\ s.records = Kept(w)[b] /\ s.unfinished = Cardinality(Lost(w, b - 1))
    BY <2>2 DEF InBuffer
  <2>4. b \in 1 .. Len(w) /\ b <= n - 1 /\ b \in Nat
    BY <1>1, <2>3 DEF Run
  <2>5. Run(w, b, n)
    BY <1>1, <2>3, <2>4 DEF Run
  <2>6. /\ t.transaction.active = TRUE /\ t.transaction.id = s.transaction.id
        /\ t.transaction.count = s.transaction.count
        /\ t.transaction.records = Append(s.transaction.records, w[n])
    BY <1>2, <1>5, <2>1 DEF Taken, Buffers
  <2>7. s.transaction.records \in Seq(DataRecords)
    BY <1>2 DEF Buffers
  <2>8. /\ Len(t.transaction.records) = n - b
        /\ \A i \in 1 .. (n - b) : t.transaction.records[i] = w[b + i]
    <3>1. /\ Len(t.transaction.records) = n - 1 - b + 1
          /\ \A i \in 1 .. (n - 1 - b) :
               t.transaction.records[i] = s.transaction.records[i]
          /\ t.transaction.records[n - 1 - b + 1] = w[n]
      BY <1>1, <2>3, <2>6, <2>7, AppendProperties
    <3>2. n - 1 - b + 1 = n - b /\ b + (n - b) = n
      BY <1>1, <2>4
    <3>3. \A i \in 1 .. (n - b) : i = n - b \/ i \in 1 .. (n - 1 - b)
      BY <1>1, <2>4
    <3>4. QED
      BY <2>3, <3>1, <3>2, <3>3
  <2>9. InBuffer(w, n, t, b)
    BY <1>4, <2>1, <2>3, <2>5, <2>6, <2>8 DEF InBuffer
  <2>10. QED
    BY <1>4, <2>6, <2>9 DEF FoundAfter
<1>6. CASE s.transaction.active = FALSE
  <2>1. t.records = Append(s.records, w[n]) /\ t.transaction = s.transaction
    BY <1>1, <1>3, <1>6 DEF Scanned
  <2>2. /\ s.records = Kept(w)[n - 1] /\ Closed(w, n - 1)
        /\ s.unfinished = Cardinality(Lost(w, n - 1))
    BY <1>6 DEF FoundAfter
  <2>3. PICK b : b = Opens(w, n)
    OBVIOUS
  <2>4. /\ b \in 0 .. (n - 1) /\ (b # 0 => w[b].kind # "data")
        /\ \A m \in (b + 1) .. (n - 1) : w[m].kind = "data"
    BY <2>3, OpensProperty
  <2>5. ASSUME b # 0 PROVE w[b].kind = "commit"
    <3>1. b \in 1 .. Len(w) /\ b \in 1 .. (n - 1)
      BY <1>1, <2>4, <2>5
    <3>2. w[b].kind # "begin"
      <4>1. SUFFICES ASSUME w[b].kind = "begin" PROVE FALSE
        OBVIOUS
      <4>2. PICK c \in (b + 1) .. (n - 1) : w[c].kind = "commit"
        BY <2>2, <3>1, <4>1 DEF Closed
      <4>3. w[c].kind = "data"
        BY <2>4
      <4>4. QED
        BY <4>2, <4>3
    <3>3. w[b].kind \in {"begin", "data", "commit"}
      BY <3>1, WholeKinds
    <3>4. QED
      BY <2>4, <2>5, <3>2, <3>3
  <2>6. Applies(w, n)
    BY <2>3, <2>5, Zenon DEF Applies
  <2>7. t.records = Kept(w)[n]
    BY <2>1, <2>2, <2>6, KeptUnfolds
  <2>8. Closed(w, n)
    <3>1. ASSUME NEW m \in 1 .. n, w[m].kind = "begin"
          PROVE  \E c \in (m + 1) .. n : w[c].kind = "commit"
      <4>1. m \in 1 .. (n - 1)
        BY <1>1, <3>1
      <4>2. PICK c \in (m + 1) .. (n - 1) : w[c].kind = "commit"
        BY <2>2, <3>1, <4>1 DEF Closed
      <4>3. c \in (m + 1) .. n
        BY <1>1, <4>1
      <4>4. QED
        BY <4>2, <4>3
    <3>2. QED
      BY <3>1 DEF Closed
  <2>9. Lost(w, n) = Lost(w, n - 1)
    BY LostSame
  <2>10. QED
    BY <1>4, <1>6, <2>1, <2>2, <2>7, <2>8, <2>9 DEF FoundAfter
<1>7. QED
  BY <1>2, <1>5, <1>6

LEMMA FoundAtCommit ==
  ASSUME NEW w \in Seq(Whole), Begun(w), NEW n \in 1 .. Len(w), w[n].kind = "commit",
         NEW s, FoundAfter(w, n - 1, s), NEW t, t = ScanRecord(s, w[n])
  PROVE  FoundAfter(w, n, t)
<1>1. /\ w[n] \in Whole /\ w[n] \in CommitRecords /\ Len(w) \in Nat
      /\ n - 1 \in 0 .. Len(w)
  BY WholeKinds
<1>2. s \in ScanFields /\ s.transaction.active \in BOOLEAN /\ s.transaction \in Buffers
  BY DEF FoundAfter, ScanFields, Buffers
<1>3. Scanned(s, w[n], t)
  BY <1>1, <1>2, ScanStep
<1>4. t \in ScanFields /\ t.transaction = NoTransaction
  BY <1>1, <1>3 DEF Scanned
<1>5. t.unfinished = s.unfinished + (IF Accepts(s.transaction, w[n]) THEN 0 ELSE 1)
  BY <1>1, <1>2, UnfinishedStep
<1>6. t.transaction.active = FALSE
  BY <1>4 DEF NoTransaction
<1>7. s.transaction.active = TRUE
  <2>1. SUFFICES ASSUME s.transaction.active = FALSE PROVE FALSE
    BY <1>2
  <2>2. Closed(w, n - 1)
    BY <2>1 DEF FoundAfter
  <2>3. PICK m \in 1 .. (n - 1) : /\ w[m].kind = "begin"
                                  /\ \A j \in (m + 1) .. (n - 1) : w[j].kind = "data"
    BY DEF Begun
  <2>4. PICK c \in (m + 1) .. (n - 1) : w[c].kind = "commit"
    BY <2>2, <2>3 DEF Closed
  <2>5. w[c].kind = "data"
    BY <2>3
  <2>6. QED
    BY <2>4, <2>5
<1>8. PICK b : InBuffer(w, n - 1, s, b)
  BY <1>7 DEF FoundAfter
<1>9. /\ Run(w, b, n - 1) /\ s.transaction.id = w[b].id
      /\ s.transaction.count = w[b].count
      /\ Len(s.transaction.records) = n - 1 - b
      /\ \A i \in 1 .. (n - 1 - b) : s.transaction.records[i] = w[b + i]
      /\ s.records = Kept(w)[b] /\ s.unfinished = Cardinality(Lost(w, b - 1))
  BY <1>8 DEF InBuffer
<1>10. Accepts(s.transaction, w[n]) <=> Committed(w, b)
  BY <1>2, <1>7, <1>9, RunCommits
<1>11. Kept(w)[n] = Kept(w)[n - 1] /\ Lost(w, n) = Lost(w, n - 1)
  <2>1. ~ Applies(w, n)
    BY DEF Applies
  <2>2. QED
    BY <2>1, KeptUnfolds, LostSame
<1>12. b - 1 \in 0 .. Len(w) /\ Cardinality(Lost(w, b - 1)) \in Nat
  BY <1>9, RunLost, LostProperties
<1>13. t.records = Kept(w)[n] /\ t.unfinished = Cardinality(Lost(w, n))
  <2>1. CASE Accepts(s.transaction, w[n])
    <3>1. Committed(w, b) /\ t.records = s.records \o s.transaction.records
      BY <1>1, <1>3, <1>10, <2>1 DEF Scanned
    <3>2. s.records \in Seq(DataRecords) /\ s.transaction.records \in Seq(DataRecords)
      BY <1>2 DEF ScanFields, Buffers
    <3>3. Kept(w)[n - 1] = Kept(w)[b] \o s.transaction.records
      BY <1>9, <3>1, <3>2, RunTaken
    <3>4. Lost(w, n - 1) = Lost(w, b - 1)
      BY <1>9, <3>1, RunLost
    <3>5. QED
      BY <1>5, <1>9, <1>11, <1>12, <2>1, <3>1, <3>3, <3>4
  <2>2. CASE ~ Accepts(s.transaction, w[n])
    <3>1. ~ Committed(w, b) /\ t.records = s.records
      BY <1>1, <1>3, <1>10, <2>2 DEF Scanned
    <3>2. Kept(w)[n - 1] = Kept(w)[b]
      BY <1>9, <3>1, RunDropped
    <3>3. Cardinality(Lost(w, n - 1)) = Cardinality(Lost(w, b - 1)) + 1
      BY <1>9, <3>1, RunLost
    <3>4. QED
      BY <1>5, <1>9, <1>11, <2>2, <3>1, <3>2, <3>3
  <2>3. QED
    BY <2>1, <2>2
<1>14. Closed(w, n)
  <2>1. ASSUME NEW m \in 1 .. n, w[m].kind = "begin"
        PROVE  \E c \in (m + 1) .. n : w[c].kind = "commit"
    <3>1. m # n
      BY <2>1
    <3>2. n \in (m + 1) .. n
      BY <1>1, <3>1
    <3>3. QED
      BY <3>2
  <2>2. QED
    BY <2>1 DEF Closed
<1>15. QED
  BY <1>4, <1>6, <1>13, <1>14 DEF FoundAfter

\* The loop, record by record, has found what is kept of the file, and so it
\* has at the end.
LEMMA ScanFollowsFile ==
  ASSUME NEW w \in Seq(Whole), Begun(w), NEW s, s = ScanState(w)
  PROVE  /\ s.records = Kept(w)[Len(w)]
         /\ s.unfinished + (IF s.transaction.active THEN 1 ELSE 0)
              = Cardinality(Lost(w, Len(w)))
<1> DEFINE N == Len(w)
           Bad == {n \in 0 .. N : ~ FoundAfter(w, n, ScanStates(w)[n])}
<1>1. N \in Nat /\ N \in 0 .. N
  BY LenProperties
<1>2. FoundAfter(w, 0, ScanStates(w)[0])
  <2>1. ScanStates(w)[0] = ScanStart
    BY ScanUnfolds
  <2>2. /\ ScanStart.transaction.active = FALSE /\ ScanStart.records = <<>>
        /\ ScanStart.unfinished = 0
    BY DEF ScanStart, NoTransaction
  <2>3. ScanStart \in ScanFields
    <3>1. <<>> \in Seq(DataRecords)
      BY EmptySeq
    <3>2. NoTransaction \in Buffers
      BY <3>1 DEF NoTransaction, Buffers
    <3>3. QED
      BY <3>1, <3>2 DEF ScanStart, ScanFields
  <2>4. Kept(w)[0] = <<>>
    BY KeptUnfolds
  <2>5. Lost(w, 0) = {} /\ Closed(w, 0)
    BY DEF Lost, Closed
  <2>6. Cardinality(Lost(w, 0)) = 0
    BY <2>5, FS_EmptySet
  <2>7. QED
    BY <2>1, <2>2, <2>3, <2>4, <2>5, <2>6 DEF FoundAfter
<1>3. ASSUME NEW n \in 1 .. N, FoundAfter(w, n - 1, ScanStates(w)[n - 1])
      PROVE  FoundAfter(w, n, ScanStates(w)[n])
  <2>1. ScanStates(w)[n] = ScanRecord(ScanStates(w)[n - 1], w[n])
    BY ScanUnfolds
  <2>2. w[n].kind \in {"begin", "data", "commit"}
    BY WholeKinds
  <2>3. CASE w[n].kind = "begin"
    BY <1>3, <2>1, <2>3, FoundAtBegin
  <2>4. CASE w[n].kind = "data"
    BY <1>3, <2>1, <2>4, FoundAtData
  <2>5. CASE w[n].kind = "commit"
    BY <1>3, <2>1, <2>5, FoundAtCommit
  <2>6. QED
    BY <2>2, <2>3, <2>4, <2>5
<1>4. Bad = {}
  <2>1. SUFFICES ASSUME Bad # {} PROVE FALSE
    OBVIOUS
  <2>2. Bad \in SUBSET Nat
    BY <1>1
  <2>3. PICK n \in Bad : \A m \in Bad : n <= m
    BY <2>1, <2>2, LeastMember
  <2>4. n \in 1 .. N /\ n - 1 \in 0 .. N /\ ~ (n <= n - 1)
    BY <1>1, <1>2, <2>3
  <2>5. FoundAfter(w, n - 1, ScanStates(w)[n - 1])
    BY <2>3, <2>4
  <2>6. QED
    BY <1>3, <2>3, <2>4, <2>5
<1>5. FoundAfter(w, N, s)
  BY <1>1, <1>4 DEF ScanState
<1>6. s.transaction.active \in BOOLEAN /\ Cardinality(Lost(w, N)) \in Nat
  BY <1>1, <1>5, LostProperties DEF FoundAfter, ScanFields, Buffers
<1>7. CASE s.transaction.active = FALSE
  BY <1>5, <1>6, <1>7 DEF FoundAfter
<1>8. CASE s.transaction.active = TRUE
  <2>1. PICK b : InBuffer(w, N, s, b)
    BY <1>5, <1>8 DEF FoundAfter
  <2>2. /\ Run(w, b, N) /\ s.records = Kept(w)[b]
        /\ s.unfinished = Cardinality(Lost(w, b - 1))
    BY <2>1 DEF InBuffer
  <2>3. ~ Committed(w, b)
    BY <1>1, <2>2, RunAbandoned
  <2>4. Kept(w)[N] = Kept(w)[b]
    BY <2>2, <2>3, RunDropped
  <2>5. Cardinality(Lost(w, N)) = Cardinality(Lost(w, b - 1)) + 1
    BY <2>2, <2>3, RunLost
  <2>6. QED
    BY <1>8, <2>2, <2>4, <2>5
<1>9. QED
  BY <1>6, <1>7, <1>8

\* A call appends its records in one run, so every Commit in the file, or still
\* to be appended to it, is that of the last Begin before it.
BegunInv == TypeInv /\ Begun(recs \o pending)

LEMMA BegunPrefix ==
  ASSUME NEW q \in Seq(Records), NEW p \in Seq(Records), Len(p) <= Len(q),
         \A i \in 1 .. Len(p) : p[i] = q[i], Begun(q)
  PROVE  Begun(p)
<1>1. Len(p) \in Nat /\ Len(q) \in Nat
  BY LenProperties
<1>2. ASSUME NEW n \in 1 .. Len(p), p[n].kind = "commit"
      PROVE  \E m \in 1 .. (n - 1) : /\ p[m].kind = "begin"
                                     /\ \A j \in (m + 1) .. (n - 1) : p[j].kind = "data"
  <2>1. n \in 1 .. Len(q) /\ q[n].kind = "commit"
    BY <1>1, <1>2
  <2>2. PICK m \in 1 .. (n - 1) : /\ q[m].kind = "begin"
                                  /\ \A j \in (m + 1) .. (n - 1) : q[j].kind = "data"
    BY <2>1 DEF Begun
  <2>3. m \in 1 .. Len(p) /\ \A j \in (m + 1) .. (n - 1) : j \in 1 .. Len(p)
    BY <1>1
  <2>4. p[m].kind = "begin" /\ \A j \in (m + 1) .. (n - 1) : p[j].kind = "data"
    BY <2>2, <2>3
  <2>5. QED
    BY <2>4
<1>3. QED
  BY <1>2 DEF Begun

\* Anything but a Commit may follow.
LEMMA BegunAppend ==
  ASSUME NEW p \in Seq(Records), Begun(p), NEW rec \in Records, rec.kind # "commit",
         NEW q, q = Append(p, rec)
  PROVE  q \in Seq(Records) /\ Begun(q)
<1>1. /\ q \in Seq(Records) /\ Len(q) = Len(p) + 1 /\ Len(p) \in Nat
      /\ q[Len(p) + 1] = rec /\ \A i \in 1 .. Len(p) : q[i] = p[i]
  BY AppendProperties, LenProperties
<1>2. ASSUME NEW n \in 1 .. Len(q), q[n].kind = "commit"
      PROVE  \E m \in 1 .. (n - 1) : /\ q[m].kind = "begin"
                                     /\ \A j \in (m + 1) .. (n - 1) : q[j].kind = "data"
  <2>1. n \in 1 .. Len(p) /\ p[n].kind = "commit"
    BY <1>1, <1>2
  <2>2. PICK m \in 1 .. (n - 1) : /\ p[m].kind = "begin"
                                  /\ \A j \in (m + 1) .. (n - 1) : p[j].kind = "data"
    BY <2>1 DEF Begun
  <2>3. m \in 1 .. Len(p) /\ \A j \in (m + 1) .. (n - 1) : j \in 1 .. Len(p)
    BY <1>1, <2>1
  <2>4. q[m].kind = "begin" /\ \A j \in (m + 1) .. (n - 1) : q[j].kind = "data"
    BY <1>1, <2>2, <2>3
  <2>5. QED
    BY <2>4
<1>3. QED
  BY <1>1, <1>2 DEF Begun

\* A transaction may follow as a whole.
LEMMA BegunTransaction ==
  ASSUME TypeInv, Begun(recs), NEW ops \in Seq(Ops)
  PROVE  Begun(recs \o TransactionRecords(ops))
<1>1. PICK t : t = TransactionRecords(ops)
  OBVIOUS
<1>2. nextSeq \in Nat /\ recs \in Seq(Records)
  BY DEF TypeInv
<1>3. /\ t \in Seq(Whole) /\ Len(t) = Len(ops) + 2 /\ Len(ops) \in Nat /\ Len(recs) \in Nat
      /\ \A i \in 1 .. Len(t) : t[i] = CallRecord(nextSeq, ops, i)
  BY <1>1, <1>2, TransactionRecordsProperties, LenProperties
<1>4. t \in Seq(Records)
  BY <1>3, ReadableOfWhole
<1> DEFINE q == recs \o t
           N == Len(recs)
           k == Len(ops)
<1>5. /\ q \in Seq(Records) /\ Len(q) = N + (k + 2)
      /\ \A i \in 1 .. N : q[i] = recs[i]
      /\ \A i \in 1 .. (k + 2) : q[N + i] = CallRecord(nextSeq, ops, i)
  <2>1. /\ q \in Seq(Records) /\ Len(q) = Len(recs) + Len(t)
        /\ \A i \in 1 .. (Len(recs) + Len(t)) :
             q[i] = IF i <= Len(recs) THEN recs[i] ELSE t[i - Len(recs)]
    BY <1>2, <1>4, ConcatProperties
  <2>2. \A i \in 1 .. N : i \in 1 .. (Len(recs) + Len(t)) /\ i <= Len(recs)
    BY <1>3
  <2>3. \A i \in 1 .. (k + 2) : /\ N + i \in 1 .. (Len(recs) + Len(t))
                                /\ ~ (N + i <= Len(recs)) /\ N + i - Len(recs) = i
    BY <1>3
  <2> HIDE DEF q
  <2>4. \A i \in 1 .. (k + 2) : q[N + i] = t[i]
    BY <2>1, <2>3
  <2>5. QED
    BY <1>3, <2>1, <2>2, <2>4
<1> HIDE DEF q
<1>6. /\ \A i \in 1 .. (k + 2) : i \in {1} \cup 2 .. (k + 1) \cup {k + 2}
      /\ CallRecord(nextSeq, ops, 1).kind = "begin"
      /\ \A i \in 2 .. (k + 1) : CallRecord(nextSeq, ops, i).kind = "data"
  BY <1>3 DEF CallRecord, BeginRecord, DataRecord
<1>7. ASSUME NEW n \in 1 .. Len(q), q[n].kind = "commit"
      PROVE  \E m \in 1 .. (n - 1) : /\ q[m].kind = "begin"
                                     /\ \A j \in (m + 1) .. (n - 1) : q[j].kind = "data"
  <2>1. CASE n \in 1 .. N
    <3>1. recs[n].kind = "commit"
      BY <1>5, <1>7, <2>1
    <3>2. PICK m \in 1 .. (n - 1) : /\ recs[m].kind = "begin"
                                    /\ \A j \in (m + 1) .. (n - 1) : recs[j].kind = "data"
      BY <2>1, <3>1 DEF Begun
    <3>3. m \in 1 .. N /\ \A j \in (m + 1) .. (n - 1) : j \in 1 .. N
      BY <1>3, <2>1
    <3>4. q[m].kind = "begin" /\ \A j \in (m + 1) .. (n - 1) : q[j].kind = "data"
      BY <1>5, <3>2, <3>3
    <3>5. QED
      BY <3>4
  <2>2. CASE n \notin 1 .. N
    <3>1. n - N \in 1 .. (k + 2) /\ N + (n - N) = n
      BY <1>3, <1>5, <2>2
    <3>2. CallRecord(nextSeq, ops, n - N).kind = "commit"
      BY <1>5, <1>7, <3>1
    <3>3. n - N = k + 2
      BY <1>6, <3>1, <3>2
    <3>4. N + 1 \in 1 .. (n - 1) /\ q[N + 1].kind = "begin"
      BY <1>3, <1>5, <1>6, <3>3
    <3>5. ASSUME NEW j \in (N + 1 + 1) .. (n - 1) PROVE q[j].kind = "data"
      <4>1. j - N \in 2 .. (k + 1) /\ j - N \in 1 .. (k + 2) /\ N + (j - N) = j
        BY <1>3, <3>3
      <4>2. q[N + (j - N)] = CallRecord(nextSeq, ops, j - N)
        BY <1>5, <4>1
      <4>3. CallRecord(nextSeq, ops, j - N).kind = "data"
        BY <1>6, <4>1
      <4>4. QED
        BY <4>1, <4>2, <4>3
    <3>6. QED
      BY <3>4, <3>5
  <2>3. QED
    BY <2>1, <2>2
<1>8. Begun(q)
  BY <1>7 DEF Begun
<1>9. QED
  BY <1>1, <1>8 DEF q

\* Whatever is cut off, what is left has begun.
LEMMA BegunCut ==
  ASSUME TypeInv, Begun(recs), NEW tearing \in BOOLEAN, NEW q \in Cuts(tearing)
  PROVE  q \in Seq(Records) /\ Begun(q)
<1>1. PICK n \in durable .. Len(recs), p \in Seq(Records) :
        /\ p = SubSeq(recs, 1, n) /\ Len(p) = n /\ n \in 0 .. Len(recs)
        /\ q = p \/ q = Append(p, Torn)
  BY CutProperties
<1>2. recs \in Seq(Records) /\ Len(recs) \in Nat
  BY LenProperties DEF TypeInv
<1>3. \A i \in 1 .. n : p[i] = recs[i]
  BY <1>1, <1>2, PrefixProperties
<1>4. Begun(p)
  <2>1. Len(p) <= Len(recs) /\ \A i \in 1 .. Len(p) : p[i] = recs[i]
    BY <1>1, <1>2, <1>3
  <2>2. QED
    BY <1>2, <2>1, BegunPrefix
<1>5. Torn \in Records /\ Torn.kind # "commit"
  BY DEF Records, Torn
<1>6. CASE q = p
  BY <1>1, <1>4, <1>6
<1>7. CASE q = Append(p, Torn)
  BY <1>1, <1>4, <1>5, <1>7, BegunAppend
<1>8. QED
  BY <1>1, <1>6, <1>7

LEMMA BegunInit == Init => BegunInv
<1> SUFFICES ASSUME Init PROVE BegunInv
  OBVIOUS
<1>1. <<>> \in Seq(Records) /\ Len(<<>>) = 0 /\ recs = <<>> /\ pending = <<>>
  BY EmptySeq DEF Init
<1>2. recs \o pending = <<>>
  BY <1>1, ConcatEmptySeq
<1>3. 1 .. 0 = {}
  OBVIOUS
<1>4. Begun(<<>>)
  BY <1>1, <1>3 DEF Begun
<1>5. QED
  BY <1>2, <1>4, TypeInit DEF BegunInv

LEMMA BegunStep == BegunInv /\ [Next]_vars => BegunInv'
<1> SUFFICES ASSUME BegunInv, [Next]_vars PROVE BegunInv'
  OBVIOUS
<1>1. TypeInv /\ TypeInv' /\ Begun(recs \o pending)
  BY TypeStep DEF BegunInv
<1>2. /\ recs \in Seq(Records) /\ pending \in Seq(Whole) /\ Len(recs) \in Nat
      /\ recs' \in Seq(Records) /\ Len(pending) \in Nat /\ nextSeq \in Nat
  BY <1>1, LenProperties DEF TypeInv
<1>3. pending \in Seq(Records)
  BY <1>2, ReadableOfWhole
<1>4. PICK q : q = recs \o pending
  OBVIOUS
<1>5. /\ q \in Seq(Records) /\ Len(q) = Len(recs) + Len(pending)
      /\ \A i \in 1 .. (Len(recs) + Len(pending)) :
           q[i] = IF i <= Len(recs) THEN recs[i] ELSE pending[i - Len(recs)]
  BY <1>2, <1>3, <1>4, ConcatProperties
<1>6. Begun(recs)
  <2>1. Len(recs) <= Len(q) /\ \A i \in 1 .. Len(recs) : recs[i] = q[i]
    BY <1>2, <1>5
  <2>2. QED
    BY <1>1, <1>2, <1>4, <1>5, <2>1, BegunPrefix
<1>7. SUFFICES Begun(recs' \o pending')
  BY <1>1 DEF BegunInv
<1>8. ASSUME NEW p \in Seq(Records) PROVE p \o <<>> = p
  BY <1>8, ConcatEmptySeq
<1>9. ASSUME NEW tearing \in BOOLEAN, recs' \in Cuts(tearing), pending' = <<>>
      PROVE  Begun(recs' \o pending')
  <2>1. Begun(recs')
    BY <1>1, <1>6, <1>9, BegunCut
  <2>2. QED
    BY <1>2, <1>8, <1>9, <2>1
<1>10. CASE Open
  <2>1. pending' = <<>>
    BY <1>1, <1>10 DEF Open, TypeInv
  <2>2. Begun(recs')
    <3>1. CASE Scan(recs).truncated
      <4>1. recs' = SubSeq(recs, 1, Scan(recs).valid)
        BY <1>10, <3>1 DEF Open
      <4>2. PICK w : w = Readable(recs)
        OBVIOUS
      <4>3. Scan(recs).valid \in 0 .. Len(w) /\ Len(w) \in 0 .. Len(recs)
        BY <1>2, <4>2, ScanProperties, ReadableProperties
      <4>4. Scan(recs).valid \in 0 .. Len(recs)
        BY <1>2, <4>3
      <4>5. /\ Len(recs') = Scan(recs).valid
            /\ \A i \in 1 .. Scan(recs).valid : recs'[i] = recs[i]
        BY <1>2, <4>1, <4>4, PrefixProperties
      <4>6. Len(recs') <= Len(recs)
        BY <1>2, <4>4, <4>5
      <4>7. QED
        BY <1>2, <1>6, <4>5, <4>6, BegunPrefix
    <3>2. CASE ~ Scan(recs).truncated
      BY <1>6, <1>10, <3>2 DEF Open, file
    <3>3. QED
      BY <3>1, <3>2
  <2>3. QED
    BY <1>2, <1>8, <2>1, <2>2
<1>11. ASSUME NEW ops \in Groups, AppendTransaction(ops) PROVE Begun(recs' \o pending')
  <2>1. recs' = recs /\ pending' = TransactionRecords(ops) /\ ops \in Seq(Ops)
    BY <1>11, GroupProperties DEF AppendTransaction, file
  <2>2. QED
    BY <1>1, <1>6, <2>1, BegunTransaction
<1>12. ASSUME NEW op \in Ops, AppendAlone(op) PROVE Begun(recs' \o pending')
  <2>1. recs' = recs /\ pending' = <<DataRecord(nextSeq, op)>>
    BY <1>12 DEF AppendAlone, file
  <2>2. PICK rec : rec = DataRecord(nextSeq, op)
    OBVIOUS
  <2>3. rec \in Records /\ rec.kind # "commit"
    BY <1>2, <2>2 DEF DataRecord, Records, Whole, DataRecords
  <2>4. recs \o <<rec>> = Append(recs, rec)
    BY <1>2, <2>3, AppendIsConcat
  <2>5. QED
    BY <1>2, <1>6, <2>1, <2>2, <2>3, <2>4, BegunAppend
<1>13. CASE AppendRecord
  <2>1. /\ pending # <<>> /\ recs' = Append(recs, Head(pending))
        /\ pending' = Tail(pending)
    BY <1>13 DEF AppendRecord
  <2>2. /\ Head(pending) \in Records /\ Head(pending) = pending[1]
        /\ pending' \in Seq(Records) /\ Len(pending') = Len(pending) - 1
        /\ \A i \in 1 .. Len(pending') : pending'[i] = pending[i + 1]
    BY <1>3, <2>1, HeadTailProperties
  <2>3. /\ Len(recs') = Len(recs) + 1 /\ recs'[Len(recs) + 1] = pending[1]
        /\ \A i \in 1 .. Len(recs) : recs'[i] = recs[i]
    BY <1>2, <2>1, <2>2, AppendProperties
  <2>4. PICK v : v = recs' \o pending'
    OBVIOUS
  <2>5. /\ v \in Seq(Records) /\ Len(v) = Len(recs') + Len(pending')
        /\ \A i \in 1 .. (Len(recs') + Len(pending')) :
             v[i] = IF i <= Len(recs') THEN recs'[i] ELSE pending'[i - Len(recs')]
    BY <1>2, <2>2, <2>4, ConcatProperties
  <2>6. Len(v) = Len(q)
    BY <1>2, <1>5, <2>2, <2>3, <2>5
  <2>7. ASSUME NEW i \in 1 .. Len(v) PROVE v[i] = q[i]
    <3>1. CASE i <= Len(recs)
      BY <1>2, <1>5, <2>3, <2>5, <2>6, <2>7, <3>1
    <3>2. CASE i = Len(recs) + 1
      BY <1>2, <1>5, <2>3, <2>5, <2>6, <2>7, <3>2
    <3>3. CASE i > Len(recs) + 1
      <4>1. /\ i - Len(recs') \in 1 .. Len(pending') /\ ~ (i <= Len(recs'))
            /\ i - Len(recs') + 1 = i - Len(recs) /\ ~ (i <= Len(recs))
        BY <1>2, <2>2, <2>3, <2>5, <2>7, <3>3
      <4>2. v[i] = pending[i - Len(recs)]
        BY <2>2, <2>5, <2>7, <4>1
      <4>3. QED
        BY <1>5, <2>6, <2>7, <4>1, <4>2
    <3>4. QED
      BY <1>2, <2>7, <3>1, <3>2, <3>3
  <2>8. v = q
    BY <1>5, <2>5, <2>6, <2>7, SeqEqual
  <2>9. QED
    BY <1>1, <1>4, <2>4, <2>8
<1>14. CASE Sync
  BY <1>1, <1>14 DEF Sync
<1>15. CASE CallFails
  BY <1>9, <1>15, JournalAssumption DEF CallFails
<1>16. CASE Close
  BY <1>1, <1>16 DEF Close, file
<1>17. CASE Kill
  BY <1>9, <1>17 DEF Kill
<1>18. CASE PowerLoss
  BY <1>9, <1>18 DEF PowerLoss
<1>19. CASE UNCHANGED vars
  BY <1>1, <1>19 DEF vars, file
<1>20. QED
  BY <1>10, <1>11, <1>12, <1>13, <1>14, <1>15, <1>16, <1>17, <1>18, <1>19 DEF Next

\* Whatever the file holds, torn or cut off anywhere, scan_journal returns the
\* data records of the transactions that committed and those that follow none,
\* in file order, and counts the transactions that did not commit.
THEOREM ScansAreReference == Spec => []ScanIsReference
<1>1. Spec => []BegunInv
  BY BegunInit, BegunStep, PTL DEF Spec
<1>2. BegunInv => ScanIsReference
  <2> SUFFICES ASSUME BegunInv PROVE ScanIsReference
    OBVIOUS
  <2>1. /\ recs \in Seq(Records) /\ pending \in Seq(Records)
        /\ Len(recs) \in Nat /\ Len(pending) \in Nat
    BY ReadableOfWhole, LenProperties DEF BegunInv, TypeInv
  <2>2. PICK w, q : w = Readable(recs) /\ q = recs \o pending
    OBVIOUS
  <2>3. /\ w \in Seq(Whole) /\ Len(w) \in 0 .. Len(recs)
        /\ \A i \in 1 .. Len(w) : w[i] = recs[i]
    BY <2>1, <2>2, ReadableProperties
  <2>4. /\ q \in Seq(Records) /\ Len(q) = Len(recs) + Len(pending)
        /\ \A i \in 1 .. (Len(recs) + Len(pending)) :
             q[i] = IF i <= Len(recs) THEN recs[i] ELSE pending[i - Len(recs)]
    BY <2>1, <2>2, ConcatProperties
  <2>5. Begun(w)
    <3>1. Len(w) <= Len(q) /\ \A i \in 1 .. Len(w) : w[i] = q[i]
      BY <2>1, <2>3, <2>4
    <3>2. w \in Seq(Records) /\ Begun(q)
      BY <2>2, <2>3, ReadableOfWhole DEF BegunInv
    <3>3. QED
      BY <2>4, <3>1, <3>2, BegunPrefix
  <2>6. PICK s : s = ScanState(w)
    OBVIOUS
  <2>7. /\ s.records = Kept(w)[Len(w)]
        /\ s.unfinished + (IF s.transaction.active THEN 1 ELSE 0)
             = Cardinality(Lost(w, Len(w)))
    BY <2>3, <2>5, <2>6, ScanFollowsFile
  <2>8. /\ Scan(recs).records = s.records
        /\ Scan(recs).unfinished
             = s.unfinished + (IF s.transaction.active THEN 1 ELSE 0)
    BY <2>2, <2>6 DEF Scan, ScanState
  <2>9. QED
    BY <2>2, <2>7, <2>8 DEF ScanIsReference
<1>3. QED
  BY <1>1, <1>2, PTL

==============================================================================
