------------------------------ MODULE Journal ------------------------------
(***************************************************************************)
(* The append-only journal of persist/journal.cpp, record by record: what  *)
(* append_transaction writes, what a process that dies or a write that     *)
(* fails leaves in the file, and what scan_journal and Journal::open make  *)
(* of it afterwards.                                                       *)
(*                                                                         *)
(* The file is a sequence of whole records, with at most a torn one where  *)
(* a write was cut off: anything whose checksums or lengths do not verify, *)
(* and so where a scan stops.  Its header is left to module Store, which   *)
(* models how the file is created.                                         *)
(***************************************************************************)
EXTENDS Integers, Sequences, SequencesExt

CONSTANTS
  Ops,          \* payloads of data records
  MaxGroup,     \* data records in a transaction
  MaxSeq,       \* bound on sequence numbers
  TornWrites    \* TRUE if a failed write may leave a torn record

ASSUME JournalAssumption ==
  /\ MaxGroup \in Nat \ {0} /\ MaxSeq \in Nat
  /\ TornWrites \in BOOLEAN

VARIABLES
  recs,      \* the records in the file, as a reader would find them now
  durable,   \* how many of them a power loss cannot take away
  pc,        \* "closed" or "open"
  nextSeq,   \* next_sequence_
  pending,   \* records the call in progress still has to append
  current,   \* what that call appends: [ops, alone], or NoCall
  outcomes   \* history variable: payloads the file may be found to hold

file == <<recs, durable>>
vars == <<file, pc, nextSeq, pending, current, outcomes>>

NoCall == [ops |-> <<>>, alone |-> FALSE]

-----------------------------------------------------------------------------
(* Records *)

Torn == [kind |-> "torn"]
DataRecord(seq, op) == [kind |-> "data", seq |-> seq, op |-> op]
BeginRecord(seq, count) ==
  [kind |-> "begin", seq |-> seq, id |-> seq, count |-> count]

\* The chain checksum covers the payloads in order.
CommitRecord(seq, id, ops) ==
  [kind |-> "commit", seq |-> seq, id |-> id, count |-> Len(ops), chain |-> ops]

\* append_transaction numbers its records from next_sequence_, which is also
\* the identity of the transaction.
TransactionRecords(ops) ==
  <<BeginRecord(nextSeq, Len(ops))>>
  \o [i \in 1 .. Len(ops) |-> DataRecord(nextSeq + i, ops[i])]
  \o <<CommitRecord(nextSeq + Len(ops) + 1, nextSeq, ops)>>

-----------------------------------------------------------------------------
(* scan_journal *)

\* The records before the first one that does not verify.
Readable(r) ==
  IF \E n \in DOMAIN r : r[n] = Torn
    THEN SubSeq(r, 1, (CHOOSE n \in DOMAIN r :
                         r[n] = Torn /\ \A m \in 1 .. (n - 1) : r[m] # Torn) - 1)
    ELSE r

\* The transaction buffer, and nothing in it.
NoTransaction == [active |-> FALSE, id |-> 0, count |-> 0, records |-> <<>>]

ScanStart ==
  [records |-> <<>>, read |-> 0, valid |-> 0, last |-> 0, unfinished |-> 0,
   transaction |-> NoTransaction]

Payloads(records) == [i \in DOMAIN records |-> records[i].op]

\* Mutant of BeginScanned: the records of an unfinished transaction stay.
BeginKeepsRecords(s, rec) ==
  [s EXCEPT !.unfinished = @ + IF s.transaction.active THEN 1 ELSE 0,
            !.transaction = [active |-> TRUE, id |-> rec.id, count |-> rec.count,
                             records |-> @.records]]

\* A Begin discards a transaction that did not commit.
BeginScanned(s, rec) ==
  [s EXCEPT !.unfinished = @ + IF s.transaction.active THEN 1 ELSE 0,
            !.transaction = [active |-> TRUE, id |-> rec.id, count |-> rec.count,
                             records |-> <<>>]]

\* A Commit is accepted if it belongs to the transaction in the buffer and the
\* buffer is complete.
Accepts(t, rec) ==
  /\ t.active /\ rec.id = t.id /\ rec.count = t.count
  /\ rec.count = Len(t.records) /\ rec.chain = Payloads(t.records)

CommitScanned(s, rec) ==
  IF Accepts(s.transaction, rec)
    THEN [s EXCEPT !.records = @ \o s.transaction.records,
                   !.valid = s.read, !.transaction = NoTransaction]
    ELSE [s EXCEPT !.unfinished = @ + 1, !.transaction = NoTransaction]

\* Mutant of DataScanned: the data records of a transaction count at once.
DataAppliesAtOnce(s, rec) ==
  [s EXCEPT !.records = Append(@, rec), !.valid = s.read]

\* A record outside a transaction commits itself.
DataScanned(s, rec) ==
  IF s.transaction.active
    THEN [s EXCEPT !.transaction.records = Append(@, rec)]
    ELSE [s EXCEPT !.records = Append(@, rec), !.valid = s.read]

ScanRecord(s, rec) ==
  LET met == [s EXCEPT !.read = @ + 1,
                       !.last = IF rec.seq > @ THEN rec.seq ELSE @]
  IN  CASE rec.kind = "begin" -> BeginScanned(met, rec)
        [] rec.kind = "commit" -> CommitScanned(met, rec)
        [] rec.kind = "data" -> DataScanned(met, rec)

\* Where the loop is after each of the records.
ScanStates(r) ==
  LET state[n \in 0 .. Len(r)] ==
        IF n = 0 THEN ScanStart ELSE ScanRecord(state[n - 1], r[n])
  IN  state

\* The scan, with the transaction the file ends in counted as unfinished, and
\* truncated set if it stopped before the end of the file.
Scan(r) ==
  LET s == ScanStates(Readable(r))[Len(Readable(r))]
  IN  [records    |-> s.records,
       valid      |-> s.valid,
       last       |-> s.last,
       unfinished |-> s.unfinished + IF s.transaction.active THEN 1 ELSE 0,
       dangling   |-> s.transaction.active,
       truncated  |-> s.read < Len(r)]

Found(r) == Payloads(Scan(r).records)

-----------------------------------------------------------------------------
(* What a cut leaves *)

\* Prefixes of the file that keep its durable records, ending in a torn record
\* if tearing is allowed and a record was lost or was being written.
Cuts(tearing) ==
  {SubSeq(recs, 1, n) : n \in durable .. Len(recs)}
  \cup IF tearing
         THEN {Append(SubSeq(recs, 1, n), Torn) :
                 n \in {n \in durable .. Len(recs) :
                          n < Len(recs) \/ pending # <<>>}}
         ELSE {}

\* The payloads found with the call in progress, which needs all its records.
WithCurrent ==
  IF pending = <<>> THEN {o \o current.ops : o \in outcomes} ELSE {}

\* Outcomes that no cut of the new file leaves are settled.
Settle(possible) ==
  outcomes' = possible \cap {Found(r) : r \in Cuts(TRUE)'}

-----------------------------------------------------------------------------
Init ==
  /\ recs = <<>> /\ durable = 0
  /\ pc = "closed" /\ nextSeq = 1
  /\ pending = <<>> /\ current = NoCall
  /\ outcomes = {<<>>}

\* Mutant of Open: a torn tail stays where it is.
OpenKeepsTail ==
  /\ pc = "closed" /\ pc' = "open"
  /\ nextSeq' = Scan(recs).last + 1
  /\ UNCHANGED <<recs, durable, pending, current, outcomes>>

\* Mutant of Open: numbering goes on from the last committed record.
OpenNumbersFromCommitted ==
  /\ pc = "closed" /\ pc' = "open"
  /\ nextSeq' = IF Scan(recs).records = <<>> THEN 1
                ELSE Last(Scan(recs).records).seq + 2
  /\ IF Scan(recs).truncated
       THEN /\ recs' = SubSeq(recs, 1, Scan(recs).valid)
            /\ durable' = Scan(recs).valid
       ELSE UNCHANGED file
  /\ UNCHANGED <<pending, current, outcomes>>

\* Journal::open of an existing file: if the scan stopped early the file is
\* truncated after the last commit and synced; otherwise it is left alone, an
\* unfinished transaction at its end included.
Open ==
  /\ pc = "closed" /\ pc' = "open"
  /\ nextSeq' = Scan(recs).last + 1
  /\ IF Scan(recs).truncated
       THEN /\ recs' = SubSeq(recs, 1, Scan(recs).valid)
            /\ durable' = Scan(recs).valid
       ELSE UNCHANGED file
  /\ UNCHANGED <<pending, current>>
  /\ Settle(outcomes)

Idle == pc = "open" /\ current = NoCall

\* append_transaction is called, to be followed by sync.
AppendTransaction(ops) ==
  /\ Idle /\ nextSeq + Len(ops) + 1 <= MaxSeq
  /\ pending' = TransactionRecords(ops)
  /\ current' = [ops |-> ops, alone |-> FALSE]
  /\ UNCHANGED <<file, pc, nextSeq, outcomes>>

\* append is called for a record outside a transaction, also followed by sync.
AppendAlone(op) ==
  /\ Idle /\ nextSeq <= MaxSeq
  /\ pending' = <<DataRecord(nextSeq, op)>>
  /\ current' = [ops |-> <<op>>, alone |-> TRUE]
  /\ UNCHANGED <<file, pc, nextSeq, outcomes>>

\* One append: the record is in the stream's buffer or in the file.
AppendRecord ==
  /\ pending # <<>>
  /\ recs' = Append(recs, Head(pending))
  /\ pending' = Tail(pending) /\ nextSeq' = nextSeq + 1
  /\ UNCHANGED <<durable, pc, current, outcomes>>

\* The call is acknowledged.  A record written alone is not promised if the
\* file holds an unfinished transaction that takes it in.
Sync ==
  /\ current # NoCall /\ pending = <<>>
  /\ durable' = Len(recs)
  /\ current' = NoCall
  /\ UNCHANGED <<recs, pc, nextSeq, pending>>
  /\ Settle(IF current.alone /\ Scan(recs).dangling
              THEN outcomes \cup WithCurrent ELSE WithCurrent)

\* An append or the sync fails and the call returns the error.  A stream whose
\* flush fails may drop what it buffered.
CallFails ==
  /\ current # NoCall
  /\ recs' \in Cuts(TornWrites)
  /\ pending' = <<>> /\ current' = NoCall
  /\ UNCHANGED <<durable, pc, nextSeq>>
  /\ Settle(outcomes \cup WithCurrent)

\* Journal::close between calls.
Close ==
  /\ Idle /\ pc' = "closed" /\ nextSeq' = 1
  /\ UNCHANGED <<file, pending, current, outcomes>>

\* The process ends; what reached the file stays in it.
Kill ==
  /\ pc = "open"
  /\ recs' \in Cuts(TRUE) /\ UNCHANGED durable
  /\ pc' = "closed" /\ nextSeq' = 1 /\ pending' = <<>> /\ current' = NoCall
  /\ Settle(outcomes \cup WithCurrent)

\* The machine ends, with it what was never synced.
PowerLoss ==
  /\ recs' \in Cuts(TRUE) /\ durable' = Len(recs')
  /\ pc' = "closed" /\ nextSeq' = 1 /\ pending' = <<>> /\ current' = NoCall
  /\ Settle(outcomes \cup WithCurrent)

Groups == UNION {[1 .. n -> Ops] : n \in 1 .. MaxGroup}

Next == \/ Open
        \/ \E ops \in Groups : AppendTransaction(ops)
        \/ \E op \in Ops : AppendAlone(op)
        \/ AppendRecord \/ Sync \/ CallFails \/ Close
        \/ Kill \/ PowerLoss

Spec == Init /\ [][Next]_vars

-----------------------------------------------------------------------------
(* Properties *)

\* "Recovery applies a transaction only when its Commit is present", and an
\* acknowledged transaction is always applied: wherever the process or the
\* machine ends, the next scan finds every acknowledged call in the order of
\* the calls, whole calls that were not acknowledged in their places among
\* them, and nothing else.
CommittedExactly ==
  \A r \in Cuts(TRUE) : Found(r) \in outcomes \cup WithCurrent

\* Opening the journal, and so cutting a torn tail off, changes nothing of
\* what a scan finds and leaves a file that is read to its end.
OpenRepairs ==
  [][pc = "closed" /\ pc' = "open" =>
       /\ Scan(recs').records = Scan(recs).records
       /\ ~ Scan(recs').truncated]_vars

\* The records a scan reads are numbered in file order and below the number
\* the journal gives out next, whatever was cut off or failed before.
SequencesIncrease ==
  /\ \A m, n \in DOMAIN Readable(recs) : m < n => recs[m].seq < recs[n].seq
  /\ pc = "open" => \A n \in DOMAIN Readable(recs) : recs[n].seq < nextSeq

=============================================================================
