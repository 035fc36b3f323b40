------------------------------- MODULE Store -------------------------------
(***************************************************************************)
(* The durable store of the fabric, CapacityStore in persist/store.cpp,    *)
(* with the part of persist/journal.cpp it relies on.                      *)
(*                                                                         *)
(* A store keeps three copies of its state: the map a running process      *)
(* serves (mem), the compacted file state.bin (ckpt) and the transactions  *)
(* of journal.log (log).  Every mutation holds mutex_ from its first line  *)
(* to its last, so a handler is one action here; what the mutex cannot     *)
(* hide, a process that dies inside a handler or a system call that fails  *)
(* in it, is an action of its own.  Opening and compacting change the disk *)
(* in several steps and are modelled step by step.                         *)
(*                                                                         *)
(* The store always writes transactions of one data record, Begin, data,   *)
(* Commit, which consume three sequence numbers; log holds the data record *)
(* of every transaction a scan of the file would return (module Journal    *)
(* models the records, the tail and the scan).                             *)
(***************************************************************************)
EXTENDS Positions, Sequences, FiniteSetsExt

CONSTANTS
  Keys,          \* identities of policies, demand shapes and models
  Values,        \* what a policy, a demand shape or a model may hold
  Absent,        \* the content of an identity that is not stored
  Sources,       \* sources of external evidence
  Current,       \* an evidence reference with requires_revalidation false
  Revalidate,    \* an evidence reference with requires_revalidation true
  Holders,       \* holders of live authority
  Points,        \* evaluations that may be appended to the history
  MaxHistory,    \* limits.max_history_entries
  CrashWindows,  \* the fragile windows in which a crash may strike (see Window and PowerLoss)
  Faults,        \* the system call failures that may occur (see HalfLogged)
  MaxSeq,        \* bound on sequence numbers
  MaxEpoch,      \* bound on fabric epochs
  MaxBoot        \* bound on boot incarnations

Ids == Keys \cup Sources \cup Holders

\* A live authority record, by the incarnation that granted it.
Claim(epoch, boot) == <<epoch, boot>>

ASSUME StoreAssumption ==
  /\ MaxHistory \in Nat \ {0}
  /\ MaxSeq \in Nat /\ MaxEpoch \in Nat /\ MaxBoot \in Nat
  /\ CrashWindows \subseteq {"reset", "create", "entry"}
  /\ Faults \subseteq {"kept", "none", "torn", "dirsync", "nojournal"}
  /\ Keys \cap Sources = {} /\ Keys \cap Holders = {}
  /\ Sources \cap Holders = {}
  /\ Absent # Current /\ Absent # Revalidate /\ Current # Revalidate
  /\ \A e \in 0 .. MaxEpoch, b \in 0 .. MaxBoot : Absent # Claim(e, b)

VARIABLES
  ckpt,      \* state.bin: a StoreState, Blank when there is no such file
  file,      \* journal.log: absent, empty, ok, or bad (records but no header)
  log,       \* the data records a scan of journal.log returns, in file order
  topSeq,    \* the highest sequence number a scan of journal.log meets
  torn,      \* TRUE if the file has a torn record, which hides what follows it
  entered,   \* TRUE if the directory entry of journal.log is durable
  pc,        \* where the process that has the store open is
  mem,       \* state_, epoch_ and boot_ of that process
  nextSeq,   \* next_sequence_ of its Journal
  may,       \* history variable: what recovery may make of each identity
  mayHist,   \* history variable: the histories recovery may produce
  seen,      \* history variable: the last incarnation that served requests
  fresh      \* history variable: live claims made by this incarnation

disk == <<ckpt, file, log, topSeq, torn, entered>>
proc == <<pc, mem, nextSeq>>
hist == <<may, mayHist, seen, fresh>>
vars == <<disk, proc, hist>>

\* Incarnation and epoch counters start at 1; 0 is the invalid counter of a
\* default constructed StoreState.
Blank ==
  [entries |-> [id \in Ids |-> Absent], history |-> <<>>,
   epoch |-> 0, boot |-> 0, lastSeq |-> 0]

Opening == {"recovered", "creating", "journal"}
Compacting == {"published", "removed", "recreating"}
Serving == {"ready", "nojournal"} \cup Compacting

-----------------------------------------------------------------------------
(* The data records of the journal, one kind per payload. *)

WriteOp(id, content) == [kind |-> "write", key |-> id, val |-> content]
HistoryOp(point) == [kind |-> "history", val |-> point]
EpochOp(epoch, boot) == [kind |-> "epoch", epoch |-> epoch, boot |-> boot]
CleanOp == [kind |-> "clean"]

\* Mutations a caller may ask for in the current state.  Authority is granted
\* for the incarnation the caller sees, as the store's own users do.
EvidenceOps == {WriteOp(s, c) : s \in Sources, c \in {Current, Revalidate}}
GrantOps == {WriteOp(h, Claim(mem.epoch, mem.boot)) : h \in Holders}
WriteOps == {WriteOp(k, c) : k \in Keys, c \in Values \cup {Absent}}
            \cup EvidenceOps \cup GrantOps

\* Mutant of Trim: the history is never trimmed.
Untrimmed(h) == h

\* push_back, then erase from the front while the history is too long.
Trim(h) == IF Len(h) > MaxHistory
             THEN SubSeq(h, Len(h) - MaxHistory + 1, Len(h))
             ELSE h

-----------------------------------------------------------------------------
(* Recovery: what load_state and replay_journal make of the files. *)

\* Mutant of Applied: the checkpoint's sequence number is ignored.
AppliedFromTheStart(c, l) == DOMAIN l

\* Records the replay applies: it skips a record whose sequence number does
\* not exceed state_.last_sequence, which starts as the checkpoint's and rises
\* with every record applied.
Applied(c, l) ==
  {i \in DOMAIN l : /\ c.lastSeq < l[i].seq
                    /\ \A j \in 1 .. (i - 1) : l[j].seq < l[i].seq}

\* The records are applied in file order and each overwrites its entry, so the
\* last applied one decides.
Writes(c, l, id) ==
  {i \in Applied(c, l) : l[i].op.kind = "write" /\ l[i].op.key = id}

RecoveredEntry(c, l, id) ==
  IF Writes(c, l, id) = {} THEN c.entries[id]
                           ELSE l[Max(Writes(c, l, id))].op.val

Appends(c, l) == {i \in Applied(c, l) : l[i].op.kind = "history"}

RecoveredHistory(c, l) ==
  Trim(c.history \o [n \in 1 .. Cardinality(Appends(c, l)) |->
                       l[InOrder(Appends(c, l))[n]].op.val])

Incarnations(c, l) == {i \in Applied(c, l) : l[i].op.kind = "epoch"}
Shutdowns(c, l) == {i \in Applied(c, l) : l[i].op.kind = "clean"}

RecoveredEpoch(c, l) ==
  IF Incarnations(c, l) = {} THEN c.epoch
                             ELSE l[Max(Incarnations(c, l))].op.epoch
RecoveredBoot(c, l) ==
  IF Incarnations(c, l) = {} THEN c.boot
                             ELSE l[Max(Incarnations(c, l))].op.boot

\* Mutant of RecoveredClean: a later incarnation does not clear the flag.
CleanOnce(c, l) == Shutdowns(c, l) # {}

\* The flag starts as false, whatever the checkpoint says.
RecoveredClean(c, l) ==
  \E i \in Shutdowns(c, l) : \A j \in Incarnations(c, l) : j < i

RecoveredSeq(c, l) == Max({c.lastSeq} \cup {l[i].seq : i \in Applied(c, l)})

\* Mutant of Fence: evidence comes back as it was stored.
Unfenced(id, content) == content

\* Evidence comes back marked for revalidation.
Fence(id, content) ==
  IF id \in Sources /\ content # Absent THEN Revalidate ELSE content

RecoveredEntries(c, l) ==
  [id \in Ids |-> Fence(id, RecoveredEntry(c, l, id))]

\* The epoch of the next incarnation: the first one starts at 1, a clean
\* shutdown keeps the epoch and anything else advances it.
OpenEpoch(c, l) ==
  LET last == RecoveredEpoch(c, l)
  IN  IF last = 0 THEN 1
      ELSE IF RecoveredClean(c, l) THEN last ELSE last + 1

OpenBoot(c, l) == RecoveredBoot(c, l) + 1

-----------------------------------------------------------------------------
(* The journal seen from the store. *)

Room == nextSeq + 3 <= MaxSeq

\* append_transaction followed by sync.  Begin takes nextSeq, the data record
\* nextSeq + 1 and Commit nextSeq + 2.  A torn record earlier in the file, or
\* a file that never received its header, hides the transaction from a scan.
Logged(op) ==
  /\ file' = IF file = "empty" THEN "bad" ELSE file
  /\ IF file = "ok" /\ ~torn
       THEN /\ log' = Append(log, [seq |-> nextSeq + 1, op |-> op])
            /\ topSeq' = nextSeq + 2
       ELSE UNCHANGED <<log, topSeq>>
  /\ UNCHANGED <<ckpt, torn, entered>>

\* The end of a transaction is cut off within a record: its first records may
\* be whole, unless they follow a torn record.  Anything written where the
\* header is missing is taken for one.
Tears ==
  /\ torn' = TRUE /\ file' = IF file = "empty" THEN "bad" ELSE file
  /\ topSeq' \in {topSeq} \cup IF file = "ok" /\ ~torn
                               THEN {nextSeq, nextSeq + 1} ELSE {}
  /\ UNCHANGED <<ckpt, log, entered>>

\* The transaction ends on a record boundary before its Commit.
Dangles ==
  /\ file \in {"ok", "empty"} /\ ~torn
  /\ IF file = "ok" THEN topSeq' \in {nextSeq, nextSeq + 1} /\ file' = file
                    ELSE topSeq' = topSeq /\ file' = "bad"
  /\ UNCHANGED <<ckpt, log, torn, entered>>

\* The sequence number of the last Commit, 0 if there is none.
CommittedTop == IF log = <<>> THEN 0 ELSE log[Len(log)].seq + 1

\* A transaction whose append or sync fails: all of it may be in the file,
\* none of it, or a part that ends in a torn record.
HalfLogged(op, outcome) ==
  \/ outcome = "kept" /\ Logged(op)
  \/ outcome = "none" /\ (UNCHANGED disk \/ Dangles)
  \/ outcome = "torn" /\ Tears

\* The sequence numbers a failed transaction used up: one for each record that
\* append() took, all of them if only the sync failed.
Consumed(outcome) == IF outcome = "kept" THEN {3} ELSE 0 .. 3

-----------------------------------------------------------------------------
(* What a caller may rely on, kept in history variables. *)

\* Acknowledging a write leaves one outcome for its identity; an attempt that
\* was not acknowledged adds one.
Acknowledge(op) ==
  /\ may' = IF op.kind = "write"
              THEN [may EXCEPT ![op.key] = {Fence(op.key, op.val)}] ELSE may
  /\ mayHist' = IF op.kind = "history"
                  THEN {Trim(Append(h, op.val)) : h \in mayHist} ELSE mayHist
  /\ seen' = CASE op.kind = "epoch" -> [boot |-> op.boot, epoch |-> op.epoch,
                                        exit |-> "crashed"]
            [] op.kind = "clean" -> [seen EXCEPT !.exit = "clean"]
               [] OTHER -> seen
  /\ fresh' = CASE op.kind = "write" /\ op.key \in Holders
                     -> fresh \cup {op.key}
                [] op.kind = "write" /\ op.key \in Sources
                     -> IF op.val = Current THEN fresh \cup {op.key} ELSE fresh
                [] op.kind = "epoch" -> fresh \ Holders
                [] OTHER -> fresh

Attempt(op) ==
  /\ may' = IF op.kind = "write"
              THEN [may EXCEPT ![op.key] = @ \cup {Fence(op.key, op.val)}]
              ELSE may
  /\ mayHist' = IF op.kind = "history"
                  THEN mayHist \cup {Trim(Append(h, op.val)) : h \in mayHist}
                  ELSE mayHist
  /\ seen' = IF op.kind = "clean"
               THEN [seen EXCEPT !.exit = "unsure"] ELSE seen
  /\ UNCHANGED fresh

\* The windows in which the code does not stand the end of its process:
\*   reset   the journal was reset and nothing in it is numbered after the
\*           checkpoint yet;
\*   create  journal.log exists and its header is not written.
Window ==
  (IF topSeq < ckpt.lastSeq THEN {"reset"} ELSE {})
  \cup (IF file = "empty" THEN {"create"} ELSE {})

\* The process is gone, with everything it held in memory; CrashWindows says
\* whether that may happen in a window.
Down ==
  /\ pc' = "down" /\ mem' = Blank /\ nextSeq' = 1
  /\ Window' \subseteq CrashWindows

-----------------------------------------------------------------------------
Init ==
  /\ ckpt = Blank /\ file = "absent" /\ log = <<>> /\ topSeq = 0
  /\ torn = FALSE /\ entered = FALSE
  /\ pc = "down" /\ mem = Blank /\ nextSeq = 1
  /\ may = [id \in Ids |-> {Absent}] /\ mayHist = {<<>>}
  /\ seen = [boot |-> 0, epoch |-> 0, exit |-> "none"]
  /\ fresh = {}

(* CapacityStore::open *)

\* load_state and replay_journal; a journal without a header refuses the open.
OpenRecover ==
  /\ pc = "down" /\ file # "bad"
  /\ OpenEpoch(ckpt, log) <= MaxEpoch /\ OpenBoot(ckpt, log) <= MaxBoot
  /\ mem' = [entries |-> RecoveredEntries(ckpt, log),
             history |-> RecoveredHistory(ckpt, log),
             epoch   |-> OpenEpoch(ckpt, log),
             boot    |-> OpenBoot(ckpt, log),
             lastSeq |-> RecoveredSeq(ckpt, log)]
  /\ pc' = "recovered"
  /\ UNCHANGED <<disk, nextSeq, hist>>

\* Mutant of OpenExistingJournal: numbering starts again.
OpenRestartsNumbering ==
  /\ pc = "recovered" /\ file # "absent"
  /\ torn' = FALSE /\ nextSeq' = 1 /\ pc' = "journal"
  /\ topSeq' = IF torn THEN CommittedTop ELSE topSeq
  /\ UNCHANGED <<ckpt, file, log, entered, mem, hist>>

\* Journal::open on an existing file cuts it off after the last Commit if it
\* met a torn record; numbering goes on from the last record it met, cut off
\* or not, and never from the checkpoint.
OpenExistingJournal ==
  /\ pc = "recovered" /\ file # "absent"
  /\ torn' = FALSE /\ nextSeq' = topSeq + 1
  /\ topSeq' = IF torn THEN CommittedTop ELSE topSeq
  /\ pc' = "journal"
  /\ UNCHANGED <<ckpt, file, log, entered, mem, hist>>

\* Journal::open creates the file first ...
OpenCreatesJournal ==
  /\ pc = "recovered" /\ file = "absent"
  /\ file' = "empty" /\ entered' = FALSE
  /\ nextSeq' = 1 /\ pc' = "creating"
  /\ UNCHANGED <<ckpt, log, topSeq, torn, mem, hist>>

\* Mutant of OpenWritesHeader: the header is left for later.
OpenSkipsHeader ==
  /\ pc = "creating" /\ pc' = "journal"
  /\ UNCHANGED <<disk, mem, nextSeq, hist>>

\* ... and then writes its header and syncs it.
OpenWritesHeader ==
  /\ pc = "creating"
  /\ file' = "ok" /\ pc' = "journal"
  /\ UNCHANGED <<ckpt, log, topSeq, torn, entered, mem, nextSeq, hist>>

\* The incarnation is recorded before anything is acknowledged.
OpenRecord ==
  /\ pc = "journal" /\ Room
  /\ Logged(EpochOp(mem.epoch, mem.boot))
  /\ nextSeq' = nextSeq + 3 /\ pc' = "ready"
  /\ may' = [id \in Ids |-> {mem.entries[id]}] /\ mayHist' = {mem.history}
  /\ seen' = [boot |-> mem.boot, epoch |-> mem.epoch, exit |-> "crashed"]
  /\ fresh' = {}
  /\ UNCHANGED mem

\* Recording the incarnation fails: the open returns the error, and the
\* destructor of the half opened store still appends its CleanShutdown.
OpenRecordFails ==
  /\ pc = "journal" /\ nextSeq + 6 <= MaxSeq
  /\ \E outcome \in Faults \cap {"kept", "none", "torn"} :
       IF outcome = "torn" THEN Tears
         ELSE /\ file' = IF file = "empty" THEN "bad" ELSE file
              /\ UNCHANGED <<ckpt, torn, entered>>
              /\ \E used \in Consumed(outcome) :
                   LET incarnation == [seq |-> nextSeq + 1,
                                       op |-> EpochOp(mem.epoch, mem.boot)]
                       shutdown == [seq |-> nextSeq + used + 1, op |-> CleanOp]
                       before == IF outcome = "kept"
                                   THEN Append(log, incarnation) ELSE log
                   IN  IF file = "ok"
                         THEN /\ log' = Append(before, shutdown)
                              /\ topSeq' = nextSeq + used + 2
                         ELSE UNCHANGED <<log, topSeq>>
  /\ UNCHANGED hist
  /\ Down

(* The durable mutations.  Each refuses a closed store, journals its record, *)
(* syncs it, and only then changes the state it serves.                      *)

Mutate(op, state) ==
  /\ pc = "ready" /\ Room
  /\ Logged(op)
  /\ nextSeq' = nextSeq + 3
  /\ mem' = [state EXCEPT !.lastSeq = nextSeq + 2]
  /\ Acknowledge(op)
  /\ UNCHANGED pc

Write(op) == Mutate(op, [mem EXCEPT !.entries[op.key] = op.val])

PutConfiguration(k, c) == Write(WriteOp(k, c))
RemoveConfiguration(k) == Write(WriteOp(k, Absent))
PutEvidenceReference(s, flag) == Write(WriteOp(s, flag))
GrantLiveAuthority(h) == Write(WriteOp(h, Claim(mem.epoch, mem.boot)))

AppendHistory(p) ==
  Mutate(HistoryOp(p), [mem EXCEPT !.history = Trim(Append(@, p))])

AdvanceEpoch ==
  /\ mem.epoch < MaxEpoch
  /\ Mutate(EpochOp(mem.epoch + 1, mem.boot), [mem EXCEPT !.epoch = @ + 1])

\* Every record a mutation or a close may be writing in the current state.
Unfinished ==
  IF pc = "ready"
    THEN WriteOps \cup {HistoryOp(p) : p \in Points}
         \cup {EpochOp(mem.epoch + 1, mem.boot)}
    ELSE {}

\* A mutation whose append or sync fails returns the error and changes
\* nothing it serves; the journal stays open.
MutationFails ==
  \E op \in Unfinished, outcome \in Faults \cap {"kept", "none", "torn"} :
    /\ Room
    /\ HalfLogged(op, outcome)
    /\ \E used \in Consumed(outcome) : nextSeq' = nextSeq + used
    /\ topSeq' < nextSeq'
    /\ Attempt(op)
    /\ UNCHANGED <<pc, mem>>

(* CapacityStore::close, also run by the destructor.  A closed store refuses *)
(* every mutation, so only a new open can follow.                            *)

Close ==
  /\ pc = "ready" /\ Room
  /\ Logged(CleanOp) /\ Acknowledge(CleanOp)
  /\ Down

CloseFails ==
  /\ pc = "ready" /\ Room
  /\ \E outcome \in Faults \cap {"kept", "none", "torn"} :
       HalfLogged(CleanOp, outcome)
  /\ Attempt(CleanOp)
  /\ Down

(* CapacityStore::compact *)

\* Mutant of CompactPublish: the journal is reset before the checkpoint is
\* published.
CompactSkipsPublish ==
  /\ pc = "ready" /\ pc' = "published"
  /\ UNCHANGED <<disk, mem, nextSeq, hist>>

\* The snapshot is written to a temporary file, synced and renamed; a crash or
\* a failure before the rename leaves a file nobody reads.
CompactPublish ==
  /\ pc = "ready"
  /\ ckpt' = mem /\ pc' = "published"
  /\ UNCHANGED <<file, log, topSeq, torn, entered, mem, nextSeq, hist>>

\* sync_directory fails: compact returns and the store goes on with the old
\* journal.
CompactGivesUp ==
  /\ pc = "published" /\ "dirsync" \in Faults
  /\ pc' = "ready"
  /\ UNCHANGED <<disk, mem, nextSeq, hist>>

CompactRemove ==
  /\ pc = "published"
  /\ file' = "absent" /\ log' = <<>> /\ topSeq' = 0 /\ torn' = FALSE
  /\ pc' = "removed"
  /\ UNCHANGED <<ckpt, entered, mem, nextSeq, hist>>

CompactCreates ==
  /\ pc = "removed"
  /\ file' = "empty" /\ entered' = FALSE /\ pc' = "recreating"
  /\ UNCHANGED <<ckpt, log, topSeq, torn, mem, nextSeq, hist>>

\* Journal::open fails, which leaves the store without a journal.
CompactLosesJournal ==
  /\ pc \in {"removed", "recreating"} /\ "nojournal" \in Faults
  /\ pc' = "nojournal"
  /\ UNCHANGED <<disk, mem, nextSeq, hist>>

\* Mutant of CompactFinish: the fresh journal starts at 1.
CompactRestartsNumbering ==
  /\ pc = "recreating"
  /\ file' = "ok" /\ entered' = TRUE /\ nextSeq' = 1 /\ pc' = "ready"
  /\ UNCHANGED <<ckpt, log, topSeq, torn, mem, hist>>

\* The header, set_next_sequence and the last sync of the directory, whose
\* failure leaves a store that goes on.
CompactFinish ==
  /\ pc = "recreating"
  /\ file' = "ok" /\ nextSeq' = mem.lastSeq + 1 /\ pc' = "ready"
  /\ entered' \in {TRUE} \cup IF "dirsync" \in Faults THEN {FALSE} ELSE {}
  /\ UNCHANGED <<ckpt, log, topSeq, torn, mem, hist>>

\* Without a journal close() has nothing to record and still succeeds.
CloseWithoutJournal ==
  /\ pc = "nojournal"
  /\ UNCHANGED <<disk, hist>>
  /\ Down

(* Crashes: the process dies at any step, or the machine does. *)

Crash ==
  /\ pc # "down"
  /\ UNCHANGED <<disk, hist>>
  /\ Down

\* The records of the transaction in flight are in the file, up to its Commit,
\* up to an earlier one, or up to the middle of one.
CrashInMutation ==
  /\ Room
  /\ \/ \E op \in Unfinished \cup (IF pc = "ready" THEN {CleanOp} ELSE {}) :
          Logged(op) /\ Attempt(op)
     \/ /\ pc = "journal"
        /\ Logged(EpochOp(mem.epoch, mem.boot))
        /\ seen' = [seen EXCEPT !.exit = IF @ = "clean" THEN "unsure" ELSE @]
        /\ UNCHANGED <<may, mayHist, fresh>>
     \/ pc \in {"ready", "journal"} /\ Dangles /\ UNCHANGED hist
     \/ pc \in {"ready", "journal"} /\ file \in {"ok", "empty"} /\ Tears /\ UNCHANGED hist
  /\ Down

\* The machine loses power and with it the file whose directory entry the
\* open that created it never synced; "entry" names this window.
PowerLoss ==
  /\ pc # "down" /\ "entry" \in CrashWindows /\ ~entered
  /\ file' = "absent" /\ log' = <<>> /\ topSeq' = 0 /\ torn' = FALSE
  /\ UNCHANGED <<ckpt, entered, hist>>
  /\ Down

-----------------------------------------------------------------------------
Open == \/ OpenRecover \/ OpenExistingJournal \/ OpenCreatesJournal
        \/ OpenWritesHeader \/ OpenRecord \/ OpenRecordFails

Mutation == \/ \E k \in Keys, c \in Values : PutConfiguration(k, c)
            \/ \E k \in Keys : RemoveConfiguration(k)
            \/ \E s \in Sources, flag \in {Current, Revalidate} :
                 PutEvidenceReference(s, flag)
            \/ \E h \in Holders : GrantLiveAuthority(h)
            \/ \E p \in Points : AppendHistory(p)
            \/ AdvanceEpoch
            \/ MutationFails

Compact == \/ CompactPublish \/ CompactGivesUp \/ CompactRemove
           \/ CompactCreates \/ CompactLosesJournal \/ CompactFinish

Stop == \/ Close \/ CloseFails \/ CloseWithoutJournal
        \/ Crash \/ CrashInMutation \/ PowerLoss

Next == Open \/ Mutation \/ Compact \/ Stop

Spec == Init /\ [][Next]_vars

-----------------------------------------------------------------------------
(* Properties *)

Contents ==
  Values \cup {Absent, Current, Revalidate}
  \cup ((0 .. MaxEpoch) \X (0 .. MaxBoot))

States ==
  [entries : [Ids -> Contents], history : Seq(Points),
   epoch : 0 .. MaxEpoch, boot : 0 .. MaxBoot, lastSeq : Nat]

Records ==
  [kind : {"write"}, key : Ids, val : Contents]
  \cup [kind : {"history"}, val : Points]
  \cup [kind : {"epoch"}, epoch : Nat, boot : Nat]
  \cup [kind : {"clean"}]

DiskOK ==
  /\ ckpt \in States /\ Len(ckpt.history) <= MaxHistory
  /\ file \in {"absent", "empty", "ok", "bad"}
  /\ log \in Seq([seq : Nat, op : Records]) /\ topSeq \in Nat
  /\ torn \in BOOLEAN /\ entered \in BOOLEAN

ProcOK ==
  /\ pc \in {"down"} \cup Opening \cup Serving
  /\ mem \in States /\ Len(mem.history) <= MaxHistory
  /\ nextSeq \in Nat

HistOK ==
  /\ may \in [Ids -> SUBSET Contents]
  /\ mayHist \subseteq Seq(Points)
  /\ seen \in [boot : Nat, epoch : Nat,
               exit : {"none", "crashed", "clean", "unsure"}]
  /\ fresh \subseteq Sources \cup Holders

\* The shape of every variable, and the bound on the history.
TypeOK == DiskOK /\ ProcOK /\ HistOK

\* "A mutation is never acknowledged before its record is durable": whatever
\* the process is doing, and so wherever it dies, opening the files would give
\* every identity its last acknowledged content, or that of a later mutation
\* that was never acknowledged.  In particular no step of compact() changes
\* what an open would find.
AcknowledgedSurvive ==
  \A id \in Ids : RecoveredEntries(ckpt, log)[id] \in may[id]

\* The same for the bounded history: no acknowledged evaluation is lost,
\* repeated or reordered across a restart or a compaction.
HistorySurvives == RecoveredHistory(ckpt, log) \in mayHist

\* "Every open advances the boot incarnation.  The fabric epoch advances only
\* after an unclean shutdown": the incarnation an open is about to record was
\* never used, keeps the epoch of a clean predecessor, and takes a new epoch
\* after any other.
IncarnationsAdvance ==
  pc \in Opening =>
    /\ mem.boot > seen.boot
    /\ seen.exit = "clean" => mem.epoch = seen.epoch
    /\ seen.exit = "crashed" => mem.epoch > seen.epoch
    /\ mem.epoch >= seen.epoch

\* Live authority that live_authority_valid would accept (its lifetime aside)
\* and evidence that needs no revalidation were granted or observed by the
\* incarnation that serves them, in its current epoch: none survives a restart.
LiveClaimsAreFresh ==
  pc \in Serving =>
    /\ \A h \in Holders :
         mem.entries[h] = Claim(mem.epoch, mem.boot) => h \in fresh
    /\ \A s \in Sources : mem.entries[s] = Current => s \in fresh

\* "A record written after compaction is always distinguishable from one the
\* checkpoint already folded in": the store never hands out a sequence number
\* that the checkpoint or the journal already covers.
NumberingContinues ==
  pc = "ready" => /\ ckpt.lastSeq < nextSeq
                  /\ \A i \in DOMAIN log : log[i].seq < nextSeq

\* The records of a journal are numbered in file order, whatever crashed or
\* failed before: the replay's test on sequence numbers can only skip records
\* that the checkpoint covers, never one that follows a record it applied.
JournalOrdered ==
  \A j \in DOMAIN log :
    /\ log[j].seq < topSeq
    /\ \A i \in 1 .. (j - 1) : log[i].seq < log[j].seq

\* A store that was ever opened can be opened again: none of its own steps
\* leaves a journal that the next open refuses.
Reopenable == file # "bad"

\* The store implements a durable map: served while the process is ready or
\* compacting, fenced by every restart, and settled by the open that records
\* its incarnation.
Durable ==
  INSTANCE DurableMap WITH
    up <- pc \in Serving,
    view <- IF pc \in Serving THEN mem.entries ELSE [id \in Ids |-> Absent],
    Survives <- Fence

ImplementsDurableMap == Durable!Spec

=============================================================================
