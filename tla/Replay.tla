------------------------------- MODULE Replay -------------------------------
(***************************************************************************)
(* replay_journal of persist/store.cpp as the loop it is, record by record, *)
(* against the definitions by the last applied record that Store and its   *)
(* proofs use.                                                             *)
(***************************************************************************)
EXTENDS Store, SequencesExt

\* One turn of the loop: skip what the state covers, else apply the record,
\* trim the history, and take the sequence number.
ReplayRecord(state, rec) ==
  IF rec.seq <= state.lastSeq THEN state
  ELSE [CASE rec.op.kind = "write" ->
               [state EXCEPT !.entries[rec.op.key] = rec.op.val]
          [] rec.op.kind = "history" ->
               [state EXCEPT !.history = Trim(Append(@, rec.op.val))]
          [] rec.op.kind = "epoch" ->
               [state EXCEPT !.epoch = rec.op.epoch, !.boot = rec.op.boot,
                             !.clean = FALSE]
          [] rec.op.kind = "clean" -> [state EXCEPT !.clean = TRUE]
        EXCEPT !.lastSeq = rec.seq]

\* The state that load_state left, with no shutdown seen yet.
ReplayStart(c) ==
  [entries |-> c.entries, history |-> c.history, epoch |-> c.epoch,
   boot |-> c.boot, lastSeq |-> c.lastSeq, clean |-> FALSE]

ReplayLoop(c, l) == FoldLeft(ReplayRecord, ReplayStart(c), l)

-----------------------------------------------------------------------------
\* What the definitions of Store make of a checkpoint and a journal.
LastWrites(c, l) ==
  [entries |-> [id \in Ids |-> RecoveredEntry(c, l, id)],
   history |-> RecoveredHistory(c, l),
   epoch   |-> RecoveredEpoch(c, l),
   boot    |-> RecoveredBoot(c, l),
   lastSeq |-> RecoveredSeq(c, l),
   clean   |-> RecoveredClean(c, l)]

\* Replaying the journal record by record, in any state of the disk, gives
\* what the definitions by the last applied record say.
ReplayIsLastWrite == ReplayLoop(ckpt, log) = LastWrites(ckpt, log)

=============================================================================
