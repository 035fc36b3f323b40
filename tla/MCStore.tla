------------------------------ MODULE MCStore ------------------------------
(***************************************************************************)
(* Store for TLC, with the loop of replay_journal beside its definitions.  *)
(***************************************************************************)
EXTENDS Replay

=============================================================================
