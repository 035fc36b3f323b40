----------------------------- MODULE MCJournal -----------------------------
(***************************************************************************)
(* Journal for TLC, with the scan of the whole file beside its loop.       *)
(***************************************************************************)
EXTENDS Scanning

\* Payloads are interchangeable.
OpsSymmetry == Permutations(Ops)

=============================================================================
