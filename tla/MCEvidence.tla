----------------------------- MODULE MCEvidence -----------------------------
(***************************************************************************)
(* A client that requires of a server with two resources what it may not    *)
(* have yet, or is no fetch and may do as it likes, and peers of any        *)
(* conduct, of this version of the protocol and of another.                 *)
(***************************************************************************)
EXTENDS Evidence

MCPopulation == <<"r1", "r2">>

Undemanding == [epoch |-> 0, generation |-> 0, since |-> 0, max |-> 2,
                known |-> [r \in {"r1", "r2"} |-> 0], fetches |-> TRUE, native |-> TRUE]

MCOptions(c) ==
  CASE c = "client" ->
         {[Undemanding EXCEPT !.epoch = 2, !.generation = 2, !.since = 1],
          [Undemanding EXCEPT !.generation = 2, !.since = 2, !.max = 1, !.known["r1"] = 2],
          [Undemanding EXCEPT !.fetches = FALSE]}
    [] c = "foreigner" -> {[Undemanding EXCEPT !.fetches = FALSE, !.native = FALSE]}
    [] c = "peer" -> {[Undemanding EXCEPT !.fetches = FALSE]}

=============================================================================
