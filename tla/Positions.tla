------------------------------ MODULE Positions ------------------------------
(***************************************************************************)
(* Positions of a list, taken in the order of the list: the journal records *)
(* a replay appends to the history, the arcs a search meets at a node.      *)
(***************************************************************************)
EXTENDS Integers, FiniteSets

\* The members of a finite set of positions, in order.
InOrder(positions) ==
  CHOOSE e \in [1 .. Cardinality(positions) -> positions] :
    \A a, b \in DOMAIN e : a < b => e[a] < e[b]

=============================================================================
