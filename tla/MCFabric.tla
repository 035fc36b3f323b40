------------------------------ MODULE MCFabric ------------------------------
(***************************************************************************)
(* Fabric for TLC: models that name every artefact, and artefacts that are *)
(* registered with several contents.                                       *)
(***************************************************************************)
EXTENDS Fabric

NamesAll == [m \in Models |-> Artefacts]

OneContent == CHOOSE val \in Values : TRUE

ContentsByKind ==
  [id \in Ids |-> IF id \in Artefacts THEN Values ELSE {OneContent}]

=============================================================================
