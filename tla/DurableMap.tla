----------------------------- MODULE DurableMap -----------------------------
(***************************************************************************)
(* What a durable store promises its callers, with no files and no         *)
(* journal: a map from identities to contents that survives the end of the *)
(* process which serves it.  An acknowledged mutation is never lost; a     *)
(* mutation that was not acknowledged may or may not have happened, and    *)
(* the next process settles which; content that is only good for one       *)
(* incarnation comes back as Survives says.                                *)
(***************************************************************************)
CONSTANTS
  Ids,             \* identities under which something may be stored
  Contents,        \* what may be stored
  Absent,          \* the content of an identity that is not stored
  Survives(_, _)   \* what a restart makes of the content of an identity

VARIABLES
  up,    \* TRUE while a process serves the map
  view,  \* the map it serves
  may    \* the contents the next process may find under each identity

vars == <<up, view, may>>

Nothing == [id \in Ids |-> Absent]

Init ==
  /\ up = FALSE /\ view = Nothing
  /\ may = [id \in Ids |-> {Absent}]

\* A mutation is acknowledged: it is served, and nothing else may come back.
Acknowledge(id, content) ==
  /\ up
  /\ view' = [view EXCEPT ![id] = content]
  /\ may' = [may EXCEPT ![id] = {Survives(id, content)}]
  /\ UNCHANGED up

\* A mutation ends without being acknowledged: it failed, or the process died
\* while it ran.
Attempt(id, content) ==
  /\ up
  /\ may' = [may EXCEPT ![id] = @ \cup {Survives(id, content)}]
  /\ up' \in BOOLEAN
  /\ view' = IF up' THEN view ELSE Nothing

\* The process ends, in order or not.
Stop ==
  /\ up /\ up' = FALSE /\ view' = Nothing
  /\ UNCHANGED may

\* The next process serves one of the contents that may be there, for good.
Start ==
  /\ ~up /\ up' = TRUE
  /\ view' \in [Ids -> Contents]
  /\ \A id \in Ids : view'[id] \in may[id]
  /\ may' = [id \in Ids |-> {view'[id]}]

Next ==
  \/ \E id \in Ids, content \in Contents :
       Acknowledge(id, content) \/ Attempt(id, content)
  \/ Stop
  \/ Start

Spec == Init /\ [][Next]_vars
=============================================================================
