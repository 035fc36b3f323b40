------------------------------- MODULE Fabric -------------------------------
(***************************************************************************)
(* The fabric facade and its registry, fabric/fabric.cpp and               *)
(* fabric/registry.cpp, with the threads that call them.                   *)
(*                                                                         *)
(* The registry publishes an immutable view under its own lock, the store  *)
(* serialises its mutations under another, and no lock spans the two: an   *)
(* operation is as many actions as it takes locks or reads shared state.   *)
(* The store is the map that module Store shows it to implement, with      *)
(* mutations that may fail; what the next process recovers is that map.    *)
(*                                                                         *)
(* A view holds versions of identities: policies and demand shapes         *)
(* (Artefacts), models, which are bound to the generations of the          *)
(* artefacts they name, and the authoritative inputs that are not stored   *)
(* (Catalogs).                                                             *)
(***************************************************************************)
EXTENDS Integers, Sequences, FiniteSets

CONSTANTS
  Threads,        \* threads that call the fabric
  Configurers,    \* those that register, remove and set
  Evaluators,     \* those that compute
  Compactors,     \* those that compact
  Closers,        \* those that call shutdown
  Artefacts,      \* identities of policies and demand shapes
  Models,         \* identities of capacity models
  Names,          \* the artefacts a model names
  Catalogs,       \* the authoritative inputs considered
  Values,         \* what a version may hold
  Contents,       \* those that are registered under each identity
  Absent,         \* what a catalog holds before it was ever published
  Supplied,       \* generations a caller may supply, 0 for none
  Widest,         \* the largest generation a counter holds
  MaxHistory,     \* limits.max_history_entries
  Failing,        \* identities whose mutation of the store may fail
  MaxGeneration   \* bound on the generations reached

Durable == Artefacts \cup Models
Ids == Durable \cup Catalogs

\* Inputs that cannot be published before the resource catalog, and inputs
\* without which nothing is evaluated.
Dependent == {"topology", "reservations", "degradation"}
Required == {"resources", "topology", "domains"}

ASSUME FabricAssumption ==
  /\ IsFiniteSet(Threads)
  /\ Configurers \subseteq Threads /\ Evaluators \subseteq Threads
  /\ Compactors \subseteq Threads /\ Closers \subseteq Threads
  /\ Names \in [Models -> SUBSET Artefacts]
  /\ "resources" \in Catalogs
  /\ Catalogs \subseteq Dependent \cup Required
  /\ Artefacts \cap Models = {} /\ Durable \cap Catalogs = {}
  /\ Absent \notin Values /\ Contents \in [Ids -> SUBSET Values]
  /\ Widest \in Nat \ {0} /\ Supplied \subseteq 0 .. Widest
  /\ MaxHistory \in Nat \ {0} /\ MaxGeneration \in Nat
  /\ Failing \subseteq Durable

VARIABLES
  view,       \* state_ of the registry: a version for every identity
  stored,     \* what the durable store holds
  store,      \* store_: open, closed, or released
  stopping,   \* shutting_down_
  active,     \* active_evaluations_
  history,    \* history_: the answers published, oldest first
  pc,         \* where each thread is
  arg,        \* the local variables of its call
  failed,     \* history variable: identities whose last call returned an error
  during      \* history variable: the generations in view during each call

vars == <<view, stored, store, stopping, active, history, pc, arg, failed,
          during>>

registry == <<view, during>>
durability == <<stored, store, failed>>
lifecycle == <<stopping, active>>

-----------------------------------------------------------------------------
(* Versions and generations *)

Unbound == [a \in Artefacts |-> 0]

\* Nothing is registered; generation 0 is the invalid one.
Missing == [gen |-> 0, val |-> Absent, bound |-> Unbound]

\* A catalog starts at generation 1 although it was never published.
Unpublished == [gen |-> 1, val |-> Absent, bound |-> Unbound]

\* Mutant of AdvanceGeneration: a supplied generation is taken as it is.
TakesSupplied(current, supplied) ==
  IF supplied > 0 THEN supplied ELSE current + 1

\* A supplied generation is accepted if it advances the current one; the
\* largest generation stays where it is.
AdvanceGeneration(current, supplied) ==
  IF current = 0 THEN IF supplied > 0 THEN supplied ELSE 1
  ELSE IF current = Widest THEN current
  ELSE IF supplied > current THEN supplied
  ELSE current + 1

\* A model is bound to the generations of what it names at this moment.
Bindings(v, id) ==
  [a \in Artefacts |-> IF id \in Models /\ a \in Names[id] THEN v[a].gen ELSE 0]

\* Mutant of Refused: put_model does not look for what the model names.
RefusedEarly(v, id) == id \in Dependent /\ v["resources"].val = Absent

\* put_model refuses a model that names what is not registered, and the setters
\* an input that comes before the resource catalog.
Refused(v, id) ==
  \/ id \in Models /\ \E a \in Names[id] : v[a] = Missing
  \/ id \in Dependent /\ v["resources"].val = Absent

Put(v, id, val, supplied) ==
  [v EXCEPT ![id] = [gen   |-> AdvanceGeneration(@.gen, supplied),
                     val   |-> val,
                     bound |-> Bindings(v, id)]]

Gens(v) == [id \in DOMAIN v |-> v[id].gen]

-----------------------------------------------------------------------------
(* Evaluation *)

\* An evaluation succeeds if its inputs are there and the model is bound to
\* the generations that are current in the view.
Evaluable(v, m) ==
  /\ v[m] # Missing
  /\ \A a \in Names[m] : v[a] # Missing /\ v[m].bound[a] = v[a].gen
  /\ \A c \in Required \cap Catalogs : v[c].val # Absent

\* A snapshot: the generations it is bound to, with the contents behind them.
Answer(v, ids) ==
  [gens |-> [id \in ids |-> v[id].gen], vals |-> [id \in ids |-> v[id].val]]

Inputs(m) == {m} \cup Names[m] \cup Catalogs

NoAnswer == [gens |-> <<>>, vals |-> <<>>]

\* Mutant of Trim: the history is never trimmed.
Untrimmed(h) == h

Trim(h) == IF Len(h) > MaxHistory
             THEN SubSeq(h, Len(h) - MaxHistory + 1, Len(h)) ELSE h

-----------------------------------------------------------------------------
(* Threads *)

Idle == [call |-> "none"]

Goto(t, place, locals) ==
  /\ pc' = [pc EXCEPT ![t] = place]
  /\ arg' = [arg EXCEPT ![t] = locals]

Return(t) == Goto(t, "idle", Idle)

\* The registry publishes a view; calls that evaluate see it come.
Publish(v) ==
  /\ view' = v
  /\ during' = [t \in Threads |-> IF pc[t] \in {"admit", "evaluate"}
                                    THEN during[t] \cup {Gens(v)} ELSE during[t]]

Init ==
  /\ view = [id \in Ids |-> IF id \in Catalogs THEN Unpublished ELSE Missing]
  /\ stored = [id \in Durable |-> Missing]
  /\ store = "open" /\ stopping = FALSE /\ active = 0 /\ history = <<>>
  /\ pc = [t \in Threads |-> "idle"] /\ arg = [t \in Threads |-> Idle]
  /\ failed = {} /\ during = [t \in Threads |-> {}]

(* Configuration: register_policy, register_demand_shape, register_model,   *)
(* remove_model and the setters of the catalogs.                            *)

\* The call finds the fabric open ...
Register(t, id, val, supplied) ==
  /\ t \in Configurers /\ pc[t] = "idle" /\ ~stopping
  /\ view[id].gen < MaxGeneration /\ supplied <= MaxGeneration
  /\ Goto(t, "put", [call |-> "register", id |-> id, val |-> val,
                     supplied |-> supplied])
  /\ UNCHANGED <<registry, durability, lifecycle, history>>

\* ... puts a version into the registry, which for a catalog is all ...
RegistryPuts(t) ==
  /\ pc[t] = "put"
  /\ LET id == arg[t].id
     IN  IF Refused(view, id)
           THEN Return(t) /\ UNCHANGED registry
           ELSE /\ Publish(Put(view, id, arg[t].val, arg[t].supplied))
                /\ IF id \in Catalogs THEN Return(t)
                                      ELSE Goto(t, "stored?", arg[t])
  /\ UNCHANGED <<durability, lifecycle, history>>

\* ... and for the rest looks up the version that is registered by then.
LooksUp(t) ==
  /\ pc[t] = "stored?" /\ arg[t].call = "register"
  /\ IF store = "released" \/ view[arg[t].id] = Missing
       THEN Return(t)
       ELSE Goto(t, "journal", [call |-> "register", id |-> arg[t].id,
                                version |-> view[arg[t].id]])
  /\ UNCHANGED <<registry, durability, lifecycle, history>>

RemoveModel(t, m) ==
  /\ t \in Configurers /\ pc[t] = "idle" /\ ~stopping
  /\ Goto(t, "erase", [call |-> "remove", id |-> m])
  /\ UNCHANGED <<registry, durability, lifecycle, history>>

RegistryErases(t) ==
  /\ pc[t] = "erase"
  /\ IF view[arg[t].id] = Missing
       THEN Return(t) /\ UNCHANGED registry
       ELSE /\ Publish([view EXCEPT ![arg[t].id] = Missing])
            /\ Goto(t, "stored?", arg[t])
  /\ UNCHANGED <<durability, lifecycle, history>>

RemovesStored(t) ==
  /\ pc[t] = "stored?" /\ arg[t].call = "remove"
  /\ IF store = "released"
       THEN Return(t)
       ELSE Goto(t, "journal", [call |-> "remove", id |-> arg[t].id,
                                version |-> Missing])
  /\ UNCHANGED <<registry, durability, lifecycle, history>>

\* Mutant of Journals: the artefact is journaled as the caller passed it,
\* without the generation that the registry gave it.
JournalsArgument(t) ==
  /\ pc[t] = "journal" /\ store = "open"
  /\ stored' = [stored EXCEPT ![arg[t].id] = [arg[t].version EXCEPT !.gen = 1]]
  /\ failed' = failed \ {arg[t].id}
  /\ Return(t)
  /\ UNCHANGED <<registry, store, lifecycle, history>>

\* The store journals the version and acknowledges it, or returns an error:
\* because it is closed, or because journaling failed, which may leave the
\* version in the journal.  A store that was released meanwhile is gone, and
\* what the call does then is undefined.
Journals(t) ==
  /\ pc[t] = "journal" /\ store # "released"
  /\ LET written == [stored EXCEPT ![arg[t].id] = arg[t].version]
     IN  \/ /\ store = "open" /\ stored' = written
            /\ failed' = failed \ {arg[t].id}
         \/ /\ store = "closed" \/ arg[t].id \in Failing
            /\ stored' \in {stored} \cup {s \in {written} : store = "open"}
            /\ failed' = failed \cup {arg[t].id}
  /\ Return(t)
  /\ UNCHANGED <<registry, store, lifecycle, history>>

(* Evaluation: compute and compute_ad_hoc; fit and predict read a view and  *)
(* leave nothing behind.                                                    *)

\* compute takes the view and copies the model from it.
Compute(t, m) ==
  /\ t \in Evaluators /\ pc[t] = "idle" /\ ~stopping /\ view[m] # Missing
  /\ Goto(t, "admit", [call |-> "compute", model |-> m, view |-> view])
  /\ during' = [during EXCEPT ![t] = {Gens(view)}]
  /\ UNCHANGED <<view, durability, lifecycle, history>>

\* Mutant of Admit: the flag is not read again under the lock.
AdmitUnchecked(t) ==
  /\ pc[t] = "admit"
  /\ Goto(t, "evaluate", arg[t]) /\ active' = active + 1
  /\ UNCHANGED <<registry, durability, stopping, history>>

\* Under lifecycle_mutex_ the flag is read again and the evaluation counted.
Admit(t) ==
  /\ pc[t] = "admit"
  /\ IF stopping
       THEN Return(t) /\ UNCHANGED active
       ELSE Goto(t, "evaluate", arg[t]) /\ active' = active + 1
  /\ UNCHANGED <<registry, durability, stopping, history>>

\* Mutant of Evaluate: the inputs are taken from the view of the moment.
EvaluateLatest(t) ==
  /\ pc[t] = "evaluate"
  /\ LET m == arg[t].model
         v == [view EXCEPT ![m] = arg[t].view[m]]
     IN  Goto(t, "leave",
              [call |-> "compute",
               answer |-> IF Evaluable(v, m) THEN Answer(v, Inputs(m))
                                             ELSE NoAnswer])
  /\ UNCHANGED <<registry, durability, lifecycle, history>>

\* evaluate_view; the token that shutdown cancels is not passed to it.
Evaluate(t) ==
  /\ pc[t] = "evaluate"
  /\ LET m == arg[t].model
         v == arg[t].view
     IN  Goto(t, "leave",
              [call |-> "compute",
               answer |-> IF Evaluable(v, m) THEN Answer(v, Inputs(m))
                                             ELSE NoAnswer])
  /\ UNCHANGED <<registry, durability, lifecycle, history>>

\* Mutant of Leave: an evaluation that failed stays counted.
LeaveCounted(t) ==
  /\ pc[t] = "leave"
  /\ active' = IF arg[t].answer = NoAnswer THEN active ELSE active - 1
  /\ Goto(t, "finish", arg[t])
  /\ UNCHANGED <<registry, durability, stopping, history>>

Leave(t) ==
  /\ pc[t] = "leave"
  /\ active' = active - 1
  /\ Goto(t, "finish", arg[t])
  /\ UNCHANGED <<registry, durability, stopping, history>>

\* A shutdown that began meanwhile cancels the call, an error ends it.
Finish(t) ==
  /\ pc[t] = "finish"
  /\ IF stopping \/ arg[t].answer = NoAnswer
       THEN Return(t) /\ during' = [during EXCEPT ![t] = {}]
       ELSE Goto(t, "publish", arg[t]) /\ UNCHANGED during
  /\ UNCHANGED <<view, durability, lifecycle, history>>

\* compute_ad_hoc evaluates a policy of the caller's on the inputs in the
\* view; it is neither admitted nor counted, and no shutdown cancels it.
ComputeAdHoc(t) ==
  /\ t \in Evaluators /\ pc[t] = "idle" /\ ~stopping
  /\ \A c \in Required \cap Catalogs : view[c].val # Absent
  /\ Goto(t, "publish", [call |-> "adhoc", answer |-> Answer(view, Catalogs)])
  /\ during' = [during EXCEPT ![t] = {Gens(view)}]
  /\ UNCHANGED <<view, durability, lifecycle, history>>

\* publish_snapshot puts the answer into the history ...
PublishSnapshot(t) ==
  /\ pc[t] = "publish"
  /\ history' = Trim(Append(history, arg[t].answer))
  /\ during' = [during EXCEPT ![t] = {}]
  /\ IF store = "released" THEN Return(t)
                           ELSE Goto(t, "append", [call |-> arg[t].call])
  /\ UNCHANGED <<view, durability, lifecycle>>

\* ... and then into that of the store, as compact hands over to it.
CompactStore(t) ==
  /\ t \in Compactors /\ pc[t] = "idle" /\ store # "released"
  /\ Goto(t, "append", [call |-> "compact"])
  /\ UNCHANGED <<registry, durability, lifecycle, history>>

StoreReturns(t) ==
  /\ pc[t] = "append" /\ store # "released"
  /\ Return(t)
  /\ UNCHANGED <<registry, durability, lifecycle, history>>

(* shutdown: only the first call does anything.                              *)

Shutdown(t) ==
  /\ t \in Closers /\ pc[t] = "idle" /\ ~stopping
  /\ stopping' = TRUE
  /\ Goto(t, "wait", [call |-> "shutdown"])
  /\ UNCHANGED <<registry, durability, active, history>>

ShutdownWaits(t) ==
  /\ pc[t] = "wait" /\ active = 0
  /\ Goto(t, "close", arg[t])
  /\ UNCHANGED <<registry, durability, lifecycle, history>>

ShutdownCloses(t) ==
  /\ pc[t] = "close"
  /\ store' = "closed"
  /\ Goto(t, "release", arg[t])
  /\ UNCHANGED <<registry, stored, failed, lifecycle, history>>

ShutdownReleases(t) ==
  /\ pc[t] = "release"
  /\ store' = "released"
  /\ Return(t)
  /\ UNCHANGED <<registry, stored, failed, lifecycle, history>>

\* A thread goes on with its call.
Step(t) ==
  \/ RegistryPuts(t) \/ LooksUp(t) \/ RegistryErases(t) \/ RemovesStored(t)
  \/ Journals(t)
  \/ Admit(t) \/ Evaluate(t) \/ Leave(t) \/ Finish(t)
  \/ PublishSnapshot(t) \/ StoreReturns(t)
  \/ ShutdownWaits(t) \/ ShutdownCloses(t) \/ ShutdownReleases(t)

\* A thread begins a call.
Call(t) ==
  \/ \E id \in Ids : \E val \in Contents[id], supplied \in Supplied :
       Register(t, id, val, supplied)
  \/ \E m \in Models : RemoveModel(t, m) \/ Compute(t, m)
  \/ ComputeAdHoc(t) \/ CompactStore(t) \/ Shutdown(t)

Next == \E t \in Threads : Step(t) \/ Call(t)

Spec == Init /\ [][Next]_vars

\* Threads are scheduled, and an evaluation comes to its end.
FairSpec == Spec /\ \A t \in Threads : WF_vars(Step(t))

-----------------------------------------------------------------------------
(* Properties *)

Generations == 0 .. Widest

Version ==
  [gen : Generations, val : Values \cup {Absent},
   bound : [Artefacts -> Generations]]

Answers ==
  UNION {[gens : [ids -> Generations], vals : [ids -> Values \cup {Absent}]] :
           ids \in SUBSET Ids}

Places ==
  {"idle", "put", "stored?", "erase", "journal", "admit", "evaluate", "leave",
   "finish", "publish", "append", "wait", "close", "release"}

\* The shape of every variable, and the bound on the history.
TypeOK ==
  /\ view \in [Ids -> Version] /\ stored \in [Durable -> Version]
  /\ store \in {"open", "closed", "released"}
  /\ stopping \in BOOLEAN /\ active \in 0 .. Cardinality(Threads)
  /\ history \in Seq(Answers) /\ Len(history) <= MaxHistory
  /\ pc \in [Threads -> Places]
  /\ failed \subseteq Durable

\* "A consumer that binds to one generation can detect every later change": an
\* answer that was computed from the generation of a policy, a demand shape or
\* an input that is current was computed from what it holds now, as long as
\* the counter is not exhausted.
GenerationsIdentifyContents ==
  \A i \in DOMAIN history :
    \A id \in DOMAIN history[i].gens \ Models :
      history[i].gens[id] = view[id].gen /\ view[id].gen < Widest =>
        history[i].vals[id] = view[id].val

\* An answer is what an evaluation of one view gives, and of one that the
\* registry held while the call ran, however many were published meanwhile.
AnswersAreOfOneView ==
  \A t \in Threads :
    pc[t] \in {"leave", "finish", "publish"} /\ arg[t].answer # NoAnswer =>
      \E g \in during[t] :
        \A id \in DOMAIN arg[t].answer.gens : arg[t].answer.gens[id] = g[id]

\* Threads that have changed the registry and not the store yet.
Between(id) ==
  {t \in Threads : pc[t] \in {"stored?", "journal"} /\ arg[t].id = id}

\* "A durable mutation is never acknowledged before the record is on stable
\* storage": what is registered under an identity is what the store holds,
\* but for a call that is still under way or that returned an error.
AcknowledgedIsStored ==
  \A id \in Durable :
    Between(id) = {} /\ id \notin failed => stored[id] = view[id]

\* A model that the next process recovers names artefacts which it recovers
\* too, unless storing them was reported to fail.
StoredModelsAreWhole ==
  \A m \in Models :
    stored[m] # Missing =>
      \A a \in Names[m] \ failed :
        stored[a] # Missing /\ stored[m].bound[a] <= stored[a].gen

\* "Shutdown stops accepting work, cancels work in flight, waits for it to
\* finish, and releases the store": nothing is being evaluated once the wait
\* is over.
ShutdownWaited ==
  (store # "open" \/ \E t \in Threads : pc[t] \in {"close", "release"}) =>
    \A t \in Threads : pc[t] # "evaluate"

\* "... and only then releases resources": no call is about to use a store
\* that shutdown released.
ReleasedStoreIsUnused ==
  store = "released" => \A t \in Threads : pc[t] \notin {"journal", "append"}

\* A binding holds while every generation is the one it was bound to.
Matches(bound, current) == \A id \in DOMAIN bound : bound[id] = current[id]

\* What validate_snapshot takes to be current: the generations of the catalogs
\* are those of the view, and those of model, policy and demand shape are
\* copied from the snapshot.
Current(answer) ==
  [id \in DOMAIN answer.gens |-> IF id \in Catalogs THEN view[id].gen ELSE answer.gens[id]]

Validates(answer) == Matches(answer.gens, Current(answer))

\* "A snapshot whose binding no longer matches" is rejected, whichever of its
\* inputs changed.
StaleAnswersAreRejected ==
  \A i \in DOMAIN history :
    Validates(history[i]) =>
      \A id \in DOMAIN history[i].gens : history[i].gens[id] = view[id].gen

\* A shutdown that began ends, whatever is being evaluated.
ShutdownCompletes == stopping ~> store = "released"

=============================================================================
