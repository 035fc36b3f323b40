---------------------------- MODULE FabricProofs ----------------------------
(***************************************************************************)
(* Proofs about Fabric for any number of threads, whatever they call: what *)
(* shutdown may rely on once its wait is over, what a generation says of    *)
(* the contents it was bound to, and that an answer is of one view.  For   *)
(* one thread that configures: what is registered is what is stored.       *)
(***************************************************************************)
EXTENDS Fabric, TLAPS, FiniteSetTheorems, SequenceTheorems

-----------------------------------------------------------------------------
(* Shutdown *)

\* The evaluations that are counted, and the ends of the wait for them.
Counted == {t \in Threads : pc[t] \in {"evaluate", "leave"}}
Waited == store # "open" \/ \E t \in Threads : pc[t] \in {"close", "release"}

\* Shutdown waits for a count of zero, so the count must be that of the
\* threads it stands for, and no thread may be counted once the flag is seen.
LifeInv ==
  /\ pc \in [Threads -> Places] /\ active \in Nat
  /\ active = Cardinality(Counted)
  /\ \A t \in Threads : pc[t] \in {"wait", "close", "release"} => stopping
  /\ store # "open" => stopping
  /\ Waited => Counted = {}

LEMMA CountedFinite == IsFiniteSet(Counted) /\ Cardinality(Counted) \in Nat
<1>1. Counted \in SUBSET Threads
  BY DEF Counted
<1>2. QED
  BY <1>1, FabricAssumption, FS_Subset, FS_CardinalityType

LEMMA LifeInit == Init => LifeInv
<1> SUFFICES ASSUME Init PROVE LifeInv
  OBVIOUS
<1>1. pc \in [Threads -> Places] /\ \A t \in Threads : pc[t] = "idle"
  BY DEF Init, Places
<1>2. Counted = {}
  BY <1>1 DEF Counted
<1>3. Cardinality(Counted) = 0
  BY <1>2, FS_EmptySet
<1>4. QED
  BY <1>1, <1>2, <1>3 DEF Init, LifeInv, Waited

\* A step between two places where a thread is not counted leaves the count,
\* and the end of a wait can only be reached by a step of shutdown.
LEMMA UncountedStep ==
  ASSUME LifeInv, NEW t \in Threads, NEW place \in Places,
         pc[t] \notin {"evaluate", "leave"}, place \notin {"evaluate", "leave"},
         pc' = [pc EXCEPT ![t] = place],
         active' = active, stopping' = stopping, store' = store,
         place \notin {"wait", "close", "release"}
  PROVE  LifeInv'
<1>1. pc' \in [Threads -> Places]
  BY DEF LifeInv
<1>2. \A u \in Threads : pc'[u] = IF u = t THEN place ELSE pc[u]
  BY DEF LifeInv
<1>3. Counted' = Counted
  BY <1>2 DEF Counted
<1>4. Waited' => Waited
  BY <1>2 DEF Waited
<1>5. \A u \in Threads : pc'[u] \in {"wait", "close", "release"} => stopping'
  BY <1>2 DEF LifeInv
<1>6. QED
  BY <1>1, <1>3, <1>4, <1>5 DEF LifeInv

\* A step between two places where a thread is counted.
LEMMA CountedStep ==
  ASSUME LifeInv, NEW t \in Threads, Evaluate(t)
  PROVE  LifeInv'
<1>1. /\ pc[t] = "evaluate" /\ pc' = [pc EXCEPT ![t] = "leave"]
      /\ active' = active /\ stopping' = stopping /\ store' = store
  BY DEF Evaluate, Goto, lifecycle, durability
<1>2. pc' \in [Threads -> Places]
  BY <1>1 DEF LifeInv, Places
<1>3. \A u \in Threads : pc'[u] = IF u = t THEN "leave" ELSE pc[u]
  BY <1>1 DEF LifeInv
<1>4. Counted' = Counted
  BY <1>1, <1>3 DEF Counted
<1>5. Waited' => Waited
  BY <1>1, <1>3 DEF Waited
<1>6. \A u \in Threads : pc'[u] \in {"wait", "close", "release"} => stopping'
  BY <1>1, <1>3 DEF LifeInv
<1>7. QED
  BY <1>1, <1>2, <1>4, <1>5, <1>6 DEF LifeInv

LEMMA AdmitCounts ==
  ASSUME LifeInv, NEW t \in Threads, Admit(t)
  PROVE  LifeInv'
<1>1. CASE stopping
  <2>1. /\ pc[t] = "admit" /\ pc' = [pc EXCEPT ![t] = "idle"]
        /\ active' = active /\ stopping' = stopping /\ store' = store
    BY <1>1 DEF Admit, Return, Goto, durability
  <2>2. QED
    BY <2>1, UncountedStep DEF Places
<1>2. CASE ~stopping
  <2>1. /\ pc[t] = "admit" /\ pc' = [pc EXCEPT ![t] = "evaluate"]
        /\ active' = active + 1 /\ stopping' = stopping /\ store' = store
    BY <1>2 DEF Admit, Goto, durability
  <2>2. pc' \in [Threads -> Places]
    BY <2>1 DEF LifeInv, Places
  <2>3. \A u \in Threads : pc'[u] = IF u = t THEN "evaluate" ELSE pc[u]
    BY <2>1 DEF LifeInv
  <2>4. Counted' = Counted \cup {t} /\ t \notin Counted
    BY <2>1, <2>3 DEF Counted
  <2>5. active' = Cardinality(Counted')
    BY <2>1, <2>4, CountedFinite, FS_AddElement DEF LifeInv
  <2>6. ~Waited'
    <3>1. store' = "open"
      BY <1>2, <2>1 DEF LifeInv
    <3>2. \A u \in Threads : pc'[u] \notin {"close", "release"}
      BY <1>2, <2>3 DEF LifeInv
    <3>3. QED
      BY <3>1, <3>2 DEF Waited
  <2>7. \A u \in Threads : pc'[u] \in {"wait", "close", "release"} => stopping'
    BY <2>1, <2>3 DEF LifeInv
  <2>8. QED
    BY <2>1, <2>2, <2>5, <2>6, <2>7 DEF LifeInv
<1>3. QED
  BY <1>1, <1>2

LEMMA LeaveDiscounts ==
  ASSUME LifeInv, NEW t \in Threads, Leave(t)
  PROVE  LifeInv'
<1>1. /\ pc[t] = "leave" /\ pc' = [pc EXCEPT ![t] = "finish"]
      /\ active' = active - 1 /\ stopping' = stopping /\ store' = store
  BY DEF Leave, Goto, durability
<1>2. pc' \in [Threads -> Places]
  BY <1>1 DEF LifeInv, Places
<1>3. \A u \in Threads : pc'[u] = IF u = t THEN "finish" ELSE pc[u]
  BY <1>1 DEF LifeInv
<1>4. Counted' = Counted \ {t} /\ t \in Counted
  BY <1>1, <1>3 DEF Counted
<1>5. active' = Cardinality(Counted') /\ active' \in Nat
  <2>1. IsFiniteSet(Counted)
    BY CountedFinite
  <2>2. IsFiniteSet(Counted \ {t}) /\ Cardinality(Counted \ {t}) = Cardinality(Counted) - 1
    BY <2>1, <1>4, FS_RemoveElement
  <2>3. Cardinality(Counted \ {t}) \in Nat
    BY <2>2, FS_CardinalityType
  <2>4. QED
    BY <1>1, <1>4, <2>2, <2>3 DEF LifeInv
<1>6. Waited' => Waited
  BY <1>1, <1>3 DEF Waited
<1>7. \A u \in Threads : pc'[u] \in {"wait", "close", "release"} => stopping'
  BY <1>1, <1>3 DEF LifeInv
<1>8. QED
  BY <1>1, <1>2, <1>4, <1>5, <1>6, <1>7 DEF LifeInv

\* The steps of shutdown: the flag, the wait, the store.
LEMMA ShutdownSteps ==
  ASSUME LifeInv, NEW t \in Threads,
         \/ Shutdown(t) \/ ShutdownWaits(t) \/ ShutdownCloses(t)
         \/ ShutdownReleases(t)
  PROVE  LifeInv'
<1>1. PICK place \in {"wait", "close", "release", "idle"} :
         /\ pc' = [pc EXCEPT ![t] = place]
         /\ active' = active /\ stopping' /\ stopping' \in BOOLEAN
         /\ pc[t] \in {"idle", "wait", "close", "release"}
         /\ place = "wait" => store' = store /\ ~stopping
         /\ place = "close" => active = 0 /\ store' = store
         /\ place = "release" => pc[t] = "close"
         /\ place = "idle" => pc[t] = "release"
  <2>1. CASE Shutdown(t)
    BY <2>1, Zenon DEF Shutdown, Goto, durability
  <2>2. CASE ShutdownWaits(t)
    BY <2>2, Zenon DEF ShutdownWaits, Goto, durability, lifecycle, LifeInv
  <2>3. CASE ShutdownCloses(t)
    BY <2>3, Zenon DEF ShutdownCloses, Goto, lifecycle, LifeInv
  <2>4. CASE ShutdownReleases(t)
    BY <2>4, Zenon DEF ShutdownReleases, Return, Goto, lifecycle, LifeInv
  <2>5. QED
    BY <2>1, <2>2, <2>3, <2>4
<1>2. pc' \in [Threads -> Places]
  BY <1>1 DEF LifeInv, Places
<1>3. \A u \in Threads : pc'[u] = IF u = t THEN place ELSE pc[u]
  BY <1>1 DEF LifeInv
<1>4. Counted' = Counted
  BY <1>1, <1>3 DEF Counted
<1>5. Waited' => Counted = {}
  <2>1. CASE place = "wait"
    BY <1>1, <1>3, <2>1 DEF Waited, LifeInv
  <2>2. CASE place = "close"
    <3>1. Cardinality(Counted) = 0
      BY <1>1, <2>2 DEF LifeInv
    <3>2. QED
      BY <3>1, CountedFinite, FS_EmptySet
  <2>3. CASE place \in {"release", "idle"}
    BY <1>1, <2>3 DEF Waited, LifeInv
  <2>4. QED
    BY <2>1, <2>2, <2>3
<1>6. QED
  BY <1>1, <1>2, <1>4, <1>5 DEF LifeInv

\* Every other step moves its thread between places that are not counted.
LEMMA OtherSteps ==
  ASSUME LifeInv, NEW t \in Threads,
         \/ RegistryPuts(t) \/ LooksUp(t) \/ RegistryErases(t)
         \/ RemovesStored(t) \/ Journals(t) \/ Finish(t)
         \/ PublishSnapshot(t) \/ StoreReturns(t)
         \/ (\E id \in Ids : \E val \in Contents[id], supplied \in Supplied :
               Register(t, id, val, supplied))
         \/ (\E m \in Models : RemoveModel(t, m) \/ Compute(t, m))
         \/ ComputeAdHoc(t) \/ CompactStore(t)
  PROVE  LifeInv'
<1> DEFINE Quiet == Places \ {"evaluate", "leave", "wait", "close", "release"}
<1>1. active' = active /\ stopping' = stopping /\ store' = store
  BY DEF RegistryPuts, LooksUp, RegistryErases, RemovesStored, Journals, Finish,
     PublishSnapshot, StoreReturns, Register, RemoveModel, Compute, ComputeAdHoc,
     CompactStore, lifecycle, durability
<1>2. pc[t] \notin {"evaluate", "leave"}
  BY DEF RegistryPuts, LooksUp, RegistryErases, RemovesStored, Journals, Finish,
     PublishSnapshot, StoreReturns, Register, RemoveModel, Compute, ComputeAdHoc,
     CompactStore
<1>3. \E place \in Quiet : pc' = [pc EXCEPT ![t] = place]
  <2>1. CASE RegistryPuts(t) \/ LooksUp(t) \/ RegistryErases(t)
    BY <2>1 DEF RegistryPuts, LooksUp, RegistryErases, Goto, Return, Places
  <2>2. CASE RemovesStored(t) \/ Journals(t) \/ Finish(t) \/ PublishSnapshot(t)
             \/ StoreReturns(t)
    BY <2>2 DEF RemovesStored, Journals, Finish, PublishSnapshot, StoreReturns,
       Goto, Return, Places
  <2>3. CASE ComputeAdHoc(t) \/ CompactStore(t)
    BY <2>3 DEF ComputeAdHoc, CompactStore, Goto, Places
  <2>4. CASE \E m \in Models : RemoveModel(t, m) \/ Compute(t, m)
    BY <2>4 DEF RemoveModel, Compute, Goto, Places
  <2>5. CASE \E id \in Ids : \E val \in Contents[id], supplied \in Supplied :
               Register(t, id, val, supplied)
    BY <2>5 DEF Register, Goto, Places
  <2>6. QED
    BY <2>1, <2>2, <2>3, <2>4, <2>5
<1>4. PICK place \in Quiet : pc' = [pc EXCEPT ![t] = place]
  BY <1>3
<1>5. QED
  BY <1>1, <1>2, <1>4, UncountedStep

LEMMA LifeNext == LifeInv /\ [Next]_vars => LifeInv'
<1> SUFFICES ASSUME LifeInv, [Next]_vars PROVE LifeInv'
  OBVIOUS
<1>1. CASE UNCHANGED vars
  BY <1>1 DEF vars, LifeInv, Counted, Waited
<1>2. CASE Next
  <2>1. PICK t \in Threads : Step(t) \/ Call(t)
    BY <1>2 DEF Next
  <2>2. QED
    BY <2>1, CountedStep, AdmitCounts, LeaveDiscounts, ShutdownSteps, OtherSteps
       DEF Step, Call
<1>3. QED
  BY <1>1, <1>2

\* Whatever threads call, no evaluation that was admitted is still running when
\* shutdown closes or has released the store.
THEOREM ShutdownWaitsForEvaluations == Spec => []ShutdownWaited
<1>1. LifeInv => ShutdownWaited
  BY DEF LifeInv, ShutdownWaited, Waited, Counted
<1>2. QED
  BY LifeInit, LifeNext, <1>1, PTL DEF Spec

-----------------------------------------------------------------------------
(* Types *)

\* What the local variables of a call hold at each of its places.
LocalsOK(place, locals) ==
  /\ place = "put" => /\ locals.id \in Ids /\ locals.val \in Values
                      /\ locals.supplied \in Supplied
  /\ place = "erase" => locals.id \in Models
  /\ place = "stored?" => locals.id \in Durable
  /\ place = "journal" => locals.id \in Durable /\ locals.version \in Version
  /\ place \in {"admit", "evaluate"} =>
       locals.model \in Models /\ locals.view \in [Ids -> Version]
  /\ place \in {"leave", "finish"} => locals.answer \in Answers \cup {NoAnswer}
  /\ place = "publish" => locals.answer \in Answers

TypeInv ==
  /\ view \in [Ids -> Version] /\ stored \in [Durable -> Version]
  /\ store \in {"open", "closed", "released"} /\ stopping \in BOOLEAN
  /\ history \in Seq(Answers) /\ Len(history) <= MaxHistory
  /\ failed \subseteq Durable
  /\ DOMAIN pc = Threads /\ DOMAIN arg = Threads
  /\ \A t \in Threads : LocalsOK(pc[t], arg[t])

LEMMA UnboundType == Unbound \in [Artefacts -> Generations]
<1>1. 0 \in Generations
  BY FabricAssumption DEF Generations
<1>2. QED
  BY <1>1 DEF Unbound

LEMMA MissingType == Missing \in Version /\ Unpublished \in Version
<1>1. 0 \in Generations /\ 1 \in Generations
  BY FabricAssumption DEF Generations
<1>2. QED
  BY <1>1, UnboundType DEF Missing, Unpublished, Version

\* The generation of a version that is put in place of another is larger, or
\* the largest there is.
LEMMA GenerationAdvances ==
  ASSUME NEW current \in Generations, NEW supplied \in Supplied
  PROVE  /\ AdvanceGeneration(current, supplied) \in Generations
         /\ \/ AdvanceGeneration(current, supplied) > current
            \/ AdvanceGeneration(current, supplied) = current /\ current = Widest
<1>1. Widest \in Nat /\ Widest > 0 /\ supplied \in Nat /\ supplied <= Widest
  BY FabricAssumption
<1>2. QED
  BY <1>1 DEF AdvanceGeneration, Generations

LEMMA PutType ==
  ASSUME view \in [Ids -> Version], NEW id \in Ids, NEW val \in Values,
         NEW supplied \in Supplied
  PROVE  /\ Put(view, id, val, supplied) \in [Ids -> Version]
         /\ \A other \in Ids \ {id} :
              Put(view, id, val, supplied)[other] = view[other]
         /\ Put(view, id, val, supplied)[id].gen =
              AdvanceGeneration(view[id].gen, supplied)
<1>1. \A i \in Ids : view[i].gen \in Generations
  BY DEF Version
<1>2. 0 \in Generations /\ Artefacts \subseteq Ids
  BY FabricAssumption DEF Generations, Ids, Durable
<1>3. Bindings(view, id) \in [Artefacts -> Generations]
  BY <1>1, <1>2 DEF Bindings
<1>4. AdvanceGeneration(view[id].gen, supplied) \in Generations
  BY <1>1, GenerationAdvances
<1> DEFINE new == [gen |-> AdvanceGeneration(view[id].gen, supplied),
                   val |-> val, bound |-> Bindings(view, id)]
<1>5. new \in Version
  BY <1>3, <1>4 DEF Version
<1>6. Put(view, id, val, supplied) = [view EXCEPT ![id] = new]
  BY DEF Put
<1>7. new.gen = AdvanceGeneration(view[id].gen, supplied)
  OBVIOUS
<1> HIDE DEF new
<1>8. QED
  BY <1>5, <1>6, <1>7

LEMMA AnswerType ==
  ASSUME NEW v \in [Ids -> Version], NEW ids \in SUBSET Ids
  PROVE  Answer(v, ids) \in Answers
<1>1. [id \in ids |-> v[id].gen] \in [ids -> Generations]
  BY DEF Version
<1>2. [id \in ids |-> v[id].val] \in [ids -> Values \cup {Absent}]
  BY DEF Version
<1>3. Answer(v, ids) \in [gens : [ids -> Generations],
                          vals : [ids -> Values \cup {Absent}]]
  BY <1>1, <1>2 DEF Answer
<1>4. QED
  BY <1>3 DEF Answers

LEMMA InputsIds ==
  ASSUME NEW m \in Models
  PROVE  Inputs(m) \subseteq Ids
BY FabricAssumption DEF Inputs, Ids, Durable

\* Trimming keeps the end of the history.
LEMMA TrimType ==
  ASSUME NEW h \in Seq(Answers)
  PROVE  /\ Trim(h) \in Seq(Answers) /\ Len(Trim(h)) <= MaxHistory
         /\ \A i \in DOMAIN Trim(h) : \E j \in DOMAIN h : Trim(h)[i] = h[j]
<1>1. Len(h) \in Nat /\ DOMAIN h = 1 .. Len(h) /\ MaxHistory \in Nat /\ MaxHistory > 0
  BY LenProperties, FabricAssumption
<1>2. CASE Len(h) <= MaxHistory
  BY <1>1, <1>2 DEF Trim
<1>3. CASE Len(h) > MaxHistory
  <2> DEFINE m == Len(h) - MaxHistory + 1
  <2>1. /\ m \in 1 .. Len(h) + 1 /\ Len(h) \in 0 .. Len(h) /\ m <= Len(h)
        /\ Len(h) - m + 1 = MaxHistory
    BY <1>1, <1>3
  <2>2. Trim(h) = SubSeq(h, m, Len(h))
    BY <1>1, <1>3 DEF Trim
  <2> HIDE DEF m
  <2>3. /\ SubSeq(h, m, Len(h)) \in Seq(Answers)
        /\ Len(SubSeq(h, m, Len(h))) = MaxHistory
        /\ \A i \in 1 .. MaxHistory : SubSeq(h, m, Len(h))[i] = h[m + i - 1]
    BY <1>1, <2>1, SubSeqProperties
  <2>4. DOMAIN Trim(h) = 1 .. MaxHistory
    BY <2>2, <2>3, LenProperties
  <2>5. \A i \in 1 .. MaxHistory : m + i - 1 \in DOMAIN h
    BY <1>1, <2>1
  <2>6. QED
    BY <1>1, <2>2, <2>3, <2>4, <2>5
<1>4. QED
  BY <1>1, <1>2, <1>3

LEMMA TypeInit == Init => TypeInv
<1> SUFFICES ASSUME Init PROVE TypeInv
  OBVIOUS
<1>1. view \in [Ids -> Version] /\ stored \in [Durable -> Version]
  BY MissingType DEF Init, Ids
<1>2. history \in Seq(Answers) /\ Len(history) <= MaxHistory
  <2>1. history = <<>> /\ Len(<<>>) = 0 /\ <<>> \in Seq(Answers)
    BY EmptySeq DEF Init
  <2>2. QED
    BY <2>1, FabricAssumption
<1>3. \A t \in Threads : LocalsOK(pc[t], arg[t])
  BY DEF Init, LocalsOK
<1>4. QED
  BY <1>1, <1>2, <1>3 DEF Init, TypeInv

\* A thread that goes on leaves the others where they are.
LEMMA GotoLocals ==
  ASSUME TypeInv, NEW t \in Threads, NEW place, NEW locals,
         Goto(t, place, locals), LocalsOK(place, locals)
  PROVE  /\ DOMAIN pc' = Threads /\ DOMAIN arg' = Threads
         /\ \A u \in Threads : LocalsOK(pc'[u], arg'[u])
<1>1. /\ DOMAIN pc' = Threads /\ DOMAIN arg' = Threads
      /\ pc'[t] = place /\ arg'[t] = locals
      /\ \A u \in Threads \ {t} : pc'[u] = pc[u] /\ arg'[u] = arg[u]
  BY DEF Goto, TypeInv
<1>2. ASSUME NEW u \in Threads PROVE LocalsOK(pc'[u], arg'[u])
  <2>1. CASE u = t
    BY <1>1, <2>1
  <2>2. CASE u # t
    BY <1>1, <2>2 DEF TypeInv
  <2>3. QED
    BY <2>1, <2>2
<1>3. QED
  BY <1>1, <1>2

LEMMA ReturnLocals ==
  ASSUME TypeInv, NEW t \in Threads, Return(t)
  PROVE  /\ DOMAIN pc' = Threads /\ DOMAIN arg' = Threads
         /\ \A u \in Threads : LocalsOK(pc'[u], arg'[u])
<1>1. LocalsOK("idle", Idle)
  BY DEF LocalsOK
<1>2. QED
  BY <1>1, GotoLocals DEF Return

\* A configuration call.
LEMMA ConfigurationTypes ==
  ASSUME TypeInv, NEW t \in Threads,
         \/ \E id \in Ids : \E val \in Contents[id], supplied \in Supplied :
              Register(t, id, val, supplied)
         \/ \E m \in Models : RemoveModel(t, m)
         \/ RegistryPuts(t) \/ LooksUp(t) \/ RegistryErases(t)
         \/ RemovesStored(t) \/ Journals(t)
  PROVE  TypeInv'
<1>1. CASE \E id \in Ids : \E val \in Contents[id], supplied \in Supplied :
             Register(t, id, val, supplied)
  <2>1. PICK id \in Ids : \E val \in Contents[id], supplied \in Supplied :
               Register(t, id, val, supplied)
    BY <1>1
  <2>2. PICK val \in Contents[id], supplied \in Supplied :
               Register(t, id, val, supplied)
    BY <2>1
  <2> DEFINE l == [call |-> "register", id |-> id, val |-> val,
                   supplied |-> supplied]
  <2>3. LocalsOK("put", l)
    BY FabricAssumption DEF LocalsOK
  <2>4. Goto(t, "put", l)
    BY <2>2 DEF Register
  <2>5. UNCHANGED <<view, stored, store, stopping, history, failed>>
    BY <2>2 DEF Register, registry, durability, lifecycle
  <2> HIDE DEF l
  <2>6. QED
    BY <2>3, <2>4, <2>5, GotoLocals DEF TypeInv
<1>2. CASE \E m \in Models : RemoveModel(t, m)
  <2>1. PICK m \in Models : RemoveModel(t, m)
    BY <1>2
  <2>2. LocalsOK("erase", [call |-> "remove", id |-> m])
    BY DEF LocalsOK
  <2>3. QED
    BY <2>1, <2>2, GotoLocals DEF TypeInv, RemoveModel, registry, durability, lifecycle
<1>3. CASE RegistryPuts(t)
  <2>1. UNCHANGED <<stored, store, stopping, history, failed>> /\ pc[t] = "put"
    BY <1>3 DEF RegistryPuts, durability, lifecycle
  <2>2. arg[t].id \in Ids /\ arg[t].val \in Values /\ arg[t].supplied \in Supplied
    BY <2>1 DEF TypeInv, LocalsOK
  <2>3. CASE Refused(view, arg[t].id)
    BY <1>3, <2>1, <2>3, ReturnLocals DEF RegistryPuts, TypeInv, registry
  <2>4. CASE ~Refused(view, arg[t].id)
    <3>1. view' = Put(view, arg[t].id, arg[t].val, arg[t].supplied)
      BY <1>3, <2>4 DEF RegistryPuts, Publish
    <3>2. view' \in [Ids -> Version]
      BY <2>2, <3>1, PutType DEF TypeInv
    <3>3. LocalsOK("stored?", arg[t]) \/ arg[t].id \in Catalogs
      BY <2>2 DEF LocalsOK, Ids
    <3>4. QED
      BY <1>3, <2>1, <2>4, <3>2, <3>3, ReturnLocals, GotoLocals DEF RegistryPuts, TypeInv
  <2>5. QED
    BY <2>3, <2>4
<1>4. CASE LooksUp(t)
  <2>1. UNCHANGED <<view, stored, store, stopping, history, failed>>
        /\ pc[t] = "stored?"
    BY <1>4 DEF LooksUp, registry, durability, lifecycle
  <2>2. arg[t].id \in Durable /\ view[arg[t].id] \in Version
    BY <2>1 DEF TypeInv, LocalsOK, Ids
  <2>3. LocalsOK("journal", [call |-> "register", id |-> arg[t].id,
                             version |-> view[arg[t].id]])
    BY <2>2 DEF LocalsOK
  <2>4. QED
    BY <1>4, <2>1, <2>3, ReturnLocals, GotoLocals DEF LooksUp, TypeInv
<1>5. CASE RegistryErases(t)
  <2>1. UNCHANGED <<stored, store, stopping, history, failed>> /\ pc[t] = "erase"
    BY <1>5 DEF RegistryErases, durability, lifecycle
  <2>2. arg[t].id \in Models /\ arg[t].id \in Ids
    BY <2>1 DEF TypeInv, LocalsOK, Ids, Durable
  <2>3. CASE view[arg[t].id] = Missing
    BY <1>5, <2>1, <2>3, ReturnLocals DEF RegistryErases, TypeInv, registry
  <2>4. CASE view[arg[t].id] # Missing
    <3>1. view' = [view EXCEPT ![arg[t].id] = Missing]
      BY <1>5, <2>4 DEF RegistryErases, Publish
    <3>2. view' \in [Ids -> Version]
      BY <2>2, <3>1, MissingType DEF TypeInv
    <3>3. LocalsOK("stored?", arg[t])
      BY <2>2 DEF LocalsOK, Durable
    <3>4. QED
      BY <1>5, <2>1, <2>4, <3>2, <3>3, GotoLocals DEF RegistryErases, TypeInv
  <2>5. QED
    BY <2>3, <2>4
<1>6. CASE RemovesStored(t)
  <2>1. UNCHANGED <<view, stored, store, stopping, history, failed>>
        /\ pc[t] = "stored?"
    BY <1>6 DEF RemovesStored, registry, durability, lifecycle
  <2>2. LocalsOK("journal", [call |-> "remove", id |-> arg[t].id,
                             version |-> Missing])
    BY <2>1, MissingType DEF TypeInv, LocalsOK
  <2>3. QED
    BY <1>6, <2>1, <2>2, ReturnLocals, GotoLocals DEF RemovesStored, TypeInv
<1>7. CASE Journals(t)
  <2>1. UNCHANGED <<view, store, stopping, history>> /\ pc[t] = "journal"
    BY <1>7 DEF Journals, registry, lifecycle
  <2>2. arg[t].id \in Durable /\ arg[t].version \in Version
    BY <2>1 DEF TypeInv, LocalsOK
  <2>3. [stored EXCEPT ![arg[t].id] = arg[t].version] \in [Durable -> Version]
    BY <2>2 DEF TypeInv
  <2>4. stored' \in [Durable -> Version] /\ failed' \subseteq Durable
    BY <1>7, <2>2, <2>3 DEF Journals, TypeInv
  <2>5. QED
    BY <1>7, <2>1, <2>4, ReturnLocals DEF Journals, TypeInv
<1>8. QED
  BY <1>1, <1>2, <1>3, <1>4, <1>5, <1>6, <1>7

\* An evaluation.
LEMMA EvaluationTypes ==
  ASSUME TypeInv, NEW t \in Threads,
         \/ \E m \in Models : Compute(t, m)
         \/ Admit(t) \/ Evaluate(t) \/ Leave(t) \/ Finish(t)
         \/ ComputeAdHoc(t) \/ PublishSnapshot(t)
  PROVE  TypeInv'
<1>1. CASE \E m \in Models : Compute(t, m)
  <2>1. PICK m \in Models : Compute(t, m)
    BY <1>1
  <2>2. LocalsOK("admit", [call |-> "compute", model |-> m, view |-> view])
    BY DEF LocalsOK, TypeInv
  <2>3. QED
    BY <2>1, <2>2, GotoLocals DEF Compute, TypeInv, durability, lifecycle
<1>2. CASE Admit(t)
  <2>1. UNCHANGED <<view, stored, store, stopping, history, failed>>
        /\ pc[t] = "admit"
    BY <1>2 DEF Admit, registry, durability
  <2>2. LocalsOK("evaluate", arg[t])
    BY <2>1 DEF TypeInv, LocalsOK
  <2>3. QED
    BY <1>2, <2>1, <2>2, ReturnLocals, GotoLocals DEF Admit, TypeInv
<1>3. CASE Evaluate(t)
  <2>1. UNCHANGED <<view, stored, store, stopping, history, failed>>
        /\ pc[t] = "evaluate"
    BY <1>3 DEF Evaluate, registry, durability, lifecycle
  <2>2. arg[t].model \in Models /\ arg[t].view \in [Ids -> Version]
    BY <2>1 DEF TypeInv, LocalsOK
  <2>3. Answer(arg[t].view, Inputs(arg[t].model)) \in Answers
    BY <2>2, AnswerType, InputsIds
  <2> DEFINE l == [call |-> "compute",
                   answer |-> IF Evaluable(arg[t].view, arg[t].model)
                                THEN Answer(arg[t].view, Inputs(arg[t].model))
                                ELSE NoAnswer]
  <2>4. LocalsOK("leave", l)
    BY <2>3 DEF LocalsOK
  <2>5. Goto(t, "leave", l)
    BY <1>3 DEF Evaluate
  <2> HIDE DEF l
  <2>6. QED
    BY <2>1, <2>4, <2>5, GotoLocals DEF TypeInv
<1>4. CASE Leave(t)
  <2>1. UNCHANGED <<view, stored, store, stopping, history, failed>>
        /\ pc[t] = "leave"
    BY <1>4 DEF Leave, registry, durability
  <2>2. LocalsOK("finish", arg[t])
    BY <2>1 DEF TypeInv, LocalsOK
  <2>3. QED
    BY <1>4, <2>1, <2>2, GotoLocals DEF Leave, TypeInv
<1>5. CASE Finish(t)
  <2>1. UNCHANGED <<view, stored, store, stopping, history, failed>>
        /\ pc[t] = "finish"
    BY <1>5 DEF Finish, durability, lifecycle
  <2>2. arg[t].answer = NoAnswer \/ LocalsOK("publish", arg[t])
    BY <2>1 DEF TypeInv, LocalsOK
  <2>3. QED
    BY <1>5, <2>1, <2>2, ReturnLocals, GotoLocals DEF Finish, TypeInv
<1>6. CASE ComputeAdHoc(t)
  <2>1. Answer(view, Catalogs) \in Answers
    BY AnswerType DEF TypeInv, Ids
  <2>2. LocalsOK("publish", [call |-> "adhoc", answer |-> Answer(view, Catalogs)])
    BY <2>1 DEF LocalsOK
  <2>3. QED
    BY <1>6, <2>2, GotoLocals DEF ComputeAdHoc, TypeInv, durability, lifecycle
<1>7. CASE PublishSnapshot(t)
  <2>1. UNCHANGED <<view, stored, store, stopping, failed>> /\ pc[t] = "publish"
        /\ history' = Trim(Append(history, arg[t].answer))
    BY <1>7 DEF PublishSnapshot, durability, lifecycle
  <2>2. arg[t].answer \in Answers
    BY <2>1 DEF TypeInv, LocalsOK
  <2>3. Append(history, arg[t].answer) \in Seq(Answers)
    BY <2>2, AppendProperties DEF TypeInv
  <2>4. history' \in Seq(Answers) /\ Len(history') <= MaxHistory
    BY <2>1, <2>3, TrimType
  <2>5. LocalsOK("append", [call |-> arg[t].call])
    BY DEF LocalsOK
  <2>6. QED
    BY <1>7, <2>1, <2>4, <2>5, ReturnLocals, GotoLocals DEF PublishSnapshot, TypeInv
<1>8. QED
  BY <1>1, <1>2, <1>3, <1>4, <1>5, <1>6, <1>7

LEMMA LifecycleTypes ==
  ASSUME TypeInv, NEW t \in Threads,
         \/ CompactStore(t) \/ StoreReturns(t) \/ Shutdown(t)
         \/ ShutdownWaits(t) \/ ShutdownCloses(t) \/ ShutdownReleases(t)
  PROVE  TypeInv'
<1>1. UNCHANGED <<view, stored, history, failed>>
  BY DEF CompactStore, StoreReturns, Shutdown, ShutdownWaits, ShutdownCloses,
     ShutdownReleases, registry, durability
<1>2. store' \in {"open", "closed", "released"} /\ stopping' \in BOOLEAN
  <2>1. CASE CompactStore(t) \/ StoreReturns(t) \/ ShutdownWaits(t)
    BY <2>1 DEF CompactStore, StoreReturns, ShutdownWaits, durability, lifecycle, TypeInv
  <2>2. CASE Shutdown(t)
    BY <2>2 DEF Shutdown, durability, TypeInv
  <2>3. CASE ShutdownCloses(t) \/ ShutdownReleases(t)
    BY <2>3 DEF ShutdownCloses, ShutdownReleases, lifecycle, TypeInv
  <2>4. QED
    BY <2>1, <2>2, <2>3
<1>3. \/ Return(t)
      \/ \E place \in {"append", "wait", "close", "release"}, locals \in
           {[call |-> "compact"], [call |-> "shutdown"], arg[t]} :
             Goto(t, place, locals)
  BY DEF CompactStore, StoreReturns, Shutdown, ShutdownWaits, ShutdownCloses,
     ShutdownReleases
<1>4. \A place \in {"append", "wait", "close", "release"} :
        \A locals : LocalsOK(place, locals)
  BY DEF LocalsOK
<1>5. QED
  BY <1>1, <1>2, <1>3, <1>4, ReturnLocals, GotoLocals DEF TypeInv

LEMMA TypeNext == TypeInv /\ [Next]_vars => TypeInv'
<1> SUFFICES ASSUME TypeInv, [Next]_vars PROVE TypeInv'
  OBVIOUS
<1>1. CASE UNCHANGED vars
  BY <1>1 DEF vars, TypeInv
<1>2. CASE Next
  <2>1. PICK t \in Threads : Step(t) \/ Call(t)
    BY <1>2 DEF Next
  <2>2. QED
    BY <2>1, ConfigurationTypes, EvaluationTypes, LifecycleTypes DEF Step, Call
<1>3. QED
  BY <1>1, <1>2

\* Every variable keeps its shape: the places and the count come from the
\* invariant about shutdown, the rest from what each call has at hand.
THEOREM FabricTypes == Spec => []TypeOK
<1>1. LifeInv /\ TypeInv => TypeOK
  <2> SUFFICES ASSUME LifeInv, TypeInv PROVE TypeOK
    OBVIOUS
  <2>1. Counted \subseteq Threads
    BY DEF Counted
  <2>2. active <= Cardinality(Threads) /\ active \in Nat
    BY <2>1, FabricAssumption, FS_Subset DEF LifeInv
  <2>3. Cardinality(Threads) \in Nat
    BY FabricAssumption, FS_CardinalityType
  <2>4. QED
    BY <2>2, <2>3 DEF LifeInv, TypeInv, TypeOK
<1>2. QED
  BY LifeInit, LifeNext, TypeInit, TypeNext, <1>1, PTL DEF Spec

-----------------------------------------------------------------------------
(* Generations *)

\* A generation that was in view with some contents is behind the version that
\* is in view now, or stands for the same contents, or the counter is exhausted.
Behind(gen, val, now) ==
  gen <= now.gen /\ (gen = now.gen /\ now.gen < Widest => val = now.val)

ViewBehind(v, now) ==
  \A id \in Ids \ Models : Behind(v[id].gen, v[id].val, now[id])

AnswerBehind(answer, now) ==
  \A id \in DOMAIN answer.gens \ Models :
    Behind(answer.gens[id], answer.vals[id], now[id])

LocalsBehind(place, locals, now) ==
  /\ place \in {"admit", "evaluate"} => ViewBehind(locals.view, now)
  /\ place \in {"leave", "finish", "publish"} =>
       locals.answer = NoAnswer \/ AnswerBehind(locals.answer, now)

\* Everything a call has read, and everything that was published, is behind.
GenerationInv ==
  /\ TypeInv
  /\ \A t \in Threads : LocalsBehind(pc[t], arg[t], view)
  /\ \A i \in DOMAIN history : history[i] = NoAnswer \/ AnswerBehind(history[i], view)

\* The view moves forward, identity by identity.
Forward ==
  \A id \in Ids \ Models :
    \/ view'[id] = view[id]
    \/ view'[id].gen > view[id].gen
    \/ view'[id].gen = Widest /\ view[id].gen = Widest

LEMMA ViewIsBehind ==
  ASSUME TypeInv
  PROVE  ViewBehind(view, view)
BY DEF TypeInv, Version, Generations, ViewBehind, Behind

\* An answer that is computed from what is behind is behind.
LEMMA AnswersAreBehind ==
  ASSUME TypeInv, NEW v \in [Ids -> Version], ViewBehind(v, view),
         NEW ids \in SUBSET Ids
  PROVE  AnswerBehind(Answer(v, ids), view)
<1>1. /\ DOMAIN Answer(v, ids).gens = ids
      /\ \A id \in ids : Answer(v, ids).gens[id] = v[id].gen
                         /\ Answer(v, ids).vals[id] = v[id].val
  BY DEF Answer
<1>2. QED
  BY <1>1 DEF AnswerBehind, ViewBehind

\* What is behind stays behind.
LEMMA StaysBehind ==
  ASSUME TypeInv, TypeInv', Forward, NEW id \in Ids \ Models,
         NEW gen \in Generations, NEW val, Behind(gen, val, view[id])
  PROVE  Behind(gen, val, view'[id])
<1>1. /\ view[id].gen \in Generations /\ view'[id].gen \in Generations
      /\ Generations \subseteq Nat /\ Widest \in Nat
  BY FabricAssumption DEF TypeInv, Version, Generations
<1>2. gen \in Nat /\ view[id].gen \in Nat /\ view'[id].gen \in Nat
  BY <1>1
<1>3. CASE view'[id] = view[id]
  BY <1>3
<1>4. CASE view'[id].gen > view[id].gen
  BY <1>2, <1>4 DEF Behind
<1>5. CASE view'[id].gen = Widest /\ view[id].gen = Widest
  BY <1>1, <1>5 DEF Behind
<1>6. QED
  BY <1>3, <1>4, <1>5 DEF Forward

LEMMA AnswerStaysBehind ==
  ASSUME TypeInv, TypeInv', Forward, NEW answer \in Answers,
         AnswerBehind(answer, view)
  PROVE  AnswerBehind(answer, view')
<1>1. \A id \in DOMAIN answer.gens : id \in Ids /\ answer.gens[id] \in Generations
  BY DEF Answers
<1>2. QED
  BY <1>1, StaysBehind DEF AnswerBehind

LEMMA LocalsStayBehind ==
  ASSUME TypeInv, TypeInv', Forward, NEW place, NEW locals,
         LocalsOK(place, locals), LocalsBehind(place, locals, view)
  PROVE  LocalsBehind(place, locals, view')
<1>1. ASSUME place \in {"admit", "evaluate"}
      PROVE  ViewBehind(locals.view, view')
  <2>1. locals.view \in [Ids -> Version] /\ ViewBehind(locals.view, view)
    BY <1>1 DEF LocalsOK, LocalsBehind
  <2>2. \A id \in Ids : locals.view[id].gen \in Generations
    BY <2>1 DEF Version
  <2>3. QED
    BY <2>1, <2>2, StaysBehind DEF ViewBehind
<1>2. ASSUME place \in {"leave", "finish", "publish"}, locals.answer # NoAnswer
      PROVE  AnswerBehind(locals.answer, view')
  BY <1>2, AnswerStaysBehind DEF LocalsOK, LocalsBehind
<1>3. QED
  BY <1>1, <1>2 DEF LocalsBehind

\* A step in which the view moves forward, the thread goes on with what is
\* behind, and the history is left alone.
LEMMA ForwardStep ==
  ASSUME GenerationInv, TypeInv', Forward, history' = history,
         NEW t \in Threads, NEW place, NEW locals, Goto(t, place, locals),
         LocalsBehind(place, locals, view')
  PROVE  GenerationInv'
<1>1. \A u \in Threads : LocalsBehind(pc'[u], arg'[u], view')
  <2>1. /\ pc'[t] = place /\ arg'[t] = locals
        /\ \A u \in Threads \ {t} : pc'[u] = pc[u] /\ arg'[u] = arg[u]
    BY DEF Goto, GenerationInv, TypeInv
  <2>2. \A u \in Threads \ {t} : LocalsBehind(pc'[u], arg'[u], view')
    <3>1. \A u \in Threads : LocalsBehind(pc[u], arg[u], view')
      BY LocalsStayBehind DEF GenerationInv, TypeInv
    <3>2. QED
      BY <2>1, <3>1
  <2>3. QED
    BY <2>1, <2>2
<1>2. \A i \in DOMAIN history :
        history[i] = NoAnswer \/ AnswerBehind(history[i], view')
  <2>1. \A i \in DOMAIN history : history[i] \in Answers
    BY ElementOfSeq, LenProperties DEF GenerationInv, TypeInv
  <2>2. QED
    BY <2>1, AnswerStaysBehind DEF GenerationInv
<1>3. QED
  BY <1>1, <1>2 DEF GenerationInv

\* At the places of every other call there is nothing to say.
LEMMA NothingBehind ==
  ASSUME NEW place, NEW locals, NEW now,
         place \notin {"admit", "evaluate", "leave", "finish", "publish"}
  PROVE  LocalsBehind(place, locals, now)
BY DEF LocalsBehind


\* A change of the registry moves the view forward; of the models it may not.
LEMMA RegistryForward ==
  ASSUME TypeInv, NEW t \in Threads, RegistryPuts(t) \/ RegistryErases(t)
  PROVE  Forward
<1>1. CASE RegistryPuts(t)
  <2>1. arg[t].id \in Ids /\ arg[t].val \in Values /\ arg[t].supplied \in Supplied
    BY <1>1 DEF RegistryPuts, TypeInv, LocalsOK
  <2>2. CASE Refused(view, arg[t].id)
    BY <1>1, <2>2 DEF RegistryPuts, registry, Forward
  <2>3. CASE ~Refused(view, arg[t].id)
    <3> DEFINE id == arg[t].id
    <3>1. view' = Put(view, id, arg[t].val, arg[t].supplied)
      BY <1>1, <2>3 DEF RegistryPuts, Publish
    <3>2. /\ \A other \in Ids \ {id} : view'[other] = view[other]
          /\ view'[id].gen = AdvanceGeneration(view[id].gen, arg[t].supplied)
      BY <2>1, <3>1, PutType DEF TypeInv
    <3>3. view[id].gen \in Generations
      BY <2>1 DEF TypeInv, Version
    <3>4. \/ AdvanceGeneration(view[id].gen, arg[t].supplied) > view[id].gen
          \/ AdvanceGeneration(view[id].gen, arg[t].supplied) = view[id].gen
             /\ view[id].gen = Widest
      <4>1. arg[t].supplied \in Supplied
        BY <2>1
      <4>2. QED
        BY <3>3, <4>1, GenerationAdvances
    <3> HIDE DEF id
    <3>5. QED
      BY <3>2, <3>4 DEF Forward
  <2>4. QED
    BY <2>2, <2>3
<1>2. CASE RegistryErases(t)
  <2>1. arg[t].id \in Models
    BY <1>2 DEF RegistryErases, TypeInv, LocalsOK
  <2>2. view' = view \/ view' = [view EXCEPT ![arg[t].id] = Missing]
    BY <1>2 DEF RegistryErases, Publish, registry
  <2>3. QED
    BY <2>1, <2>2 DEF Forward, TypeInv
<1>3. QED
  BY <1>1, <1>2

\* A configuration call.
LEMMA ConfigurationGenerations ==
  ASSUME GenerationInv, TypeInv', NEW t \in Threads,
         \/ \E id \in Ids : \E val \in Contents[id], supplied \in Supplied :
              Register(t, id, val, supplied)
         \/ \E m \in Models : RemoveModel(t, m)
         \/ RegistryPuts(t) \/ LooksUp(t) \/ RegistryErases(t)
         \/ RemovesStored(t) \/ Journals(t)
  PROVE  GenerationInv'
<1>1. Forward
  <2>1. RegistryPuts(t) \/ RegistryErases(t) \/ view' = view
    BY DEF Register, RemoveModel, LooksUp, RemovesStored, Journals, registry
  <2>2. QED
    BY <2>1, RegistryForward DEF Forward, GenerationInv
<1>2. history' = history
  BY DEF Register, RemoveModel, RegistryPuts, LooksUp, RegistryErases,
     RemovesStored, Journals
<1>3. PICK place \in {"put", "erase", "stored?", "journal", "idle"} :
        \E locals : Goto(t, place, locals)
  BY Zenon DEF Register, RemoveModel, RegistryPuts, LooksUp, RegistryErases,
     RemovesStored, Journals, Return
<1>4. PICK locals : Goto(t, place, locals)
  BY <1>3
<1>5. LocalsBehind(place, locals, view')
  BY NothingBehind
<1>6. QED
  BY <1>1, <1>2, <1>4, <1>5, ForwardStep

\* An evaluation takes the view as it is, and publishes what it made of it.
LEMMA EvaluationGenerations ==
  ASSUME GenerationInv, TypeInv', NEW t \in Threads,
         \/ \E m \in Models : Compute(t, m)
         \/ Admit(t) \/ Evaluate(t) \/ Leave(t) \/ Finish(t) \/ ComputeAdHoc(t)
  PROVE  GenerationInv'
<1>1. Forward /\ view' = view /\ history' = history
  BY DEF Compute, Admit, Evaluate, Leave, Finish, ComputeAdHoc, registry, Forward
<1>2. TypeInv /\ LocalsOK(pc[t], arg[t]) /\ LocalsBehind(pc[t], arg[t], view)
  BY DEF GenerationInv, TypeInv
<1>3. ViewBehind(view, view) /\ view \in [Ids -> Version] /\ Catalogs \subseteq Ids
  BY <1>2, ViewIsBehind DEF TypeInv, Ids
<1>4. CASE \E m \in Models : Compute(t, m)
  <2>1. PICK m \in Models : Compute(t, m)
    BY <1>4
  <2> DEFINE l == [call |-> "compute", model |-> m, view |-> view]
  <2>2. LocalsBehind("admit", l, view)
    BY <1>3 DEF LocalsBehind
  <2>3. Goto(t, "admit", l)
    BY <2>1 DEF Compute
  <2> HIDE DEF l
  <2>4. QED
    BY <1>1, <2>2, <2>3, ForwardStep
<1>5. CASE Admit(t)
  <2>1. LocalsBehind("evaluate", arg[t], view) /\ LocalsBehind("idle", Idle, view)
    BY <1>2, <1>5, NothingBehind DEF Admit, LocalsBehind
  <2>2. QED
    BY <1>1, <1>5, <2>1, ForwardStep DEF Admit, Return
<1>6. CASE Evaluate(t)
  <2>1. /\ arg[t].model \in Models /\ arg[t].view \in [Ids -> Version]
        /\ ViewBehind(arg[t].view, view)
    BY <1>2, <1>6 DEF Evaluate, LocalsOK, LocalsBehind
  <2>2. AnswerBehind(Answer(arg[t].view, Inputs(arg[t].model)), view)
    BY <1>2, <2>1, AnswersAreBehind, InputsIds
  <2> DEFINE l == [call |-> "compute",
                   answer |-> IF Evaluable(arg[t].view, arg[t].model)
                                THEN Answer(arg[t].view, Inputs(arg[t].model))
                                ELSE NoAnswer]
  <2>3. LocalsBehind("leave", l, view)
    BY <2>2 DEF LocalsBehind
  <2>4. Goto(t, "leave", l)
    BY <1>6 DEF Evaluate
  <2> HIDE DEF l
  <2>5. QED
    BY <1>1, <2>3, <2>4, ForwardStep
<1>7. CASE Leave(t) \/ Finish(t)
  <2>1. PICK place \in {"finish", "publish"} :
          Return(t) \/ Goto(t, place, arg[t])
    BY <1>7 DEF Leave, Finish
  <2>2. LocalsBehind(place, arg[t], view) /\ LocalsBehind("idle", Idle, view)
    BY <1>2, <1>7, NothingBehind DEF Leave, Finish, LocalsBehind
  <2>3. QED
    BY <1>1, <2>1, <2>2, ForwardStep DEF Return
<1>8. CASE ComputeAdHoc(t)
  <2>1. AnswerBehind(Answer(view, Catalogs), view)
    BY <1>2, <1>3, AnswersAreBehind
  <2> DEFINE l == [call |-> "adhoc", answer |-> Answer(view, Catalogs)]
  <2>2. LocalsBehind("publish", l, view)
    BY <2>1 DEF LocalsBehind
  <2>3. Goto(t, "publish", l)
    BY <1>8 DEF ComputeAdHoc
  <2> HIDE DEF l
  <2>4. QED
    BY <1>1, <2>2, <2>3, ForwardStep
<1>9. QED
  BY <1>4, <1>5, <1>6, <1>7, <1>8

LEMMA PublishedGenerations ==
  ASSUME GenerationInv, TypeInv', NEW t \in Threads, PublishSnapshot(t)
  PROVE  GenerationInv'
<1> DEFINE longer == Append(history, arg[t].answer)
<1>1. /\ pc[t] = "publish" /\ view' = view /\ history' = Trim(longer)
      /\ history \in Seq(Answers) /\ arg[t].answer \in Answers
      /\ arg[t].answer = NoAnswer \/ AnswerBehind(arg[t].answer, view)
  BY DEF PublishSnapshot, GenerationInv, TypeInv, LocalsOK, LocalsBehind
<1>2. /\ longer \in Seq(Answers) /\ Len(history) \in Nat
      /\ DOMAIN history = 1 .. Len(history)
      /\ DOMAIN longer = 1 .. Len(history) + 1
      /\ \A j \in 1 .. Len(history) : longer[j] = history[j]
      /\ longer[Len(history) + 1] = arg[t].answer
  BY <1>1, AppendProperties, LenProperties
<1>3. \A j \in DOMAIN longer : longer[j] = NoAnswer \/ AnswerBehind(longer[j], view)
  BY <1>1, <1>2 DEF GenerationInv
<1> HIDE DEF longer
<1>4. \A i \in DOMAIN history' : \E j \in DOMAIN longer : history'[i] = longer[j]
  BY <1>1, <1>2, TrimType
<1>5. \A i \in DOMAIN history' :
        history'[i] = NoAnswer \/ AnswerBehind(history'[i], view')
  BY <1>1, <1>3, <1>4
<1>6. \A u \in Threads : LocalsBehind(pc'[u], arg'[u], view')
  <2>1. PICK place \in {"idle", "append"} : \E locals : Goto(t, place, locals)
    BY Zenon DEF PublishSnapshot, Return
  <2>2. pc'[t] = place
        /\ \A u \in Threads \ {t} : pc'[u] = pc[u] /\ arg'[u] = arg[u]
    BY <2>1 DEF Goto, GenerationInv, TypeInv
  <2>3. LocalsBehind(pc'[t], arg'[t], view')
    BY <2>2, NothingBehind
  <2>4. QED
    BY <1>1, <2>2, <2>3 DEF GenerationInv
<1>7. QED
  BY <1>5, <1>6 DEF GenerationInv

LEMMA LifecycleGenerations ==
  ASSUME GenerationInv, TypeInv', NEW t \in Threads,
         \/ CompactStore(t) \/ StoreReturns(t) \/ Shutdown(t)
         \/ ShutdownWaits(t) \/ ShutdownCloses(t) \/ ShutdownReleases(t)
  PROVE  GenerationInv'
<1>1. Forward /\ history' = history
  BY DEF CompactStore, StoreReturns, Shutdown, ShutdownWaits, ShutdownCloses,
     ShutdownReleases, registry, Forward
<1>2. PICK place \in {"append", "wait", "close", "release", "idle"} :
        \E locals : Goto(t, place, locals)
  BY Zenon DEF CompactStore, StoreReturns, Shutdown, ShutdownWaits,
     ShutdownCloses, ShutdownReleases, Return
<1>3. PICK locals : Goto(t, place, locals)
  BY <1>2
<1>4. LocalsBehind(place, locals, view')
  BY NothingBehind
<1>5. QED
  BY <1>1, <1>3, <1>4, ForwardStep

LEMMA GenerationInit == Init => GenerationInv
<1> SUFFICES ASSUME Init PROVE GenerationInv
  OBVIOUS
<1>1. \A t \in Threads : LocalsBehind(pc[t], arg[t], view)
  BY DEF Init, LocalsBehind
<1>2. DOMAIN history = {}
  BY DEF Init
<1>3. QED
  BY <1>1, <1>2, TypeInit DEF GenerationInv

LEMMA GenerationNext == GenerationInv /\ [Next]_vars => GenerationInv'
<1> SUFFICES ASSUME GenerationInv, [Next]_vars PROVE GenerationInv'
  OBVIOUS
<1>1. TypeInv'
  BY TypeNext DEF GenerationInv
<1>2. CASE UNCHANGED vars
  BY <1>1, <1>2 DEF vars, GenerationInv
<1>3. CASE Next
  <2>1. PICK t \in Threads : Step(t) \/ Call(t)
    BY <1>3 DEF Next
  <2>2. QED
    BY <1>1, <2>1, ConfigurationGenerations, EvaluationGenerations,
       PublishedGenerations, LifecycleGenerations DEF Step, Call
<1>4. QED
  BY <1>2, <1>3

\* Whatever is configured while it is computed, an answer that is bound to the
\* generation of an input that is current was computed from what is current.
THEOREM BindingsIdentifyContents == Spec => []GenerationsIdentifyContents
<1>1. GenerationInv => GenerationsIdentifyContents
  <2> SUFFICES ASSUME GenerationInv, NEW i \in DOMAIN history,
                      NEW id \in DOMAIN history[i].gens \ Models,
                      history[i].gens[id] = view[id].gen, view[id].gen < Widest
               PROVE  history[i].vals[id] = view[id].val
    BY DEF GenerationsIdentifyContents
  <2>1. history[i] # NoAnswer
    BY DEF NoAnswer
  <2>2. QED
    BY <2>1 DEF GenerationInv, AnswerBehind, Behind
<1>2. QED
  BY GenerationInit, GenerationNext, <1>1, PTL DEF Spec

-----------------------------------------------------------------------------
(* Answers of one view *)

\* What a call has read is of one view among those that were published since
\* it began.
ViewOK(place, locals, published) ==
  /\ place \in {"admit", "evaluate"} => Gens(locals.view) \in published
  /\ place \in {"leave", "finish", "publish"} /\ locals.answer # NoAnswer =>
       \E g \in published :
         \A id \in DOMAIN locals.answer.gens : locals.answer.gens[id] = g[id]

OneViewInv ==
  /\ TypeInv /\ DOMAIN during = Threads
  /\ \A t \in Threads : ViewOK(pc[t], arg[t], during[t])

\* At the places of every other call there is nothing to say.
LEMMA NothingRead ==
  ASSUME NEW place, NEW locals, NEW published,
         place \notin {"admit", "evaluate", "leave", "finish", "publish"}
  PROVE  ViewOK(place, locals, published)
BY DEF ViewOK

\* A view that is published takes nothing from what a call has read.
LEMMA MorePublished ==
  ASSUME NEW place, NEW locals, NEW published, NEW more,
         ViewOK(place, locals, published), published \subseteq more
  PROVE  ViewOK(place, locals, more)
BY DEF ViewOK

LEMMA OneViewStep ==
  ASSUME OneViewInv, TypeInv', NEW t \in Threads, NEW place, NEW locals,
         Goto(t, place, locals), DOMAIN during' = Threads,
         \A u \in Threads \ {t} : during[u] \subseteq during'[u],
         ViewOK(place, locals, during'[t])
  PROVE  OneViewInv'
<1>1. /\ pc'[t] = place /\ arg'[t] = locals
      /\ \A u \in Threads \ {t} : pc'[u] = pc[u] /\ arg'[u] = arg[u]
  BY DEF Goto, OneViewInv, TypeInv
<1>2. \A u \in Threads \ {t} : ViewOK(pc'[u], arg'[u], during'[u])
  BY <1>1, MorePublished DEF OneViewInv
<1>3. QED
  BY <1>1, <1>2 DEF OneViewInv

\* An answer has the generations of the view that it is computed from.
LEMMA AnswerOfView ==
  ASSUME NEW v \in [Ids -> Version], NEW ids \in SUBSET Ids
  PROVE  \A id \in DOMAIN Answer(v, ids).gens : Answer(v, ids).gens[id] = Gens(v)[id]
BY DEF Answer, Gens

LEMMA ConfigurationViews ==
  ASSUME OneViewInv, TypeInv', NEW t \in Threads,
         \/ \E id \in Ids : \E val \in Contents[id], supplied \in Supplied :
              Register(t, id, val, supplied)
         \/ \E m \in Models : RemoveModel(t, m)
         \/ RegistryPuts(t) \/ LooksUp(t) \/ RegistryErases(t)
         \/ RemovesStored(t) \/ Journals(t)
  PROVE  OneViewInv'
<1>1. DOMAIN during' = Threads /\ \A u \in Threads : during[u] \subseteq during'[u]
  <2>1. during' = during \/ \E v : Publish(v)
    BY DEF Register, RemoveModel, RegistryPuts, LooksUp, RegistryErases,
       RemovesStored, Journals, registry
  <2>2. QED
    BY <2>1 DEF Publish, OneViewInv
<1>2. PICK place \in {"put", "erase", "stored?", "journal", "idle"} :
        \E locals : Goto(t, place, locals)
  BY Zenon DEF Register, RemoveModel, RegistryPuts, LooksUp, RegistryErases,
     RemovesStored, Journals, Return
<1>3. PICK locals : Goto(t, place, locals)
  BY <1>2
<1>4. ViewOK(place, locals, during'[t])
  BY NothingRead
<1>5. QED
  BY <1>1, <1>3, <1>4, OneViewStep

LEMMA LifecycleViews ==
  ASSUME OneViewInv, TypeInv', NEW t \in Threads,
         \/ CompactStore(t) \/ StoreReturns(t) \/ Shutdown(t)
         \/ ShutdownWaits(t) \/ ShutdownCloses(t) \/ ShutdownReleases(t)
  PROVE  OneViewInv'
<1>1. during' = during
  BY DEF CompactStore, StoreReturns, Shutdown, ShutdownWaits, ShutdownCloses,
     ShutdownReleases, registry
<1>2. PICK place \in {"append", "wait", "close", "release", "idle"} :
        \E locals : Goto(t, place, locals)
  BY Zenon DEF CompactStore, StoreReturns, Shutdown, ShutdownWaits,
     ShutdownCloses, ShutdownReleases, Return
<1>3. PICK locals : Goto(t, place, locals)
  BY <1>2
<1>4. ViewOK(place, locals, during'[t])
  BY NothingRead
<1>5. QED
  BY <1>1, <1>3, <1>4, OneViewStep DEF OneViewInv

LEMMA EvaluationViews ==
  ASSUME OneViewInv, TypeInv', NEW t \in Threads,
         \/ \E m \in Models : Compute(t, m)
         \/ Admit(t) \/ Evaluate(t) \/ Leave(t) \/ Finish(t)
         \/ ComputeAdHoc(t) \/ PublishSnapshot(t)
  PROVE  OneViewInv'
<1>1. /\ LocalsOK(pc[t], arg[t]) /\ ViewOK(pc[t], arg[t], during[t])
      /\ view \in [Ids -> Version] /\ Catalogs \subseteq Ids /\ DOMAIN during = Threads
  BY DEF OneViewInv, TypeInv, Ids
<1>2. CASE \E m \in Models : Compute(t, m)
  <2>1. PICK m \in Models : Compute(t, m)
    BY <1>2
  <2> DEFINE l == [call |-> "compute", model |-> m, view |-> view]
  <2>2. Goto(t, "admit", l) /\ during' = [during EXCEPT ![t] = {Gens(view)}]
    BY <2>1 DEF Compute
  <2>3. ViewOK("admit", l, during'[t])
    BY <1>1, <2>2 DEF ViewOK
  <2> HIDE DEF l
  <2>4. QED
    BY <1>1, <2>2, <2>3, OneViewStep
<1>3. CASE Admit(t)
  <2>1. during' = during /\ pc[t] = "admit"
    BY <1>3 DEF Admit, registry
  <2>2. ViewOK("evaluate", arg[t], during'[t]) /\ ViewOK("idle", Idle, during'[t])
    BY <1>1, <2>1, NothingRead DEF ViewOK
  <2>3. QED
    BY <1>1, <1>3, <2>1, <2>2, OneViewStep DEF Admit, Return
<1>4. CASE Evaluate(t)
  <2> DEFINE v == arg[t].view
             ids == Inputs(arg[t].model)
             l == [call |-> "compute",
                   answer |-> IF Evaluable(v, arg[t].model) THEN Answer(v, ids)
                                                            ELSE NoAnswer]
  <2>1. during' = during /\ pc[t] = "evaluate" /\ Goto(t, "leave", l)
    BY <1>4 DEF Evaluate, registry
  <2>2. v \in [Ids -> Version] /\ ids \in SUBSET Ids /\ Gens(v) \in during'[t]
    BY <1>1, <2>1, InputsIds DEF LocalsOK, ViewOK
  <2>3. l.answer = NoAnswer \/ l.answer = Answer(v, ids)
    OBVIOUS
  <2> HIDE DEF l, v, ids
  <2>4. ViewOK("leave", l, during'[t])
    BY <2>2, <2>3, AnswerOfView DEF ViewOK
  <2>5. QED
    BY <1>1, <2>1, <2>4, OneViewStep
<1>5. CASE Leave(t)
  <2>1. during' = during /\ pc[t] = "leave" /\ Goto(t, "finish", arg[t])
    BY <1>5 DEF Leave, registry
  <2>2. ViewOK("finish", arg[t], during'[t])
    BY <1>1, <2>1 DEF ViewOK
  <2>3. QED
    BY <1>1, <2>1, <2>2, OneViewStep
<1>6. CASE Finish(t)
  <2>1. CASE Return(t) /\ during' = [during EXCEPT ![t] = {}]
    <3>1. ViewOK("idle", Idle, during'[t])
      BY NothingRead
    <3>2. QED
      BY <1>1, <2>1, <3>1, OneViewStep DEF Return
  <2>2. CASE Goto(t, "publish", arg[t]) /\ during' = during
    <3>1. ViewOK("publish", arg[t], during'[t])
      BY <1>1, <1>6, <2>2 DEF Finish, ViewOK
    <3>2. QED
      BY <1>1, <2>2, <3>1, OneViewStep
  <2>3. QED
    BY <1>6, <2>1, <2>2 DEF Finish
<1>7. CASE ComputeAdHoc(t)
  <2> DEFINE l == [call |-> "adhoc", answer |-> Answer(view, Catalogs)]
  <2>1. Goto(t, "publish", l) /\ during' = [during EXCEPT ![t] = {Gens(view)}]
    BY <1>7 DEF ComputeAdHoc
  <2>2. l.answer = Answer(view, Catalogs) /\ Gens(view) \in during'[t]
    BY <1>1, <2>1
  <2> HIDE DEF l
  <2>3. ViewOK("publish", l, during'[t])
    BY <1>1, <2>2, AnswerOfView DEF ViewOK
  <2>4. QED
    BY <1>1, <2>1, <2>3, OneViewStep
<1>8. CASE PublishSnapshot(t)
  <2>1. during' = [during EXCEPT ![t] = {}]
    BY <1>8 DEF PublishSnapshot
  <2>2. PICK place \in {"idle", "append"} : \E locals : Goto(t, place, locals)
    BY <1>8, Zenon DEF PublishSnapshot, Return
  <2>3. PICK locals : Goto(t, place, locals)
    BY <2>2
  <2>4. ViewOK(place, locals, during'[t])
    BY NothingRead
  <2>5. QED
    BY <1>1, <2>1, <2>3, <2>4, OneViewStep
<1>9. QED
  BY <1>2, <1>3, <1>4, <1>5, <1>6, <1>7, <1>8

LEMMA OneViewInit == Init => OneViewInv
<1> SUFFICES ASSUME Init PROVE OneViewInv
  OBVIOUS
<1>1. \A t \in Threads : ViewOK(pc[t], arg[t], during[t])
  BY DEF Init, ViewOK
<1>2. QED
  BY <1>1, TypeInit DEF Init, OneViewInv

LEMMA OneViewNext == OneViewInv /\ [Next]_vars => OneViewInv'
<1> SUFFICES ASSUME OneViewInv, [Next]_vars PROVE OneViewInv'
  OBVIOUS
<1>1. TypeInv'
  BY TypeNext DEF OneViewInv
<1>2. CASE UNCHANGED vars
  BY <1>1, <1>2 DEF vars, OneViewInv
<1>3. CASE Next
  <2>1. PICK t \in Threads : Step(t) \/ Call(t)
    BY <1>3 DEF Next
  <2>2. QED
    BY <1>1, <2>1, ConfigurationViews, EvaluationViews, LifecycleViews DEF Step, Call
<1>4. QED
  BY <1>2, <1>3

\* However many views are published while a call evaluates, its answer is that
\* of one of them.
THEOREM AnswersComeFromOneView == Spec => []AnswersAreOfOneView
<1>1. OneViewInv => AnswersAreOfOneView
  BY DEF OneViewInv, ViewOK, AnswersAreOfOneView
<1>2. QED
  BY OneViewInit, OneViewNext, <1>1, PTL DEF Spec


-----------------------------------------------------------------------------
(* The registry and the store *)

\* One thread, if any, registers, removes and shuts down.
OneConfigurer == \A t, u \in Configurers \cup Closers : t = u

Configuring == {"put", "erase", "stored?", "journal"}

\* A call that changes the registry is only under way while the fabric is
\* open, and what it is about to journal is what it registered.
CallOK(place, locals) ==
  /\ place = "put" => locals.call = "register"
  /\ place = "erase" => locals.call = "remove"
  /\ place = "stored?" =>
       \/ locals.call = "register" /\ view[locals.id] # Missing
       \/ locals.call = "remove" /\ view[locals.id] = Missing
  /\ place = "journal" => locals.version = view[locals.id]

\* Models in the registry and in the store name what is registered, in a
\* generation that it has reached.
ModelsOK ==
  \A m \in Models : \A a \in Names[m] :
    /\ view[m] # Missing => view[a] # Missing /\ view[m].bound[a] <= view[a].gen
    /\ stored[m] # Missing => view[a] # Missing /\ stored[m].bound[a] <= view[a].gen

CallsOK ==
  \A t \in Threads : /\ pc[t] \in Configuring => t \in Configurers /\ ~stopping
                     /\ CallOK(pc[t], arg[t])

StoredInv ==
  /\ TypeInv /\ LifeInv /\ CallsOK
  /\ AcknowledgedIsStored /\ ModelsOK /\ StoredModelsAreWhole

\* Where a thread goes in a step, and where the others stay.
LEMMA GoesTo ==
  ASSUME TypeInv, NEW t \in Threads, NEW place, NEW locals, Goto(t, place, locals)
  PROVE  /\ pc'[t] = place /\ arg'[t] = locals
         /\ \A u \in Threads \ {t} : pc'[u] = pc[u] /\ arg'[u] = arg[u]
BY DEF Goto, TypeInv

\* A thread that configures does so alone, and the store is open.
LEMMA Alone ==
  ASSUME OneConfigurer, StoredInv, NEW t \in Threads, pc[t] \in Configuring
  PROVE  /\ \A u \in Threads \ {t} : pc[u] \notin Configuring
         /\ t \in Configurers /\ ~stopping /\ store = "open"
BY DEF OneConfigurer, StoredInv, CallsOK, LifeInv

\* Every step but those between the registry and the store.
LEMMA StoredStays ==
  ASSUME StoredInv, TypeInv', LifeInv', NEW t \in Threads, NEW place, NEW locals,
         Goto(t, place, locals), UNCHANGED <<view, stored, failed>>,
         stopping' = stopping \/ \A u \in Threads : pc'[u] \notin Configuring,
         pc[t] \notin {"stored?", "journal"}, place \notin {"stored?", "journal"},
         place \in Configuring => t \in Configurers /\ ~stopping',
         place = "put" => locals.call = "register",
         place = "erase" => locals.call = "remove"
  PROVE  StoredInv'
<1>1. /\ pc'[t] = place /\ arg'[t] = locals
      /\ \A u \in Threads \ {t} : pc'[u] = pc[u] /\ arg'[u] = arg[u]
  BY GoesTo DEF StoredInv
<1>2. CallsOK'
  <2>1. ASSUME NEW u \in Threads
        PROVE  /\ pc'[u] \in Configuring => u \in Configurers /\ ~stopping'
               /\ CallOK(pc[u], arg[u])'
    <3>1. CASE u = t
      BY <1>1, <3>1 DEF CallOK
    <3>2. CASE u # t
      BY <1>1, <3>2 DEF StoredInv, CallsOK, CallOK
    <3>3. QED
      BY <3>1, <3>2
  <2>2. QED
    BY <2>1 DEF CallsOK
<1>3. \A id : Between(id)' = Between(id)
  BY <1>1 DEF Between
<1>4. AcknowledgedIsStored' /\ ModelsOK' /\ StoredModelsAreWhole'
  BY <1>3 DEF StoredInv, AcknowledgedIsStored, ModelsOK, StoredModelsAreWhole
<1>5. QED
  BY <1>2, <1>4 DEF StoredInv

\* A step of the only thread that configures, in which it changes the registry
\* under one identity and goes on to the store.
LEMMA RegistryChanges ==
  ASSUME OneConfigurer, StoredInv, TypeInv', LifeInv', NEW t \in Threads,
         pc[t] \in {"put", "erase"}, Goto(t, "stored?", arg[t]),
         UNCHANGED <<stored, failed, stopping>>, arg[t].id \in Durable,
         \A id \in Durable \ {arg[t].id} : view'[id] = view[id],
         CallOK("stored?", arg[t])', ModelsOK'
  PROVE  StoredInv'
<1>1. /\ pc'[t] = "stored?" /\ arg'[t] = arg[t]
      /\ \A u \in Threads \ {t} : pc'[u] = pc[u] /\ arg'[u] = arg[u]
  BY GoesTo DEF StoredInv
<1>2. /\ \A u \in Threads \ {t} : pc[u] \notin Configuring
      /\ t \in Configurers /\ ~stopping
  BY Alone DEF Configuring
<1>3. CallsOK'
  BY <1>1, <1>2 DEF CallsOK, CallOK, Configuring
<1>4. AcknowledgedIsStored'
  <2>1. ASSUME NEW id \in Durable, Between(id)' = {}, id \notin failed'
        PROVE  stored'[id] = view'[id]
    <3>1. id # arg[t].id
      BY <1>1, <2>1 DEF Between
    <3>2. Between(id) = {}
      BY <1>2 DEF Between, Configuring
    <3>3. QED
      BY <2>1, <3>1, <3>2 DEF StoredInv, AcknowledgedIsStored
  <2>2. QED
    BY <2>1 DEF AcknowledgedIsStored
<1>5. StoredModelsAreWhole'
  BY DEF StoredInv, StoredModelsAreWhole
<1>6. QED
  BY <1>3, <1>4, <1>5 DEF StoredInv

\* A version is put under an identity.
LEMMA PutsVersion ==
  ASSUME StoredInv, TypeInv', NEW id \in Ids, NEW val \in Values, NEW supplied \in Supplied,
         ~ Refused(view, id), view' = Put(view, id, val, supplied), stored' = stored
  PROVE  /\ \A other \in Ids \ {id} : view'[other] = view[other]
         /\ view'[id] # Missing
         /\ ModelsOK'
<1>1. /\ \A i \in Ids : view[i].gen \in Nat /\ view'[i].gen \in Nat
      /\ view \in [Ids -> Version]
  BY FabricAssumption DEF StoredInv, TypeInv, Version, Generations
<1>2. /\ \A other \in Ids \ {id} : view'[other] = view[other]
      /\ view'[id].gen = AdvanceGeneration(view[id].gen, supplied)
  BY <1>1, PutType
<1>3. view'[id].gen >= view[id].gen /\ view'[id].gen > 0
  <2>1. Widest \in Nat /\ Widest > 0 /\ supplied \in Nat
    BY FabricAssumption
  <2>2. QED
    BY <1>1, <1>2, <2>1 DEF AdvanceGeneration
<1>4. view'[id] # Missing
  BY <1>3 DEF Missing
<1>5. ModelsOK'
  <2>1. ASSUME NEW m \in Models, NEW a \in Names[m]
        PROVE  /\ view'[m] # Missing =>
                    view'[a] # Missing /\ view'[m].bound[a] <= view'[a].gen
               /\ stored[m] # Missing =>
                    view'[a] # Missing /\ stored[m].bound[a] <= view'[a].gen
    <3>1. /\ m \in Ids /\ m \in Durable /\ a \in Ids /\ a \in Artefacts /\ a # m
      BY FabricAssumption DEF Ids, Durable
    <3>2. view[m].bound[a] \in Nat /\ stored[m].bound[a] \in Nat
      <4>1. view[m] \in Version /\ stored[m] \in Version
        BY <3>1 DEF StoredInv, TypeInv
      <4>2. view[m].bound[a] \in Generations /\ stored[m].bound[a] \in Generations
        BY <3>1, <4>1 DEF Version
      <4>3. QED
        BY <4>2, FabricAssumption DEF Generations
    <3>3. /\ view[m] # Missing => view[a] # Missing /\ view[m].bound[a] <= view[a].gen
          /\ stored[m] # Missing => view[a] # Missing /\ stored[m].bound[a] <= view[a].gen
      BY DEF StoredInv, ModelsOK
    <3>4. CASE id = m
      <4>1. view[a] # Missing /\ view'[a] = view[a]
        BY <1>2, <3>1, <3>4 DEF Refused
      <4>2. view'[m].bound = Bindings(view, m)
        BY <1>1, <3>4 DEF Put
      <4>3. view'[m].bound[a] = view[a].gen
        BY <3>1, <4>2 DEF Bindings
      <4>4. QED
        BY <1>1, <3>1, <3>3, <4>1, <4>3
    <3>5. CASE id = a
      <4>1. view'[m] = view[m] /\ view'[a].gen >= view[a].gen /\ view'[a] # Missing
        BY <1>2, <1>3, <1>4, <3>1, <3>5
      <4>2. QED
        BY <1>1, <3>1, <3>2, <3>3, <4>1
    <3>6. CASE id # a /\ id # m
      <4>1. view'[m] = view[m] /\ view'[a] = view[a]
        BY <1>2, <3>1, <3>6
      <4>2. QED
        BY <3>3, <4>1
    <3>7. QED
      BY <3>4, <3>5, <3>6
  <2>2. QED
    BY <2>1 DEF ModelsOK
<1>6. QED
  BY <1>2, <1>4, <1>5

LEMMA PutsStored ==
  ASSUME OneConfigurer, StoredInv, TypeInv', LifeInv', NEW t \in Threads, RegistryPuts(t)
  PROVE  StoredInv'
<1> DEFINE id == arg[t].id
<1>1. pc[t] = "put" /\ UNCHANGED <<stored, failed, stopping>>
  BY DEF RegistryPuts, durability, lifecycle
<1>2. /\ id \in Ids /\ arg[t].val \in Values /\ arg[t].supplied \in Supplied
      /\ arg[t].call = "register"
  BY <1>1 DEF StoredInv, TypeInv, LocalsOK, CallsOK, CallOK
<1>3. CASE Refused(view, id)
  <2>1. Goto(t, "idle", Idle) /\ view' = view
    BY <1>3 DEF RegistryPuts, Return, registry
  <2>2. QED
    BY <1>1, <2>1, StoredStays DEF Configuring
<1>4. CASE ~ Refused(view, id)
  <2>1. view' = Put(view, id, arg[t].val, arg[t].supplied)
    BY <1>4 DEF RegistryPuts, Publish
  <2>2. /\ \A other \in Ids \ {id} : view'[other] = view[other]
        /\ view'[id] # Missing /\ ModelsOK'
    BY <1>1, <1>2, <1>4, <2>1, PutsVersion
  <2>3. CASE id \in Catalogs
    <3>1. Goto(t, "idle", Idle)
      BY <1>4, <2>3 DEF RegistryPuts, Return
    <3>2. \A other \in Durable : view'[other] = view[other]
      BY <2>2, <2>3, FabricAssumption DEF Ids
    <3>3. /\ pc'[t] = "idle"
          /\ \A u \in Threads \ {t} : pc'[u] = pc[u] /\ arg'[u] = arg[u]
      BY <3>1, GoesTo DEF StoredInv
    <3>4. \A u \in Threads \ {t} : pc[u] \notin Configuring
      BY <1>1, Alone DEF Configuring
    <3>5. CallsOK'
      BY <3>3, <3>4 DEF CallsOK, CallOK, Configuring
    <3>6. \A other : Between(other) = {}
      BY <1>1, <3>4 DEF Between, Configuring
    <3>7. AcknowledgedIsStored' /\ StoredModelsAreWhole'
      BY <1>1, <3>2, <3>6 DEF StoredInv, AcknowledgedIsStored, StoredModelsAreWhole
    <3>8. QED
      BY <2>2, <3>5, <3>7 DEF StoredInv
  <2>4. CASE id \notin Catalogs
    <3>1. Goto(t, "stored?", arg[t])
      BY <1>4, <2>4 DEF RegistryPuts
    <3>2. id \in Durable /\ \A other \in Durable \ {id} : view'[other] = view[other]
      BY <1>2, <2>2, <2>4 DEF Ids
    <3>3. CallOK("stored?", arg[t])'
      <4>1. arg'[t] = arg[t]
        BY <3>1, GoesTo DEF StoredInv
      <4>2. QED
        BY <1>2, <2>2, <4>1 DEF CallOK
    <3> HIDE DEF id
    <3>4. QED
      BY <1>1, <2>2, <3>1, <3>2, <3>3, RegistryChanges DEF id
  <2>5. QED
    BY <2>3, <2>4
<1>5. QED
  BY <1>3, <1>4

LEMMA ErasesStored ==
  ASSUME OneConfigurer, StoredInv, TypeInv', LifeInv', NEW t \in Threads, RegistryErases(t)
  PROVE  StoredInv'
<1> DEFINE id == arg[t].id
<1>1. pc[t] = "erase" /\ UNCHANGED <<stored, failed, stopping>>
  BY DEF RegistryErases, durability, lifecycle
<1>2. id \in Models /\ id \in Durable /\ id \in Ids /\ arg[t].call = "remove"
  BY <1>1 DEF StoredInv, TypeInv, LocalsOK, CallsOK, CallOK, Durable, Ids
<1>3. CASE view[id] = Missing
  <2>1. Goto(t, "idle", Idle) /\ view' = view
    BY <1>3 DEF RegistryErases, Return, registry
  <2>2. QED
    BY <1>1, <2>1, StoredStays DEF Configuring
<1>4. CASE view[id] # Missing
  <2>1. view' = [view EXCEPT ![id] = Missing] /\ Goto(t, "stored?", arg[t])
    BY <1>4 DEF RegistryErases, Publish
  <2>2. view'[id] = Missing /\ \A other \in Ids \ {id} : view'[other] = view[other]
    BY <1>2, <2>1 DEF StoredInv, TypeInv
  <2>3. ModelsOK'
    <3>1. ASSUME NEW m \in Models, NEW a \in Names[m]
          PROVE  /\ view'[m] # Missing =>
                      view'[a] # Missing /\ view'[m].bound[a] <= view'[a].gen
                 /\ stored[m] # Missing =>
                      view'[a] # Missing /\ stored[m].bound[a] <= view'[a].gen
      <4>1. a \in Ids /\ m \in Ids /\ a # id
        BY <1>2, FabricAssumption DEF Ids, Durable
      <4>2. view'[a] = view[a] /\ (view'[m] = Missing \/ view'[m] = view[m])
        BY <2>2, <4>1
      <4>3. QED
        BY <4>2 DEF StoredInv, ModelsOK
    <3>2. QED
      BY <1>1, <3>1 DEF ModelsOK
  <2>4. CallOK("stored?", arg[t])'
    <3>1. arg'[t] = arg[t]
      BY <2>1, GoesTo DEF StoredInv
    <3>2. QED
      BY <1>2, <2>2, <3>1 DEF CallOK
  <2>5. \A other \in Durable \ {id} : view'[other] = view[other]
    BY <2>2 DEF Ids
  <2> HIDE DEF id
  <2>6. QED
    BY <1>1, <1>2, <2>1, <2>3, <2>4, <2>5, RegistryChanges DEF id
<1>5. QED
  BY <1>3, <1>4

\* The registration looks its version up, or the removal finds the store: it
\* is there, because no other thread could have shut it down.
LEMMA LookedUpStored ==
  ASSUME OneConfigurer, StoredInv, TypeInv', LifeInv', NEW t \in Threads,
         LooksUp(t) \/ RemovesStored(t)
  PROVE  StoredInv'
<1>1. pc[t] = "stored?" /\ UNCHANGED <<view, stored, failed, stopping>>
  BY DEF LooksUp, RemovesStored, registry, durability, lifecycle
<1>2. /\ \A u \in Threads \ {t} : pc[u] \notin Configuring
      /\ t \in Configurers /\ ~stopping /\ store = "open"
  BY <1>1, Alone DEF Configuring
<1>3. CallOK("stored?", arg[t])
  BY <1>1 DEF StoredInv, CallsOK
<1>4. PICK locals : Goto(t, "journal", locals) /\ locals.id = arg[t].id
                    /\ locals.version = view[arg[t].id]
  <2>1. CASE LooksUp(t)
    BY <1>2, <1>3, <2>1 DEF LooksUp, CallOK
  <2>2. CASE RemovesStored(t)
    BY <1>2, <1>3, <2>2 DEF RemovesStored, CallOK
  <2>3. QED
    BY <2>1, <2>2
<1>5. /\ pc'[t] = "journal" /\ arg'[t] = locals
      /\ \A u \in Threads \ {t} : pc'[u] = pc[u] /\ arg'[u] = arg[u]
  BY <1>4, GoesTo DEF StoredInv
<1>6. CallsOK'
  BY <1>1, <1>2, <1>4, <1>5 DEF CallsOK, CallOK, Configuring
<1>7. \A id : Between(id)' = Between(id)
  BY <1>1, <1>4, <1>5 DEF Between
<1>8. AcknowledgedIsStored' /\ ModelsOK' /\ StoredModelsAreWhole'
  BY <1>1, <1>7 DEF StoredInv, AcknowledgedIsStored, ModelsOK, StoredModelsAreWhole
<1>9. QED
  BY <1>6, <1>8 DEF StoredInv

LEMMA JournalsStored ==
  ASSUME OneConfigurer, StoredInv, TypeInv', LifeInv', NEW t \in Threads, Journals(t)
  PROVE  StoredInv'
<1> DEFINE id == arg[t].id
<1>1. pc[t] = "journal" /\ UNCHANGED <<view, stopping>> /\ Goto(t, "idle", Idle)
  BY DEF Journals, registry, lifecycle, Return
<1>2. id \in Durable /\ arg[t].version = view[id]
  BY <1>1 DEF StoredInv, TypeInv, LocalsOK, CallsOK, CallOK
<1>3. \A u \in Threads \ {t} : pc[u] \notin Configuring
  BY <1>1, Alone DEF Configuring
<1>4. /\ \A other \in Durable \ {id} : /\ stored'[other] = stored[other]
                                       /\ other \in failed' <=> other \in failed
      /\ stored'[id] \in {stored[id], view[id]}
      /\ id \in failed' \/ stored'[id] = view[id]
  <2>1. [stored EXCEPT ![id] = view[id]][id] = view[id]
        /\ \A other \in Durable \ {id} : [stored EXCEPT ![id] = view[id]][other] = stored[other]
    BY <1>2 DEF StoredInv, TypeInv
  <2>2. \/ stored' = [stored EXCEPT ![id] = view[id]] /\ failed' = failed \ {id}
        \/ stored' \in {stored, [stored EXCEPT ![id] = view[id]]} /\ failed' = failed \cup {id}
    BY <1>2 DEF Journals
  <2> HIDE DEF id
  <2>3. QED
    BY <2>1, <2>2
<1>5. /\ pc'[t] = "idle" /\ \A u \in Threads \ {t} : pc'[u] = pc[u] /\ arg'[u] = arg[u]
  BY <1>1, GoesTo DEF StoredInv
<1>6. CallsOK'
  BY <1>3, <1>5 DEF CallsOK, CallOK, Configuring
<1>7. /\ \A other \in Durable \ {id} : Between(other) = {}
      /\ \A other : Between(other)' = {}
  BY <1>1, <1>3, <1>5 DEF Between, Configuring
<1> HIDE DEF id
<1>8. \A other \in Durable : other \notin failed' => stored'[other] = view'[other]
  BY <1>1, <1>4, <1>7 DEF StoredInv, AcknowledgedIsStored
<1>9. ModelsOK'
  <2>1. \A m \in Models : stored'[m] = stored[m] \/ stored'[m] = view[m]
    BY <1>4 DEF Durable
  <2>2. QED
    BY <1>1, <2>1 DEF StoredInv, ModelsOK
<1>10. StoredModelsAreWhole'
  <2>1. ASSUME NEW m \in Models, stored'[m] # Missing, NEW a \in Names[m] \ failed'
        PROVE  stored'[a] # Missing /\ stored'[m].bound[a] <= stored'[a].gen
    <3>1. stored'[a] = view'[a]
      BY <1>8, FabricAssumption DEF Durable
    <3>2. QED
      BY <1>9, <2>1, <3>1 DEF ModelsOK
  <2>2. QED
    BY <2>1 DEF StoredModelsAreWhole
<1>11. QED
  BY <1>6, <1>8, <1>9, <1>10 DEF StoredInv, AcknowledgedIsStored

\* A shutdown finds no call under way that its own thread would have to make.
LEMMA ShutdownStored ==
  ASSUME OneConfigurer, StoredInv, TypeInv', LifeInv', NEW t \in Threads, Shutdown(t)
  PROVE  StoredInv'
<1>1. /\ Goto(t, "wait", [call |-> "shutdown"]) /\ pc[t] = "idle" /\ t \in Closers
      /\ UNCHANGED <<view, stored, failed>>
  BY DEF Shutdown, registry, durability
<1>2. \A u \in Threads : pc'[u] \notin Configuring
  <2>1. /\ pc'[t] = "wait" /\ \A u \in Threads \ {t} : pc'[u] = pc[u]
    BY <1>1, GoesTo DEF StoredInv
  <2>2. \A u \in Threads : pc[u] \notin Configuring
    BY <1>1 DEF OneConfigurer, StoredInv, CallsOK, Configuring
  <2>3. QED
    BY <2>1, <2>2 DEF Configuring
<1>3. QED
  BY <1>1, <1>2, StoredStays DEF Configuring

LEMMA OthersStored ==
  ASSUME StoredInv, TypeInv', LifeInv', NEW t \in Threads,
         \/ \E id \in Ids : \E val \in Contents[id], supplied \in Supplied :
              Register(t, id, val, supplied)
         \/ \E m \in Models : RemoveModel(t, m) \/ Compute(t, m)
         \/ Admit(t) \/ Evaluate(t) \/ Leave(t) \/ Finish(t)
         \/ ComputeAdHoc(t) \/ PublishSnapshot(t)
         \/ CompactStore(t) \/ StoreReturns(t)
         \/ ShutdownWaits(t) \/ ShutdownCloses(t) \/ ShutdownReleases(t)
  PROVE  StoredInv'
<1>1. UNCHANGED <<view, stored, failed, stopping>>
  BY DEF Register, RemoveModel, Compute, Admit, Evaluate, Leave, Finish, ComputeAdHoc,
     PublishSnapshot, CompactStore, StoreReturns, ShutdownWaits, ShutdownCloses,
     ShutdownReleases, registry, durability, lifecycle
<1>2. pc[t] \notin {"stored?", "journal"}
  BY DEF Register, RemoveModel, Compute, Admit, Evaluate, Leave, Finish, ComputeAdHoc,
     PublishSnapshot, CompactStore, StoreReturns, ShutdownWaits, ShutdownCloses,
     ShutdownReleases
<1>3. CASE \E id \in Ids : \E val \in Contents[id], supplied \in Supplied :
             Register(t, id, val, supplied)
  <2>1. PICK id \in Ids : \E val \in Contents[id], supplied \in Supplied :
               Register(t, id, val, supplied)
    BY <1>3
  <2>2. PICK val \in Contents[id], supplied \in Supplied : Register(t, id, val, supplied)
    BY <2>1
  <2> DEFINE l == [call |-> "register", id |-> id, val |-> val, supplied |-> supplied]
  <2>3. Goto(t, "put", l) /\ t \in Configurers /\ ~stopping /\ l.call = "register"
    BY <2>2 DEF Register
  <2> HIDE DEF l
  <2>4. QED
    BY <1>1, <1>2, <2>3, StoredStays
<1>4. CASE \E m \in Models : RemoveModel(t, m)
  <2>1. PICK m \in Models : RemoveModel(t, m)
    BY <1>4
  <2> DEFINE l == [call |-> "remove", id |-> m]
  <2>2. Goto(t, "erase", l) /\ t \in Configurers /\ ~stopping /\ l.call = "remove"
    BY <2>1 DEF RemoveModel
  <2> HIDE DEF l
  <2>3. QED
    BY <1>1, <1>2, <2>2, StoredStays
<1>5. CASE \/ \E m \in Models : Compute(t, m)
           \/ Admit(t) \/ Evaluate(t) \/ Leave(t) \/ Finish(t)
           \/ ComputeAdHoc(t) \/ PublishSnapshot(t)
           \/ CompactStore(t) \/ StoreReturns(t)
           \/ ShutdownWaits(t) \/ ShutdownCloses(t) \/ ShutdownReleases(t)
  <2>1. PICK place \in Places \ Configuring : \E locals : Goto(t, place, locals)
    BY <1>5, Zenon DEF Compute, Admit, Evaluate, Leave, Finish, ComputeAdHoc,
       PublishSnapshot, CompactStore, StoreReturns, ShutdownWaits, ShutdownCloses,
       ShutdownReleases, Return, Places, Configuring
  <2>2. PICK locals : Goto(t, place, locals)
    BY <2>1
  <2>3. QED
    BY <1>1, <1>2, <2>2, StoredStays DEF Configuring
<1>6. QED
  BY <1>3, <1>4, <1>5

LEMMA StoredInit == Init => StoredInv
<1> SUFFICES ASSUME Init PROVE StoredInv
  OBVIOUS
<1>1. TypeInv /\ LifeInv
  BY TypeInit, LifeInit
<1>2. CallsOK
  BY DEF Init, CallsOK, CallOK, Configuring
<1>3. \A id \in Durable : view[id] = Missing /\ stored[id] = Missing
  BY FabricAssumption DEF Init, Ids
<1>4. AcknowledgedIsStored
  BY <1>3 DEF AcknowledgedIsStored
<1>5. ModelsOK /\ StoredModelsAreWhole
  BY <1>3 DEF ModelsOK, StoredModelsAreWhole, Durable
<1>6. QED
  BY <1>1, <1>2, <1>4, <1>5 DEF StoredInv

LEMMA StoredNext == OneConfigurer /\ StoredInv /\ [Next]_vars => StoredInv'
<1> SUFFICES ASSUME OneConfigurer, StoredInv, [Next]_vars PROVE StoredInv'
  OBVIOUS
<1>1. TypeInv' /\ LifeInv'
  BY TypeNext, LifeNext DEF StoredInv
<1>2. CASE UNCHANGED vars
  BY <1>1, <1>2 DEF vars, StoredInv, CallsOK, CallOK, AcknowledgedIsStored, Between,
     ModelsOK, StoredModelsAreWhole
<1>3. CASE Next
  <2>1. PICK t \in Threads : Step(t) \/ Call(t)
    BY <1>3 DEF Next
  <2>2. QED
    BY <1>1, <2>1, PutsStored, ErasesStored, LookedUpStored, JournalsStored,
       ShutdownStored, OthersStored DEF Step, Call
<1>4. QED
  BY <1>2, <1>3

\* When one thread configures and shuts down, what is registered and
\* acknowledged is what the store holds.
THEOREM AcknowledgedRegistrationsAreStored ==
  ASSUME OneConfigurer PROVE Spec => []AcknowledgedIsStored
<1>1. StoredInv => AcknowledgedIsStored
  BY DEF StoredInv
<1>2. QED
  BY StoredInit, StoredNext, <1>1, PTL DEF Spec

\* ... and a model that is stored is stored with what it names.
THEOREM StoredModelsNameStoredArtefacts ==
  ASSUME OneConfigurer PROVE Spec => []StoredModelsAreWhole
<1>1. StoredInv => StoredModelsAreWhole
  BY DEF StoredInv
<1>2. QED
  BY StoredInit, StoredNext, <1>1, PTL DEF Spec


=============================================================================
