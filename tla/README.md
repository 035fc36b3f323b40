# Capacity Fabric Network: formal models

TLA+ models of the capacity fabric, the TLC configurations that check them on small
instances, and proofs, checked by TLAPS, of the theorems that hold for every instance.
Paths are relative to the repository (`src/` here); line numbers are those of
`PROJECT.json`, which maps every definition of a model to the code it translates.

## The system

A fabric answers capacity questions (how much of what is configured is usable, free,
reserved, lost, fragmented; what fits; what is expected) about an infrastructure it holds
an authoritative description of. It is a library; processes embed it, open it on a
directory, feed it, query it, and exchange evidence over TCP.

| Component | State it keeps | Operations | Interacts with |
|---|---|---|---|
| durable store (`src/persist/store.cpp`) | configuration, evidence references, live authority, bounded history, epoch and boot incarnation; the files `state.bin` and `journal.log` | `open`, `put_*`, `remove_*`, `grant_live_authority`, `append_history`, `advance_epoch`, `compact`, `close` | journal (calls, under its own mutex), fabric (called from any thread) |
| journal (`src/persist/journal.cpp`) | an open file, the next sequence number | `open` (scan, truncate), `append`, `append_transaction`, `sync`, `close` | store |
| registry (`src/fabric/registry.cpp`) | an immutable view behind a pointer, replaced under a lock | setters, `put_*`, `remove_*`, `record_observation`, `adopt` | fabric; readers keep the view they took |
| fabric (`src/fabric/fabric.cpp`) | registry, store, history in memory, shutdown flag, evaluations in flight | `register_*`, `compute`, `compute_ad_hoc`, `fit`, `predict`, `validate_snapshot`, `compact`, `shutdown` | registry, store, engine |
| engine (`src/engine`) | none: functions of a view | accounting, maximum flow, fragmentation and fit, evaluation, snapshot binding, prediction | fabric |
| evidence exchange (`src/net`) | per connection: phase of the protocol, bytes read so far | `fetch_evidence`, `EvidenceServer::run`, `FrameReader::feed` | a peer over TCP, a provider through callbacks |
| core, model, text, explain, tools | values | validation, parsing, printing | everything |

What is hard in it:

* **crashes**: the store promises that an acknowledged mutation is durable, across a
  process that dies inside a mutation, an open or a compaction, and across the next crash
  in the recovery from the first;
* **failing system calls** that leave half of something behind in a process that goes on;
* **sequence numbers** that tell the records a checkpoint has folded in from the ones it
  has not, through compactions, truncations and restarts;
* **incarnations**: epoch and boot counters that decide what a restart invalidates;
* **concurrent callers** of the fabric, whose operations touch registry and store one
  after the other, and a shutdown that races them;
* **bindings**: snapshots are valid only for the generations they were computed from;
* **arithmetic**: classes of units that must add up, and 64-bit limits.

What makes each component correct, in a sentence: the *store* recovers every
acknowledged mutation and revives nothing that a restart must fence; the *journal* returns
exactly the committed transactions; the *registry* only ever publishes generations that
advance; the *fabric* never acknowledges what is not durable and shuts down without
publishing or touching released state; *accounting* partitions the units of a resource;
*flow* is maximal and conserved; a *binding* is rejected whenever anything it names
changed; the *evidence client* accepts only what the incarnation it greeted said.

## The modules

| Module | What it is |
|---|---|
| `Store` | `CapacityStore` over two files: every operation, crashes and failing calls |
| `DurableMap` | what a durable store promises, without files |
| `Replay` | the replay loop of the store as it is, against the definitions `Store` uses |
| `MCStore` | `Store` and `Replay` for TLC |
| `StoreProofs` | the proofs about `Store` |
| `Journal` | the journal record by record: appends, tears, the scan, the repair at open |
| `Scanning` | what the scan of the journal returns, stated without its loop |
| `MCJournal` | `Journal` and `Scanning` for TLC |
| `JournalProofs` | the proofs about `Journal` |
| `Fabric` | registry and fabric facade, with the threads that call them |
| `MCFabric` | `Fabric` for TLC |
| `FabricProofs` | the proofs about `Fabric` |
| `Checked` | the checked and the unchecked arithmetic, at any width |
| `Inputs` | what an evaluation is given, and the validators that refuse it |
| `Accounting` | the classes of a resource's units, their totals and their closure |
| `Flow` | the maximum flow solver, step by step |
| `Fragmentation` | the analysis of what a demand shape can use, and the fit query |
| `Prediction` | predictions from observations |
| `Evaluation` | an evaluation, a fit query or a prediction, with the thread that cancels it, and what is to hold of any |
| `Walks` | what may flow over a topology, decided without a network, by walks and cuts |
| `MCEngine` | small fabrics for `Evaluation` and `Walks` |
| `Positions` | sets of positions in order |
| `ListLemmas` | lemmas about positions, sums over sets, ranks and closures |
| `FlowProofs` | the proofs about `Flow` |
| `EngineProofs` | the proofs about `Evaluation` and all it is composed of |
| `CutProofs` | the proofs that what is deliverable is a minimum cut, that a single flow is granted the most its grain allows of it, and that what is stranded has the causes it is charged to |
| `Evidence` | the exchange of evidence: client, server, frames, sockets, provider |
| `MCEvidence` | `Evidence` for TLC |
| `EvidenceProofs` | the proofs about `Evidence` |

`Store` and `Inputs` use `Positions`, `Replay` extends `Store` and `Scanning` extends `Journal`;
`Evaluation` is composed of `Fragmentation` (which extends `Flow` and `Accounting`) and
`Prediction`, and these of `Inputs` and `Checked`.
`EngineProofs` extends `Evaluation` and `FlowProofs`, and `CutProofs` that and `Walks`.

### Store

The disk is `ckpt` (what `state.bin` holds), `file` (how far `journal.log` got: absent,
created without header, good, or refused by the next open), `log` (the data records a scan
would return), `topSeq` (the highest number it would meet), `torn` (a torn record hides
what follows) and `entered` (the directory entry is durable). The process is `pc`, `mem`
(`state_` with `epoch_` and `boot_`) and `nextSeq`. `ckpt = Blank` stands for no checkpoint.

Every public operation holds `mutex_` from beginning to end, so it is one action:
`PutConfiguration` and `RemoveConfiguration` (policies, demand shapes and models are one
kind, their handlers are the same), `PutEvidenceReference`, `GrantLiveAuthority`,
`AppendHistory`, `AdvanceEpoch`, `Close`. What the mutex does not hide has actions of its
own: `open` is `OpenRecover`, `OpenExistingJournal` or `OpenCreatesJournal` and
`OpenWritesHeader`, then `OpenRecord`; `compact` is `CompactPublish`, `CompactRemove`,
`CompactCreates`, `CompactFinish`; `MutationFails`, `OpenRecordFails`, `CloseFails`,
`CompactGivesUp`, `CompactLosesJournal` are the error returns of the system calls in them;
`Crash`, `CrashInMutation` and `PowerLoss` end the process anywhere.

Recovery is written declaratively (the last applied record of an identity decides), which
is the form the proofs use; `Replay!ReplayLoop` is the loop of `replay_journal` and
`ReplayIsLastWrite` says that the two agree in every reachable state of the disk.

Two constants name what the environment may do. `CrashWindows` lists fragile windows in
which a crash may strike: `reset` (the journal was reset by a compaction and nothing in it
is numbered above the checkpoint), `create` (`journal.log` exists without its header),
`entry` (power fails while the directory entry of the journal is not durable). Crashes
outside these windows are always allowed. `Faults` lists failures of system calls: `kept`
(all was written, the call reports an error), `none` (nothing or whole records were),
`torn` (a record was cut off), `dirsync` (syncing the directory fails), `nojournal` (the
journal cannot be reopened in a compaction). The properties that the code does not keep in
a window or under a fault are the subject of the violation runs.

History variables say what a caller may rely on: `may` (the contents recovery may find
under an identity: the last acknowledged one, and those attempted since), `mayHist`
(the same for the history), `seen` (the last incarnation that served, and how it ended),
`fresh` (live claims this incarnation made).

### Journal

`recs` is the file, `durable` how many of its records a power loss cannot take. A call is
begun (`AppendTransaction`, `AppendAlone`), appends record after record (`AppendRecord`)
and ends with `Sync` or `CallFails`; `Kill` and `PowerLoss` cut the file anywhere behind
what is durable, within a record too. `ScanStates` is the loop of `scan_journal`, a state
after each record, `Scan` what comes out of it, and
`Open` cuts a torn tail off after the last commit. `outcomes` holds the payload sequences
a scan may find: those of all acknowledged calls, with any of the unacknowledged.

`Store` rests on three facts that `Journal` shows, and that are proved of it: a transaction of one data record is
found whole or not at all, numbers met by a scan grow in file order, and a reopened
journal has lost nothing a scan would have found.

### Fabric

`view` is the registry's immutable view: for every identity (policies and demand shapes are
`Artefacts`, then `Models`, and the `Catalogs` that are not stored) its generation, its
contents, and for a model the generations it is bound to. `stored` is what the durable store
holds, the map that `Store` implements; `store` says whether it is open, closed or released.
`stopping` and `active` are `shutting_down_` and `active_evaluations_`, `history` the answers
in memory. `pc` and `arg` are the place and the local variables of each thread.

The registry, the store, the history and the life cycle have a lock each, and no lock spans
two of them, so a call is one action per lock it takes:

| Call | Actions |
|---|---|
| `register_policy`, `register_demand_shape`, `register_model` | `Register` (the flag), `RegistryPuts` (the change of the view), `LooksUp` (the view read again), `Journals` |
| `set_resource_catalog` and the other setters | `Register`, `RegistryPuts` |
| `remove_model` | `RemoveModel`, `RegistryErases`, `RemovesStored`, `Journals` |
| `compute` | `Compute` (the view is taken), `Admit` (under the lock), `Evaluate`, `Leave`, `Finish` (the flag again), `PublishSnapshot`, `StoreReturns` |
| `compute_ad_hoc` | `ComputeAdHoc`, `PublishSnapshot`, `StoreReturns` |
| `compact` | `CompactStore`, `StoreReturns` |
| `shutdown` | `Shutdown`, `ShutdownWaits`, `ShutdownCloses`, `ShutdownReleases` |

Calls that return an error before they change anything are not actions. The result of an
evaluation is abstracted to the generations it is bound to and the contents behind them.
A thread that would use a store that was released has no further step: what happens then is
undefined. `failed` and `during` are history variables: identities whose last call returned
an error, and the generations that were in view while a `compute` ran.

`validate_snapshot` is `Validates`: `Current` is what it takes to be current and `Matches`
what `validate_binding` compares.

### The engine

`Evaluation` has one question at a time: `in` is what it is asked (an evaluation, a fit
query or a prediction), `at` how far it is, `rows` the accounting of each resource, `tally`
the local variables of the analysis, `answer` what is returned. `Validate`, `Account`,
`Analyse`, the steps of the analysis and `Close` are the stages of `evaluate` with the
early returns between them; `Cancelling` is another thread that sets the token, at any step.

*Inputs and accounting* are operators. A validator is a predicate; every population has one
limit. `TypedCatalogs` and `TypedShape` are what the types of the code say of an input that
may be invalid (lists, unsigned units, identities in order); `ProblemsAssumption` takes no
more of a problem. `SortedBy` is `std::sort` by a strict order: what has `k - 1` before it
comes `k`-th. `Row` deducts in the order of the code, and `Deductible` is the chain of checked
subtractions that `derive_accounting` refuses a resource by.

*Flow* has the network (`net`, `cap`, `flow`), the call (`call`, `total`, `work`) and the
solver's own state (`level`, `cursor`, `queue`, `path`). `Scan` is one node of the breadth
first search, `Advance`, `Retreat` and `Augment` the iterations of the depth first search;
each charges the work budget and looks at the token when the code does. An odd arc and the
even one behind it are partners. `FlowNext` is the interface as well as the algorithm:
`Build`, `Reset`, `Raise` and `Solve` say what may be called, and when.

*Fragmentation* builds the network (`Assemble`), solves it, takes each scenario's domains
away, solves again and gives them back, attributes what is stranded, and places the flows
one after the other on one residual network.

*Prediction* works at a small width. `Builds` says what a build may make of signed
overflow, which is undefined: fold an unchecked product away into the division behind it,
and believe `(a * b) / b = a`, which is the check in `mul_i64` (`checked.hpp:104`). Sorting
is unstable, so every order of observations of one time is tried (`Sortings`).

### Evidence

`client[c]` is `fetch_evidence` with its reader, `server` is `EvidenceServer::run` with the
reader and the reply of the connection it serves; there is one thread on each side. `toServer`
and `toClient` are the streams. A frame is sent in two pieces and a receive takes any prefix,
so frames arrive split and joined. Any wait for readiness, and any receive, may end without
its event. A send is such a wait and then a blocking call (`socket.cpp:290-297`): a connection
takes a greeting, a request, or a response of up to `Taken` records at once; with a longer
response the server is in the call (`sending`) until its peer has read enough (`ReplySent`),
and no timeout ends that. If the peer goes away first the send fails, or, where writing to a
dead connection raises `SIGPIPE`, which nothing here ignores, the process is `killed`. Not
every peer is a fetch (`fetches`): one that is not may stop reading, or talking, at any point,
and greet the server again when it was acknowledged (`GreetsAgain`). The server asks its
provider for epoch, generation and records in separate steps (`AskEpoch`, `AskGeneration`,
`AskRecords`), between which `Observe` and `AdvanceEpoch` may change them. `Stop`, `Restart`
and `GreetsAgain` are the environment's; a restarted server is a new incarnation, of the same
epoch or the next, with evidence numbered from anywhere.

| Code | Actions |
|---|---|
| `fetch_evidence` | `Connect`, `SendHello`, `ClientReceives`, `SendRequest`, `ClientReceives`, `SendBye`; `ClientFails` |
| `EvidenceServer::run` | `LooksAtStop`, `Accept` or `AcceptFails`, `ServerReceives`, `AskEpoch`, `AskGeneration`, `AskRecords`, `SendReply`, `ReplySent`, `Refuse`, `ServerGivesUp` |

## Runs

| Run | Configuration | Shows |
|---|---|---|
| `store_core` | `MCStore.cfg` | with crashes anywhere outside the windows: nothing acknowledged is lost (`AcknowledgedSurvive`, `HistorySurvives`), incarnations advance as documented, no live claim survives a restart, numbering goes on above the checkpoint, the store can always be opened again, and it implements `DurableMap` |
| `store_hostile` | `MCStoreHostile.cfg` | under every window and fault: the journal is numbered in file order, and the replay loop computes what `Store` defines |
| `store_reset` | `MCStoreReset.cfg` | finding: a crash after the journal was reset loses mutations acknowledged later |
| `store_torn` | `MCStoreTorn.cfg` | finding: so does a write that failed half way |
| `fabric` | `MCFabric.cfg` | with one configuring thread: answers are of one view that the registry held during the call, a generation tells contents apart, what is acknowledged is stored, stored models name stored artefacts; shutdown waits for evaluations and completes |
| `fabric_order` | `MCFabricOrder.cfg` | finding: two registrations reach registry and journal in different orders |
| `fabric_shutdown` | `MCFabricShutdown.cfg` | finding: a call that nobody waits for uses the store while it is released |
| `fabric_stale` | `MCFabricStale.cfg` | finding: an answer whose policy was replaced is accepted as valid |
| `journal` | `MCJournal.cfg` | a scan finds exactly the committed calls, the repair at open changes nothing of that, numbers grow, and the loop agrees with the reference in `Scanning` |
| `engine` | `MCEngine.cfg` | of some three thousand small fabrics, queries and histories of observations, cancelled anywhere: deliverable is the minimum cut in the worst loss to survive (`DeliverableIsMinimumCut`), flow stays feasible and conserved over every solve (`FlowIsFeasible`, `FlowConserved`), what is promised exists (`PromisedUnitsExist`), single flows and queries are answered exactly (`SingleFlowIsExact`), no input makes the internal checks fail (`ClosureNeverFails`), stranding is charged to its cause (`StrandingIsAttributed`), predictions stay within their allowance and rest on evidence that counts, nothing cancelled is published, the analysis keeps to the solver's interface (`SolverProtocol`, the refinement of `FlowSpec`), and every question ends |
| `evidence` | `MCEvidence.cfg` | what a fetch returns is of the incarnation it greeted and not older than it required (`AnswersMeetRequirements`), nor than what the server held when it was asked (`AnswersAreFresh`); no frame is overlooked; fetches return, and so does a server that is told to stop, if its peers let it (`StopEnds`) |
| `evidence_wedged` | `MCEvidenceWedged.cfg` | finding: a peer that does not read holds the server in a send without a deadline |

The runs are those of `PROJECT.json`. Six more configurations ask smaller questions of the
same modules, and can be run in the same way:

| Configuration | Module | Shows |
|---|---|---|
| `MCStoreFailedOpen.cfg` | `MCStore` | `IncarnationsAdvance` is violated: a failed open hides the crash before it |
| `MCStoreHeaderless.cfg` | `MCStore` | `AcknowledgedSurvive` is violated: a crash before the journal's header is written loses mutations acknowledged later |
| `MCStoreFailedEpoch.cfg` | `MCStore` | `IncarnationsAdvance` is violated: an advance of the epoch that was refused is in force after a clean restart |
| `MCEvidenceHeld.cfg` | `MCEvidence` | `ServesUntilStop` is violated: a peer that greets over and over keeps the server from stopping |
| `MCEvidenceFault.cfg` | `MCEvidence` | `ErrorsAreListenerFaults` is violated: a reply that cannot be sent ends the loop for all peers |
| `MCEngineShared.cfg` | `MCEngine` | `AllocationIsFeasible` is violated: a flow is granted what no walk can carry |

Bounds. `store_core` has one key with two values, one evidence source, one holder of
authority, and a history of two entries: the identities do not interact, so one of each
kind reaches every mixture of checkpoint and journal for it, and two values tell a lost
write from a kept one. `MaxSeq = 13` gives a journal four transactions: the incarnation
record, two mutations and a shutdown, or a compaction in between; numbering goes on after a
compaction, so they count across it. `MaxBoot = 3` lets a crash in the recovery from a
crash happen. `store_hostile` trades mutations (`MaxSeq = 9`) for all faults together.
`MaxSeq`, `MaxEpoch` and `MaxBoot` only stop counters that the code lets run to 64 bits.
`journal` allows two transactions of up to two records with room for an unfinished one and
a reopening between them (`MaxSeq = 7`). `CHECK_DEADLOCK FALSE` is set because these bounds
stop the models.

`fabric` has two threads. `t1` configures and shuts down, `t2` evaluates and compacts, so
every step of an evaluation meets every step of a configuration call and of a shutdown. One
thread configures because with two `AcknowledgedIsStored` and `StoredModelsAreWhole` fail
(`fabric_order`), and it is also the one that shuts down because a registration that finds
the store released returns success without a record, another form of `fabric_shutdown`. One
policy, one model that names it and the resource catalog are enough for every relation
between a view, a binding and the store; two contents of the policy and generations up to
`MaxGeneration = 2` let it be replaced under an evaluation. Generation counters saturate at
`Widest`; the run stops below it, so `GenerationsIdentifyContents` speaks of counters that
are not exhausted. The history holds one answer (`MaxHistory = 1`), so the second trims it.
The one evaluating thread never makes `active` more than 1; the theorem about shutdown has
no such bound. Mutations of the policy may fail in the store (`Failing`).

`engine` has integers of 10 bits (`U64Max = 1023`), ten parts in a whole, and the token
looked at every 7 units of work. The widths are as in the code where it matters: unsigned
twice signed, a largest capacity at a quarter. Each family of problems is there for a case:
crossings and detours make the solver take flow back, relays limit the transit of a node and
have a spur, shared relays make two flows compete, with granularities, priorities and single
slices; others deduct, degrade, withdraw, exceed a limit or a budget, or are wrong in one
thing. Four edges and two domains are enough for the worst loss to differ from the sum of
losses. `DeliverableIsMinimumCut` and its like speak of fabrics whose units a signed integer
holds: above that (a total of 2^63) unbounded arcs have no residual (`flow.cpp:58`), which
the run has too, for `FlowIsFeasible`. The observations lie inside and outside every window,
and at the limits of the width. `Walks` decides what may flow by walks over the topology
and cuts of resources, without the network.

`evidence` has one client and a peer of another version that may fall silent, so the server's
one thread is held and its loop met in every state. The client demands what the server may not
have yet, or it is no fetch and of any conduct: silent, deaf, or greeting over and over. There
are two resources, one without authority. Epochs, generations and incarnations go to `Largest
= 2`, enough to be older or newer than what is required. `Taken = 1` lets a response of two
records block the server; `MCEvidenceHeld.cfg` has `Taken = 2`, so that no send blocks and its
peer holds the server by greeting alone. It, `evidence_wedged` and `MCEvidenceFault.cfg` have
one peer. `MCEngineShared.cfg` has one problem, three edges and two flows.

`engine` and `evidence` assume weak fairness of the thread that works: an evaluation does
nothing else and never blocks (written with `at = "done"` in place of `ENABLED`, and a step
that is not `Cancelling` for one of the evaluation, which are the same here); of fetches,
because each of their waits has a timeout (`evidence.cpp:285`, `:292`) and what they send fits
a connection; and of the server's loop, whose waits for a connection and for a message have
timeouts too (`evidence.cpp:430`, `:450`). Its send has none once the socket was writable:
then it can go on only when the peer reads or leaves, so a server in `sending` has no step to
be fair to. Nothing is assumed of peers that are no fetches. Hence `StopEnds` is conditional:
stopping ends `run()` if no send waits for ever (`[]<>(server.at # "sending")`) and no peer
asks for ever (`<>[](server.at # "epoch")`); without the one `evidence_wedged`, without the
other `MCEvidenceHeld.cfg` shows what happens. Nobody has to cancel, connect, stop or restart.

`fabric` assumes fairness in its specification `FairSpec`: weak fairness of the steps
of every thread that has begun a call (never of beginning one), as threads are scheduled, an
evaluation is a finite computation, and every wait is for a lock that is released or polls
each millisecond (`fabric.cpp:552`). The store and the journal promise nothing about
progress, they react to calls.

## Findings

1. *Numbering after a compaction* (`store_reset`). `set_next_sequence` continues the
   numbering in memory; the fresh file says nothing of it. If the process dies before it
   writes a record, the next open numbers from 1 and acknowledges mutations that the open
   after that skips as covered by the checkpoint. The boot it recorded is lost in the same
   way, so the next process has it again and takes the claims of this one for its own
   (`LiveClaimsAreFresh` fails in that window as well). The comment at `src/persist/store.cpp:954`
   and `README.md:196` promise the opposite.
2. *Torn record in the middle* (`store_torn`). After a write that failed half way the
   journal stays open; what is acknowledged behind the torn record is truncated by the
   next open.
3. *Clean shutdown of a failed open* (`MCStoreFailedOpen.cfg`). The destructor of a store whose
   open failed appends `CleanShutdown`, so the crash before it does not advance the epoch.
4. *Journal behind the registry* (`fabric_order`). A registration is applied and published
   before it is journaled, without a lock over both, so of two registrations of an identity
   the older one may be journaled last; both are acknowledged, the newer one is lost at the
   next start. `fabric.hpp:6-11` promises journal before apply.
5. *Calls nobody waits for* (`fabric_shutdown`). `shutdown` releases the store when no
   evaluation is counted, but `compute_ad_hoc`, the configuration calls and `compact` are
   never counted, and `compute` uses the store after it was counted down.
6. *Bindings compared with themselves* (`fabric_stale`). `validate_snapshot` takes the
   generations of model, policy and demand shape from the snapshot it validates.
7. *Journal without a header* (`MCStoreHeaderless.cfg`). `Journal::open` creates the file and then
   writes its header. After a crash in between, the next open takes the empty file for an
   existing journal, appends and acknowledges; every later open refuses the file.
8. *Refused advance of the epoch* (`MCStoreFailedEpoch.cfg`). `advance_epoch` returns the error of
   a sync whose record is on disk and keeps the old epoch; the next open has the new one,
   after a clean shutdown too, where `README.md:212-214` keeps what is bound to it valid.
9. *Wedged peers* (`evidence_wedged`). `send_all` has a deadline for the socket to take
   something, not for the blocking `::send` of up to 1 MiB after it (`socket.cpp:296`).
   `socket.hpp:5-7` promises "never ... an indefinite block".
10. *Peers that never finish* (`MCEvidenceHeld.cfg`). The server looks at its stop flag between
    connections only, and answers a greeting as often as it comes. `evidence.hpp:165` says
    "Serves until stop() is called".
11. *One failed reply ends the server* (`MCEvidenceFault.cfg`). `run()` returns the error of a send
    (`evidence.cpp:490`, `:515`), where `evidence.hpp:165` says "only on a listener fault".
12. *Shared residuals* (`MCEngineShared.cfg`). Flows are placed on one residual network
    (`fragmentation.cpp:580`), so one may be routed over the reverse of an arc that carries
    another of different ends: with edges s-t, u-t, s-v of one unit, a flow s to t lets one
    from u to v be admitted though no walk joins them. `fragmentation.hpp:56-57` and
    `README.md:123-126` promise a feasible allocation and a lower bound. The totals stay within
    what is deliverable, the split is not one that can be carried.

Divergences met on the way that have no run of their own:

* *Overflow of the fit* (`prediction.cpp:63-65`). It is to "degrade to a coarser fit instead
  of overflowing", which rests on `mul_i64`; an optimised build of GCC drops its check. Other
  products are not checked at all (`:218`, `:235`, `:259`), and the order of equal times is
  that of an unstable sort, where `prediction.hpp:13-14` promises results "bit for bit". What
  comes out is clamped all the same (`PredictionStaysInAllowance`).
* *Observations of the future* are accepted up to a second ahead, because differences are
  truncated; the newest samples are kept across resources, so one resource can push
  another's out.
* *Scenario of two domains* with one domain present examines nothing (`fragmentation.cpp:314`).
* *`fit`* computes an effective policy and ignores it (`fabric.cpp:430-435`).
* *The server's loop* also ends with an error when an accept meets a connection that is gone
  (`evidence.cpp:434-439`). A connect is blocking, whatever its timeout. The label of a
  response may be older than its records (`:508-511`), and a response holds rejected
  records beside those that count.
* *Limits of reading and writing* differ in the store: a checkpoint with more than
  `max_policies` evidence references or authority claims is written and then refused by the
  next open (`store.cpp:243`), the largest payload by its header (`:218`, `:422`).
* A summary counts withdrawn resources as unknown (`evaluator.cpp:46`); an identity of a
  snapshot loses part of its digest when the model's name is long (`snapshot.cpp:58`); the
  multiplicity of an edge is validated and never used.

## Proofs

For every value of the constants. `StoreAssumption`, `JournalAssumption`, `FabricAssumption`,
`EvidenceAssumption`, `CheckedAssumption`, `FlowAssumption`, `PredictionAssumption` and
`ProblemsAssumption` say what the constants are and are the only assumptions; what a theorem needs beyond them of `CrashWindows`, `Faults`,
`TornWrites`, the threads that configure or the population, is in its statement.
`ProblemsAssumption` is about the problems an engine may be asked, valid or not: they have the
types of the code, `operator<` orders the identities of a list, and the largest capacity leaves
room for a sign, which `Limits::validate` requires (`limits.cpp:49`, called at `fabric.cpp:95`).

* `StoreProofs!StoreTypes` and `StoreProofs!StoreNumbers`: `[]TypeOK` and
  `[]JournalOrdered`, under all windows and faults. Neither is inductive alone. The
  invariant `ShapeInv` adds that a journal that takes records hands out numbers above
  everything a scan meets (`topSeq < nextSeq`) and that a journal that is absent, being
  created or removed has met nothing.
* `StoreProofs!ReplaysAreLastWrites`: `[]ReplayIsLastWrite`, under all windows and faults, from
  `ShapeInv`. The loop is a fold over the positions of the journal (`ReplayUnfolds`), and each
  prefix of a journal numbered in order is either covered by the checkpoint, and then nothing of
  it is applied, or ends in a record that both the loop and the definitions apply
  (`LastWritesTurn`). So what the theorems below say of recovery, they say of the loop.
* `StoreProofs!AcknowledgedContentSurvives`, `StoreReopens` and
  `StoreNumberingContinues`: `[]AcknowledgedSurvive`, `[]Reopenable` and
  `[]NumberingContinues` under `Benign`, which excludes exactly what the findings show to
  break them: crashes in the windows, torn writes, and a journal lost in a compaction
  (writes that fail without tearing and failing directory syncs are included). The
  invariant `DurableInv` adds to `ShapeInv` which files each phase of open and compact can
  find and that the checkpoint is covered by the numbering (`DiskInv`), that what is served
  is acknowledged or attempted and the records above it in the journal are attempted
  (`ServedInv`), and that what recovery finds on the disk is (`AcknowledgedSurvive`).
* `StoreProofs!StoreImplementsDurableMap`: `Spec => ImplementsDurableMap` under `Benign`.
  Every step of `Store` is a step of `DurableMap` or a stutter, with what is served as its map
  and `may` as what a restart may leave of it. A step that serves another map is a mutation;
  that what `open` serves is among `may` is `DurableInv`.
* `StoreProofs!HistoryIsKept`: `[]HistorySurvives` under `Benign`. `HistoryInv` adds that
  the history an open serves is the one it recovers, that the one served is among those the
  caller may find again, and that a checkpoint of it would be recovered as one of them: the
  trimming at an append, in a checkpoint and in the recovery agree.
* `StoreProofs!NoClaimSurvivesRestart`: `[]LiveClaimsAreFresh` under `Benign`. `BootInv`
  relates the boots on the disk, of the process and of `seen`, `ClaimInv` says that no claim
  on the disk is of a later boot than the one recovered with it, and that of the claims
  served those that bear the running incarnation were made by it (they are in `fresh`).
* `StoreProofs!OpensAdvanceIncarnation`: `[]IncarnationsAdvance` under `Settled`: no window,
  and no fault but `dirsync`. The other faults are left out because the property fails with
  them: after a write that failed the destructor may still append a clean shutdown (finding
  3). `EpochInv` says that the incarnation an open would derive from the disk advances on
  `seen`, and that while an incarnation serves, the disk (and a checkpoint of its state)
  holds it, unclean.
* `JournalProofs!OpeningRepairs` and `RecordsAreNumberedInOrder`: `OpenRepairs` and
  `[]SequencesIncrease`, torn writes included. Of the scan it takes `ScanOK`: it finds in the
  file up to its last commit all it finds in the file, and knows the highest number in it.
  Numbering needs that what a call still has to append is numbered from `next_sequence_` on.
* `JournalProofs!ScansAreReference`: `[]ScanIsReference`, torn writes included, and no hypothesis.
  A file could hold a Commit that no Begin precedes, which the loop would count and the
  reference would not; `BegunInv` excludes it: in the file, followed by what the call in progress
  still has to append, every Commit has a Begin before it with only data between. Record by record
  the buffer then holds the run of data since the last Begin (`InBuffer`), which is kept as a
  whole when its Commit accepts it (`RunCommits`, `RunTaken`) and dropped otherwise.
* `JournalProofs!ScansFindWholeCalls`: `[]CommittedExactly` for any payloads, groups and
  number of calls, if a failed write leaves no torn record (finding 2 shows what one does
  that is left). `CommitInv` says that no record follows a torn one (`TornIsLast`); that a
  transaction of which some records are written is in the scan's buffer, with the data
  written so far (`CallOK`, `Underway`), so that its Commit is accepted and nothing of it is
  found before; and that a call that has written everything is found, unless it wrote a
  record alone behind an unfinished transaction (`DoneOK`).
* `FabricProofs!ShutdownWaitsForEvaluations`: `[]ShutdownWaited` for any threads and calls.
  The invariant `LifeInv` says that `active` is the number of threads between `Admit` and
  `Leave`, and that the flag is set from the wait on; a thread is admitted only while the
  flag is clear, so the number can only fall once shutdown waits.
* `FabricProofs!FabricTypes`: `[]TypeOK`, from `LifeInv` and `TypeInv`, which says what the
  local variables of a call hold at each of its places.
* `FabricProofs!BindingsIdentifyContents`: `[]GenerationsIdentifyContents`. The invariant
  `GenerationInv` says that everything read from a view (by a call under way, in an answer
  not yet published, in the history) is behind the present view: of an older generation, or
  of the same one with the same contents, or the counter is exhausted. It is kept because
  every change of the view moves it forward (`Forward`), identity by identity, models
  excepted: one that is removed and registered again starts from 1.
* `FabricProofs!AnswersComeFromOneView`: `[]AnswersAreOfOneView`. `OneViewInv` follows the view
  that a call took, and then its answer, among the views published since it began.
* `FabricProofs!AcknowledgedRegistrationsAreStored` and `StoredModelsNameStoredArtefacts`:
  `[]AcknowledgedIsStored` and `[]StoredModelsAreWhole` under `OneConfigurer`, one thread that
  registers, removes and shuts down, any that compute; the findings show both to fail with two.
  `StoredInv` says that such a call is only under way while the fabric is open, that what it
  is about to journal is what it registered (`CallsOK`), and that models in the registry and
  in the store name what is registered, in a generation it has reached (`ModelsOK`): models
  are journaled with the bindings of the view, whose artefacts may be ahead of the store.
* `FlowProofs!FlowStaysFeasible`: `[]FlowIsFeasible` for every network, of any size, and any
  sequence of solves, limits, changes of capacity, cancellations and exhausted budgets.
* `FlowProofs!AnswersAreMaximal`: when a solve ends by itself with less than its limit, the
  nodes of the last level graph hold the source, not the sink, and no arc out of them has a
  residual: a saturated cut, so the answer is a maximum flow. With `EvaluationImplementsFlow` this is
  about every solve of an analysis. The invariant `SolverInv` says for
  each place of the solver what it has established: the queue of the search holds every
  ranked node that may still rank a neighbour (`LevelsOK`), and the path is a chain of arcs
  with residual from the source, each one level further down (`PathOK`), so that an arc and
  its partner are never both on it and pushing the bottleneck along all of it leaves every
  arc within its capacity.

* `EngineProofs!EvaluationImplementsFlow` and `EvaluationsAreFeasible`: `Spec => FlowSpec` and
  `SolverProtocol`, `[]FlowIsFeasible`. Every step of an evaluation, a fit query or a prediction
  is a step of `FlowSpec` or leaves the solver alone, so whatever is proved of the solver holds
  in it. The next theorems rest on `EvaluationInv`: at which stage what is filled in, and that
  only a solve under way has the solver busy (`FormInv`), the invariant of the solver, and that
  the path of a search is a chain from the source (`Connected`).
* `EngineProofs!CancelledNeverPublishes`: `CancelledPublishesNothing`. `TokenInv` says that nothing
  is answered before an evaluation ends and that only an evaluation has a token to set
  (`fabric.cpp:435`); of the actions only `Close`, `Predict` and the end of a query answer with a
  result, and `Close` looks at the token.
* `EngineProofs!PredictionsStayInAllowance`: `[]PredictionStaysInAllowance`, for any history and
  request, any width of the integers, and each of the builds. The lemmas follow the clamps:
  whatever a fit or an overflowed product makes of the slope, `MovedProperty` and
  `OutcomeProperty` bound what comes out by the allowance and the largest capacity.
* `EngineProofs!PredictionsRestOnEvidence`: `[]PredictionRestsOnEvidence`. `Windowed` says which
  observations are left when the history has been filtered, sorted in one of the ways the sort
  allows and cut to the newest: the last of one enumeration of what counts, so that the last of
  them of a resource is the newest of all that is sound for it. Times are cut to whole seconds, and
  what is sound but cut off by that is older than what counts (`CountedIsSound`).
* `EngineProofs!FlowsAreConserved`: `[]FlowConserved`. Pushing along a chain changes what leaves
  only its two ends (`FlowProofs`); `ConservedInv` says between which ends the flow of a network
  runs at each stage (the super source and sink of a solve of everything, else the ends of the
  flows placed so far), and that a solve that begins finds none.
* `EngineProofs!PromisesAreBacked`: `[]PromisedUnitsExist`. `EngineInv` adds to `EvaluationInv`
  that the accepted catalogs made the rows (`RowsHeld`: sorted, one for each resource, with what is
  available of it after every checked deduction) and the rows the network (`NetHeld`: in every
  stage it is the one `Assemble` makes, and a slot has its row's units for capacity, or none
  while its domain is lost). With `FlowIsFeasible`, what is carried is within what is available.
* `EngineProofs!EvaluationsAreTyped`: `[]TypeOK`. `AnswerInv` ties the answer to the stage.
  Levels stay below the number of nodes because the search leaves none out (`LevelInv`: below a
  node of level `k` there is one of each smaller level), which needs the network to be finite.
* `EngineProofs!ClosuresHold`: `[]ClosureNeverFails`: the internal checks of `fragmentation.cpp`
  and the two `verify_closure` refuse nothing, whatever the input. `SharesInv` follows the shares
  through an analysis: what is deliverable is at most what the base solve pushed, and this with
  what is segmented at most what is available (`Measured`); once attributed, what is deliverable
  and what is stranded make up what is available, and the budget, what is granted and what
  granularity lost of it make up what is deliverable (`Shared`). That a solve pushes no more than
  the admissible rows have (`PushedBound`) is the argument by a cut: `Near` are the nodes in reach
  of the source, short of the far end of a slot or an edge where that leads to the sink; only
  slots of admissible rows lead out of it (`CutArcs`), and what crosses a cut of a conserved flow
  is what the source sends (`CutProperty`).
* `CutProofs!DeliverablesAreMinimumCuts`: `[]DeliverableIsMinimumCut`, max-flow min-cut for every
  accepted topology, shape, policy and query whose available units a signed integer holds. The
  reference (`Walks`) knows no network: a cut is a set of resources without which no walk over the
  edges leads from a source to a sink, and the losses to survive are those of one, two or no
  healthy domains. *Weak duality*: the nodes that walks get to without a cut are one side of the
  network, on whose border are only the cut's slots, so no flow exceeds the cut's units
  (`WeakDuality`). *Strong duality*: what a finished solve still reaches is a side whose border is
  saturated; its slots cut every walk, and what crosses it is what the source sent
  (`StrongDuality`). Hence every solve of everything sends exactly the minimum cut of what was lost
  (`SolvedIsCut`). `ScenariosProperty` says that the scenarios of the code, built over sorted
  domains and pairs of positions, are the losses to survive. The invariant `CutsHeld` carries this
  through an analysis: what was solved so far is the least cut of the losses looked at
  (`LeastSoFar`), those left are in the list, and capacities are given back before the next.
* `CutProofs!SingleFlowsAreExact`: `[]SingleFlowIsExact` on the same terms. Before the only flow is
  placed every capacity is given back (`Restored`) and the network is empty; while it is placed the
  limit of the solve is the quantity sought (`SoleHeld`). By strong duality the solve sends the
  lesser of what is asked for and what survives (`SoleIsPushed`), and what rounding down to the
  grain makes of it is the largest quantity of the grain below both (`LargestGrain`,
  `SoleIsLargest`). `QueryHeld` carries the same to the answer of a fit query, which has one flow
  and no policy of slices.
* `CutProofs!StrandingsAreAttributed`: `[]StrandingIsAttributed` on the same terms. The code admits
  the slots that the source of all reaches and that reach the sink of all; both are least fixed
  points, and so are walks, whence each contains the other: the slots entered are those a walk from
  the sources gets to (`ReachEnters`), those left are those a walk goes on from to a sink
  (`ReachLeaves`), and the two together are those on a walk from one to the other
  (`OnWalkSplits`, `AdmissibleIsOnWalk`). The invariant `AttributedHeld` says that the rows stay
  marked so from the first solve on (`Marked`) and that the causes, once written, stay what the
  marked rows, the base and the worst loss make them (`Attributed`); `SegmentsAreRest` and
  `DeliverablesAreMinimumCuts` compare that with the reference.

* `EvidenceProofs!ExchangeTypes`, `NoFrameIsOverlooked` and `AnswersAreAsRequired`: `[]TypeOK`,
  `[]NothingOverlooked` and `[]AnswersMeetRequirements` for any clients, options, population
  and authority. The invariant `ExchangeInv` says that the two sides of a connection take
  turns: one message is on its way, or being answered, or about to be sent, and never two
  (`TurnOK`), so that a stream never holds more than the two pieces of one frame (`StreamOK`)
  and a receive cannot complete two. With it go what each message may say at each place of
  the protocol (`Outgoing`, `Incoming`, `ReplyOK`) and what the client has checked when it
  goes on (`LearntOK`).
* `EvidenceProofs!AnswersAreNotStale`: `[]AnswersAreFresh` if the population fits a response
  (`Len(Population) <= Limit`; beyond the limit the server leaves records out, however many
  were asked for). `FreshInv` follows what was held when the client asked: until the
  records are taken the provider holds nothing older, and then the reply, the stream and the
  client's buffer hold nothing older. A restart forgets what was held, but breaks the
  connection with it.

The first part of `StoreProofs` has the facts about recovery on which the proofs about the
store rest: what appending a
transaction does to the last applied record of an identity, what a checkpoint that covers
the journal makes of it, and what emptying the journal leaves.

Only model-checked: liveness (`ShutdownCompletes`, `EvaluationEnds`, `FetchEnds`, `StopEnds`), which
the proof system does not handle. Every invariant and every action property that a passing run
checks is the statement of a theorem, and so is the refinement each of them checks.

## Not modelled

Corrupted media and `allow_state_discard_on_corruption`; the lifetime of authority claims;
payload sizes and population limits, which encoding and decoding check differently; a file
header that is itself written in part; pages that the operating system loses long after
the process died (`PowerLoss` of `Store` takes the whole unsynced file, that of `Journal`
any unsynced suffix). Of the fabric: opening it on a store that holds something, which
restores generations; how observations are recorded; freshness of evidence; population
limits; the order in which answers reach the history of the store. Of the engine: the lists
of bottlenecks beyond their worst entries, digests and identities of snapshots,
`classify_staleness`. Of the exchange: bytes that are not a message of the protocol, its
encoding, resolving and starting up the network. Parsers, printers, explanations, the
encoding of records, benchmarks and tools have no state and no order of their own. `PROJECT.json` lists the components without a module and why.

## Plan

In this order; each step is a module, its run, and what is worth proving of it.

1. `Store`, `DurableMap`, `Journal`; `Fabric`; the engine (`Accounting`, `Flow`,
   `Fragmentation`, `Evaluation`, `Prediction`); `Evidence`: done, as above.
2. Proofs about the exchange, about the store across restarts, and about the journal: done,
   as above.
3. `Journal` implements the view that `Store` has of it; the theorems about it are the parts.
4. Proofs about the accounting of `Evaluation` and about its fit and predictions: done, as above.
5. A fabric that is opened again on its store: generations, epochs, and answers that
   outlive the process that computed them.
