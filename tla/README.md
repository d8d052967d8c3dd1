# TLA+ models of BagelQuant Core

TLA+ modules, TLC runs and TLAPS proofs about `bagelquant_core`: its persistent
graphs, its incremental updates, its artifact store, the ways its nodes are executed
and continued, the plans of its runtime, and the reserves its workers share. Source
paths below are relative to `src/bagelquant_core/` in the repository unless they start
with `docs/`.

Core is a library. It has no scheduler and no daemon: whoever embeds it opens
stores, freezes plans, admits nodes to threads of its own, and decides when to
publish, release and clean up. Several processes may do this over one store. What
holds the parts together is one SQLite database (`BEGIN IMMEDIATE` writers, snapshot
readers), a directory of immutable Parquet generations, and a few locks and events
inside each plan. The modules model that control. The numbers that flow through it are
abstracted to what they were computed from, or, where their meaning is the point
(plans, streaks, histories), to small integers.

## Inventory

| Part | State | Operations | What makes it correct |
|---|---|---|---|
| Graph lifecycle (`graph_management.py`, graph rows in `store.py`) | definition, statuses, contexts, two revision counters | merge, sleep, wake, register_context | a stale snapshot never overwrites what others committed; nothing active reads a sleeping node |
| Update plans (`update.py`, `complete_node`, `node_completions`, `commit_update`) | per plan: frozen snapshot, keys, results, values, in-flight nodes; per store: completion flags, receipts, current version | plan_update, ready, execute, publish | only work that matches the graph becomes visible; one history of global versions; flags never go back; plans end |
| Publication (`CoreStore.publish`) | materialization rows, generation directories, `.pending` | encode or compose, choose Domain, register or revive | an available row has its files; its manifest never changes |
| Retirement (`release.py`) | `materialization_releases`, `artifact_release_plans` | plan_release, apply_release in three transactions | nothing that stays loses its sources or its files, whatever is interrupted |
| Cleanup (`cleanup_plan`, `apply_cleanup`) | generations on disk, receipts | preview, apply | no named generation goes |
| Read sessions (`read_context`, `metadata_memo.py`) | memoised manifests, indexes, proofs under a byte bound | manifest, discard_scope, close | a memo never answers for something else than the active row |
| Execution preparation (`preparation.py`, `_priority_lru.py`) | entries, charges, in-flight events | remember, get, restrict, discard_scope, clear | single flight, exact account, no lost waiter |
| Logical graphs (`logical.py`, `hashing.py`) | none (values) | create, normalized, union, canonicalize_graph | equal definitions get equal identities; unions stay ordered DAGs |
| Finite blocks (`incremental.py`, `_finite_cold_batch.py`, `finite_work.py`) | canonical blocks, partial prefixes, the rows a cold batch owns | execute_finite_node | resumed, batched and repeated work equals whole-history work |
| Checkpoint execution (`incremental.py`, `operator_state.py`) | checkpoints with the parent scopes they consumed | execute_checkpoint_node | a recursive operator resumed from a checkpoint goes on as if it had never stopped |
| Regions (`regions.py`) | which nodes are transient, seals, certificates | plan_regions, execute_region | every node has one owner; what a region resumes is proven for all its nodes |
| Causal replay (`causal.py`) | buffers per source, one replay per plan and context | execute | a cell depends on what was known on its day, on all of it and on nothing else |
| Execution runtime (`execution.py`, `operation_contract.py`, `operator/`) | plan values with their claims, frontiers, pending materializations | run | a plan means what its operators mean; evidence stays with its result; nothing published is computed again |
| Maintenance (`proof_maintenance.py`, `*_maintenance.py`, `cutoff_*.py`) | reviewed plans, replacement evidence | plan, apply, verify | what is published by reference is what a computation would give |
| Estimators, optimizers, DSL, documentation | numerical or textual | | numerical contracts, tested by example |

Interactions: `Graph` mutations and `UpdatePlan` meet only in the graph rows, through
the pair of revision counters. Plans meet each other in materialization rows,
completion flags, receipts and `current_update`. A plan executes each node by one of
five policies, which continue what earlier results and their evidence prove, and
maintenance publishes by reference what a policy would otherwise refuse. Publication, retirement and cleanup
meet in rows and files. Workers of one plan meet in its locks and in its
`ExecutionPreparation`; reads of either kind of session go through a memo.

Hard behaviours: transactions that compute on a snapshot of an earlier one (merge,
sleep, release, cleanup, publish); a file system that is not part of the
transaction; retirement and revival of rows whose identity is their content;
planners that outlive the state they froze; failed or cancelled executions; results that
are continued from evidence written long before, over a source that was restated since;
claims that plans inherit and skip work on; waiting on events set by others. `PROJECT.json` lists each as a hazard at its line.

## Modules

### GraphRegistry

The graph as callers are promised it: `graph` is the decoded row of
`graphs`/`graph_nodes`/`contexts`, and `Merge`, `Sleep`, `Wake` and
`RegisterContext` happen at one instant. Nodes are content-addressed, so a
definition is a set of identities and the union of two is the union of sets; the
dependencies are the constant `Parents`, any function (`Upstream` is the least closed
set, so cycles need no exclusion). Counters are bounded by `MaxChanges` in the
guards (`WithinBound`), nothing else is.

### GraphLifecycle

The program: each caller in `calls` runs one operation. `BeginMerge`, `BeginWake`
and `BeginSleep` are the first read with the computation on it; `SelectSleep` is the
second read of `sleep`, from `downstream()`; `Save` and `Conflict` are `save_graph`,
which compares both counters, replaces the definition, moves one counter and upserts
one status row per node. `RegisterDirectly` is one transaction without a fence. The
operations return early when nothing changes, so does the model.

### VersionHistory, UpdatePlans

`VersionHistory` is the abstract specification: global versions are published one after
the other, each over the version that was current, and never again. `UpdatePlans`
implements it (`History`, checked as `HistorySpec` and proved).

`Freeze`, `Adopt` and `FinishPlanning` are `UpdatePlan.__init__`: one snapshot, one
read of completion flags per context, one closing guard. `Admit` is the locked part of
`_execute`; then each worker goes through `Inspect` (`describe`), `Lookup`,
`LoadParents`, `Publish` and `Complete`, one step per transaction, `Refuse` being the
guards that raise and `Interrupt` the computations, cancellations and loaders that
do. `PublishUpdate` is `publish` with `commit_update`: its definition is read before the
transaction, but a plan that passes the fence inside has seen that definition, so it
is one step. `Abandon` is a crash or a caller that gives up: memory goes, rows stay.
`PreviewRelease` and `ApplyRelease` are retirement as plans see it. Graph mutations are
those of `GraphRegistry`.

A materialization key is the node, the version of the data below it and the
registration of its context; equal keys stand for equal numbers. A version ends at a
session (`Through`), a registration may carry an information cutoff (`Cutoff`).
The parents of one node are loaded in one step (the code guards and looks up one at a
time; each one can fail with the same effect). Every computed node is durable here;
nodes that stay transient are in `RegionBlocks`. What a behaviour may do (contexts,
versions, graph changes, releases) is its scope.

### ArtifactStore

`rows` maps results to manifests that name files; `disk` is what exists. A file is a
generation and a slot: `values` for the partitions, `domain` for calendar and
membership, which is what sharing distinguishes. `Encode` and `ChooseDomain` are what
`publish` does outside its transaction, `Commit` the transaction in its three
outcomes (insert or replace, restore, repeat), `CrashInCommit` a transaction that rolls
back after some of its file operations, `Drop` every failure before it. `Retire`, `Unlink`
and `Finish` are the three transactions of `apply_release`; `CrashInUnlink` may leave
any subset of an unlink done. A row may be `fresh` or `composed` from the partitions
of one source; two manifests have one content identity when their layouts are equal,
because content identities cover everything but paths. `ChooseDomain` may take any
registered row where the code takes the first with a valid index.

### ReadSessions

Extends `ArtifactStore` with the manifests one `read_context` has memoised, under
identity and content identity. Entries may leave at any time (`Evict`), so the byte
account does not matter here.

### PriorityLRU, Preparation, MetadataMemo, OperationReserves

`PriorityLRU` is the order in which both reserves give entries up (`first_at_most`).

`Preparation` is `ExecutionPreparation`. Entries are locators with a charge and
a priority; a worker is a stack of `remember` calls because a build may remember
other entries (an interval proof reads an index, whose manifest goes to the memo).
`Hit`, `StartBuild` and `Wait` are the locked look-up; `Enter` is the locked
admission; `EndWithout` is a build that returns `None` or raises; `Settle` is the
`finally`, in which the entry leaves `_in_flight` and the event is set under one lock.
A waiter polls with a timeout; the model wakes it when the event is set, which is
what polling amounts to. `Cancel` is `check_canceled` raised while waiting.

`MetadataMemo` is the memo of one read session (`metadata_memo.py`) and the
verifications that threads run through it: a stack of frames from a result to the
originals its row refers to. `Found` takes what an earlier walk left in the same scope,
`Accept` leaves it. The closing verification of a writer uses a scope of its own, whose entries are
discarded when it leaves. Of the kinds of metadata, manifests and source bindings are
modelled; authority that is lost does not come back. `OperationReserves` puts the two
side by side, one per behaviour.

### FiniteWindows

What an operation with finite history reads: the calendar is `1 .. Len(source)`,
`source[t]` the members of session `t` and the edition of the parents' values. `Halo`,
`NumericalStart` and `ParentWindow` are the window arithmetic of `incremental.py`.
History is counted in observations of each asset, and a membership is an observation
even where its value is null. Numbers are abstracted to the sessions they were
computed from, by `Consumed`: what the four kinds of kernel look at. This makes a
window that is too short, or an accumulator that starts somewhere else, a different
value. `Observe` and `Restate` are time and corrections of history; a correction that
admits or drops a member is not modelled.

### ExecutionPolicies

A node is executed by one of five policies, chosen when the plan is frozen, each with its
keys, its evidence and its way to continue what is published. They meet only in the
store, so the module puts them side by side over the same variables, and a behaviour is
of the nodes of one policy. A sixth part maintains their keys.

**FiniteBlocks** is `execute_finite_node` for one node. `Start` is everything before the
main loop, with the check that some block of a completed prefix is proven; `Reuse`,
`Resume`, `Compute` and `Batch` are the ways through one iteration, up to the kernel;
`Publish`, `Join` and `PublishBatch` are the transactions of `_publish_finite_block`;
`Finish` and `Complete` publish and complete the node's own result. `Interrupt` is a
cancellation, a crash or an error. `Retire` takes any set of rows that nothing left is
composed of. What is registered under a key stays and a publication must agree with it
(`Register`). A proof is the content of the sessions it covers. Interval proofs are taken
to be known: an unknown one only refuses (with completed history) or names its source as
a whole. Whether a batch is admitted is a choice; the code decides by memory. All parents
and the output share one Domain. Parameter bindings and policies that changed lead to
explicit maintenance.

**StreakState, RollingTraining, CheckpointBlocks** are `execute_checkpoint_node`.
`StreakState` translates the streak kernel of one asset and the state that continues it,
column by column; `RollingTraining` the fit calendar and the sample of the rolling
estimators, a fitted model being its sample; exponential moments are what they
have accumulated and how many of it were valid. A result proves the prefix it consumed; `Start` resumes from the newest
one whose prefix is proven unchanged and whose state can be read, `Certify` is the
maintenance of a result that has none, in one step. A valid cell always has a trace;
the cutoffs inside `input_scope_proof` are left out.

**PeriodCheckpoints** is the supervised prediction, whose result retains a statistic of
every period: `Statistics`, `Predict` and `Compose` are its three publications, `Changes`
and `Influences` what has to be fitted and predicted again. A statistic is what it was fitted to.

**RegionBlocks** is `regions.py`: nodes that are computed together, of which only the output
is published. Every plan chooses regions anew (`Durable`, `Members`, `Regions`) from what it
is asked for. `Sealed`, `Matches` and `Proven` are the ways a node that has no rows counts as
done; `Covered` is what the receipt of an update demands. Nodes outside regions go through
`Finite` in one step, and a fragment and the block made of it are one step. Admission by
memory, repair of cutoffs and the order of dispatch are left out.

**CausalReplay** is `causal.py` over one versioned source and one asset: versions that become
known later or are discovered late, blocks split where an old observation becomes visible, and
one buffer for all nodes. A cell is what the node gathered, with the versions in effect on
that day. `Acquired` is what a block is given: the buffer is extended at either end (`Loaded`), cut where
it starts from now on (`Kept`), and read. Its start (`KeptFrom`) only ever moves forward. So a buffer
can lack sessions that a block needs in two ways, which the finding `causal_buffer` describes, and then
`OutputsArePointInTime` is false. What the code does guarantee is `OutputsAreOfTheirDay`:

- `NothingIsForeseen`, whatever the histories: a cell shows nothing from after its day and nothing that was replaced by
  then; sessions of its halo that the buffer lost are missing as a whole;
- `OutputsArePointInTime`, a cell shows all of it, when the histories of a plan's nodes differ by a session at
  most (`EvenHistories`) or grow along a graph in which a plan takes all nodes before one
  (`ChainedHistories`).

The scopes of the passing run include nodes two sessions apart, published up to different sessions.

**ProofMaintenance** is explicit maintenance of one node over one external input: a newly declared
history (`PlanContract`), new proofs of the same input (`PlanRebinding`), a lower cutoff
(`PlanNormalization`) and a changed tail (`PlanRepair`). Plans are reviewed
(`Admit`), applied publication by publication (`Apply`, each rechecking what was reviewed) and
repeated after an interruption.

### SparsePlans

What `execution.py` turns a node into before anything is collected: a plan with a frame (rows
for some keys of the Domain) and *claims* about it, on which the runtime skips work: a default
for the keys without rows, that there is a row for every key, that its keys are those of another plan
(`keys`), that its rows come in an order. `Derived`, `Prepared`, `ScalarPlan`, `ImplicitPlan`,
`ImplicitJoin`, `ShiftPlan` and `GeneralPlan` are the ways to a plan, in the code's order
(`Lowered`); `Operands` pairs the rows of the parents, by key, by position when the claims say
that positions agree, or collects them under one owner of keys (`Collected`); `Presented`
is what a reader of the published frame is given. Kernels are modelled on numbers by what
they do to rows: of one cell, of one asset's earlier cells (lags, windows, fills, decay), of one
session (ranks, means, groups), of two frames (covariance, regression), and an extension of unknown
kind. `Cell` is the operator's definition on dense panels, `Denotes` of the graph, against
which plans are checked. `BuildTraces` is the trace of a node by its trace rule.

Left out: masks and other auxiliary parents, division and NaN, non-deterministic operators,
the row order of trace frames, dynamic Domains, `validated_keys`, extensions whose trace rule
is NONE, the output cache. Labels have no nulls here, and both parents of a pair are traced
(see "Findings" for what happens otherwise).

### ExecutionRuntime

`ExecutionRuntime.run` over those plans: with one worker nodes are asked for depth
first; with more, `_run_frontiers` plans what is ready, defers eager work (`Defer`), starts it in
batches by memory (`StartBatch`), lets kernels end in any order (`KernelEnds`) and merges them in
graph order (`Merge`). `Record`, `PublicationDue` and `Publish` are publication by groups;
`PublishPartly` is a transaction that fails between two records. `Fail` may happen at any step and `Retry` runs
again, with the store as it was left.

`MC*.tla` only give constants their values.

## Runs

Deadlock is checked in `execution` and `lost_defaults`, where `Ended` says where a run may
stop. Elsewhere callers, plans and workers are bounded, and the system stops when they
have used up what they may do.

| Run | Instance | Shows |
|---|---|---|
| `graph_lifecycle` | 2 callers, a diamond of 4 nodes, 1 context with 2 registrations, 3 commits | `RegistrySpec` (the abstract specification), `ActiveAncestry`, `FencedSnapshotIsCurrent`, `AsleepUntilWoken`, `NothingForgotten` |
| `updates` | 2 plans; either 2 contexts, 1 data version and 3 graph changes, or 1 context, 2 versions, 2 changes and 2 releases | `HistorySpec` (the abstract specification), `UpdatesMatchGraph`, `FlagsMatchGraph`, `FlagsAdvance`, `AncestorsRegistered`, `ReleaseKeepsAncestry` |
| `update_liveness` | 2 driven plans, 1 failed execution each, with fairness | `DrivenPlansEnd` |
| `artifact_store` | 3 results of which one is composable and two share a Domain, 2 publishers, 3 generations, 2 releases | `ValuesPresent`, `ManifestsImmutable`, `FilesOutliveRows` |
| `policies` | the scopes below, one policy each | `FiniteResultsAreWholeHistory`, `FiniteBlocksFollowProofs`, `FiniteHistoryIsReused`, `CheckpointResumedIsWholeHistory`, `CheckpointHistoryIsContinued`, `PeriodPredictionsAreOfTheirDay`, `RegionsAreWholeHistory`, `OutputsAreOfTheirDay`, `MaintainedIsComputed` |
| `execution` | all graphs of 2 and 3 operations over 2 inputs on a grid of 2 sessions and 2 assets, larger ones for scheduling | `SparseMeansDense`, `HistorySuffices`, `ClaimsHold`, `TracesCoverInputs`, `PublishedWithItsEvidence`, `PendingIsBounded`, `NothingPublishedIsRecollected` |
| `reserves` | 3 workers, a window, metadata and a proof built from both, a reserve of 3 for 5 bytes; or 2 threads, 3 results and 2 verifications over a memo of 4 bytes | `ReservesAreExact`, `BuildsAreSingle`, `FreshChecksHold`, `EvidenceStays`, `CallsReturn` |
| `retired_completion`, `domain_files`, `session_memo`, `causal_buffer`, `lost_defaults` | smallest instance | the findings below |

Why the bounds are enough. Two callers are enough for a snapshot to be outdated
by one operation and saved by the other, and three commits for a node to be merged, put
to sleep and woken around a pending call; a diamond is the smallest DAG where a node's
parents sleep apart. Two plans can share a predecessor, a result and a flag; the chain
`input -> mean -> rank`, with `rank` also reading `input`, has a node whose computed
parent must be loaded. Two releases let one be interrupted while a result it retired
is recomputed and retired by the next. Three generations give original, revival and
one competitor. Three workers give a builder, a nested waiter and a waiter on it; two
threads a reader and a writer; a memo of four bytes evicts.

In `policies` (`MCExecutionPolicies`):

- finite: `MCGrowth` has blocks of 3 sessions and one more, so that there are partial
  blocks of one and two sessions, a resumption from the longer, and a second block whose
  history, in observations, reaches behind its calendar halo when an asset was away; three starts
  let an execution resume what two earlier ones left. `MCRestated` and `MCRetired` have two
  executions side by side, on sources that differ by a session or a restatement, or that lose rows.
- checkpoints: `MCHistories` has every short history of two streaks and a moment, cut into
  executions everywhere; `MCProtocol` restatements, renamed parents, damage, legacy results and
  interruptions; `MCTraining` labels that are restated after they were used, and samples that overflow.
- periods: `MCWindow` has a window of two periods that gaps and late targets break, `MCRetry` a
  short one with interruptions between the three publications.
- regions: a chain that is joined whole or cut, over a source whose restatement its first node does not show (`MCChain`), one whose first node is not eligible and whose
  source is restated and restored (`MCReturn`), and a diamond asked for in three ways; an
  implementation changes in the first and the last.
- causal: `MCReplay` has two plans over a chain and a node of its own, with two late versions of five
  sessions; `MCFailures` interrupted and repeated plans. `MCMixed` has three plans over two nodes that read
  two sessions back and none, one of them also by itself, with a late version: its replays reach the
  trim of `causal_buffer` and the gap. `MCEven` has the same with histories of one and none, where nothing may be
  missing, and `MCRepeated` either node by itself, with interruptions.
- maintenance: `MCChained` applies one plan on the other, `MCAmongRuns` among ordinary runs,
  `MCReleased` over a source that grows, with rows retired between review and application.

In `execution` two operations reach every pair of claims, a third their propagation; graphs of
three take the operators that make claims, graphs of two also windows, ranks, groups and pairs.
`Ranks`, `Twins`, `Stages` and `Fits` have several eager kernels, two of one physical identity, kernels
above kernels, and regressions of one parent that share no kernel though ranks of one would (`SameKernel`), with one failure and a retry, memory for some or all of a batch, and a pending
limit of two results.

Plans, publishers, and assets and executions of the policies are interchangeable and declared
symmetric where a run has only invariants and action properties.

Each property has a mutant in `PROJECT.json`, a plausible slip in the code (one counter
of the fence, an upsert without its `WHERE`, a release applied as reviewed, an event
dropped and never set) under which TLC finds it violated.

## Fairness

`UpdatePlans.FairSpec` assumes a caller that goes on: it finishes planning, admits
whatever `ready()` offers, lets each worker take its next step, and publishes. Core has
no scheduler, so this is what "driven" means; the property says that such a caller is
never left waiting. Failures are bounded per plan by `MaxFailures`: a computation that
always fails ends no plan. A plan that is overtaken, by the graph or by another current
version, is excused: the code raises `RevisionConflict` and the caller plans again.

`OperationReserves.ReserveSpec` assumes that a thread that can go on does and that builds
end, by value, absence or exception. Nothing is assumed about cancellation.

## Proofs

`GraphRegistryProofs` and `GraphLifecycleProofs` prove, for every set of nodes, every
`Parents`, any number of callers and any `MaxChanges`:

- `RegistryTypeCorrect` and `RegistryActiveAncestry`: on the registry both are
  inductive as they stand; growing needs `MayGrow` (nothing grows above a sleeper), sleeping
  needs that the downstream selection is closed under consumers, waking needs
  `MayWake`.
- `LifecycleInvariant`: `TypeOK /\ FencedSnapshotIsCurrent`. The fence compares two
  counters; the invariant says that equal counters mean equal graphs. It is inductive because
  every commit moves a counter and none moves back: a call's snapshot was the
  graph when it was read, and after any commit its pair is strictly behind.
- `LifecycleImplementsRegistry`: `Spec => RegistrySpec`. A save that passes the fence
  computed its proposal from the current graph, so it is the registry's operation. This
  needs one more conjunct of the invariant, `Proposed`: a pending proposal is what its
  operation makes of its own snapshot, or the snapshot is outdated already (`sleep`
  selects from a later read).
- `LifecycleActiveAncestry`: the registry's safety, for the program.
- `LifecycleTypeCorrect`: the type invariant, a conjunct of the same invariant.
- `LifecycleForgetsNothing`, `LifecycleSleepLasts`: the action properties `NothingForgotten`
  and `AsleepUntilWoken`, read off the registry's operations, because every step of the
  program is one of them.

`UpdatePlansProofs` proves, for any graph, contexts, versions and number of plans:

- `OneHistoryHolds`, of the abstract history: no version is replaced twice, and only the
  current one is not replaced. The invariant `Linear` adds that what was replaced was published.
- `UpdatesImplementHistory`: `Spec => HistorySpec`, and with it `UpdatesHaveOneHistory`. A plan keeps the
  mode and the predecessor it froze (`PlansMove`), so what the receipts of global plans say changes only
  where `commit_update` moves the pointer (`OnlyPublicationMoves`). There the pointer still holds the
  frozen predecessor, or this very plan, whose publication is then a repetition. The invariant
  (`HInv`, with `Chain`) says that receipts are of global plans and that the pointer is
  the last of them; `ChainStands` and `ChainExtends` carry it.
- `UpdatesMatchTheirGraph`, `FlagsMatchTheirGraph`: what becomes visible and what is flagged is
  what the graph asks for at that instant. The fence compares counters and contexts, so
  this needs `UInv`: a plan that passes the fence was frozen from the graph as it now is.
- `UpdatesAncestorsRegistered`, `FlagsOnlyAdvance`: from `UInv`, no result is visible without those it
  was made of, and no flag goes back to an earlier session.
- `ReleasesKeepAncestry`, `UpdatesTypeCorrect`: a release is reviewed in one transaction and applied in another,
  so `RInv` remembers what the review guaranteed. What it selected is closed under consumers among the
  results of its inventory (`Reviewed`), and `ApplyRelease` compares that inventory with the present rows.
  `Reach` is the least closed set of results, so closure is all there is to prove.

`ArtifactStoreProofs` proves `ValuesPresent`, `ManifestsImmutable` and `FilesOutliveRows` for
any results, publishers, retirements and generations, with a crash inside any
transaction that moves or removes files. A publication looks at the disk inside its
transaction and a release looks at the available rows inside the transaction that unlinks,
so both are right by themselves. Cleanup removes what an earlier transaction saw
unnamed, and this is what the inductive invariant `Indexed /\ ReviewedOrphans /\
ValuesPresent` is for: a reviewed plan names no generation of the rows it was made from,
and cleanup compares those rows (`SameReceipts`) with the present ones before it removes
anything. `Becoming` and `RemovedUnnamed` carry the argument: whatever becomes available has
its partitions on disk in that step, and whatever is removed is named by nothing available.
`StoreTypeCorrect` needs that every name on disk has been handed out (`Handed`) and that two publications at
work never hold the same generation.

`HistoryProofs` has what the operators of the policies give. Of the window arithmetic, for any calendar, memberships,
lengths and blocks:
`NextOrigin`: a block ends right before the next begins, so none is stepped over, whatever the length of the
last. `StartSuffices`, `HaloSuffices`, `EarlierSuffices`: a kernel that starts reading where the block's
numerical start, or its halo, or anything before them says sees what it would see over the whole history.
`ProofGivesWholeHistory`: two sources that agree on what a block's proof covers give the block the same cells.
`PrefixAgrees`: so a partial prefix may be kept and continued.

Of the state that checkpoints retain, for any rows, windows and maturity. A column of a numerical table is cut after a session
into what is before it (`Upto`) and behind it (`Beyond`):

- A streak (`StreakContinues`). The columns of the rows before are those of all rows, cut. Behind the cut each column
  is shifted by what was saved of it: directions and gaps by the last row, runs by how many began before (`Starts`,
  `NumberedBeyond`). Only the run that crosses the cut needs more, and the saved count and trace are what it has gathered
  (`RunsBehind`, `MaxHorizontalJoins`).
- An exponential moment (`MomentsContinue`): what it has seen and how many of it were valid are those of both parts, and its trace
  is the latest of both.
- A rolling estimator (`TrainingContinues`): a fit behind the cut is computed from the rows themselves, and until there is one
  the restored model is the one that the last fit before the cut gave. Two sources that agree on what the proof
  covers agree on the samples of all earlier fits (`FitsAgree`).
- `ContinuationContinues` and `TrainingContinues` say this of the kernel as a whole: its cells behind the cut, and the state it leaves.

`ExecutionPoliciesProofs` uses both. For any number of finite executions side by side, interrupted, restated and
retired:

- `FiniteReusesHistory` (`FiniteHistoryIsReused`). The inductive invariant (`XInv`, per execution `Formed`,
  `Ordered` and `Reuses`) says that, until something is retired, what was proven at the start is still proven,
  that nothing of it is being computed, and that some of it lies ahead (`Ahead`) unless some was used already.
  Publications only add rows (`RegisterGrows`), so the executions beside it take nothing away.
- `FiniteBlocksHold` (`FiniteBlocksFollowProofs`) and `FiniteResultsHold` (`FiniteResultsAreWholeHistory`). The
  invariant `VInv` says of every row that it fits its key (`Fits`): its cells are those the key's proof gives,
  or, under a result's key, those of the whole history. Of every execution it says that what it has gathered is the
  whole history up to where it stands (`Continues`), that the prefix it extends is that of its block, and that
  a batch in memory was read from far enough (`Batched`). An execution takes what others registered only
  through a key made of its own source, and this is where `ProofGivesWholeHistory` is needed: the key may have
  been made from a source that differs elsewhere.

For checkpoints, periods, regions and maintenance, each over any source that grows and is restated:

- `CheckpointsContinueHistory` (`CheckpointHistoryIsContinued`). A state proves the rows it consumed and ends within them
  (`CheckpointRow`; a state that a moment leaves ends at the last row the asset has, `KernelCheckpoint`), and what is proven of a
  prefix is proven of every source with that prefix (`ProofOfPrefix`). So a readable state over the same rows was among the
  candidates when the execution started; `Chosen` says that it would choose the same now, because nothing but the
  execution itself publishes while it runs.
- `CheckpointsResume` (`CheckpointResumedIsWholeHistory`). The invariant `HInv` says of every result that its cells and its state
  are those of one execution over its whole source (`WholeResult`). A usable one proves its prefix of the *present* source,
  which may be another: equal proofs mean equal rows, or, for an estimator, labels that agree as far as they were
  consumed (`ProofAgrees`). So continuing it gives the whole history (`UsableContinues`). A state that is derived from legacy cells is the
  one that was not saved (`DerivedIsLeft`).
- `PeriodsHold` (`PeriodPredictionsAreOfTheirDay`). The invariant `PeriodInv` says of a complete result that its statistics are
  those of its own proofs and every session has the prediction known on its day (`PeriodResult`); of statistics, that every
  day they do not repair is held by the result they continue (`PeriodStatistics`, `Held`); of a delta, that it has the
  days that the statistics of its phase repair (`PeriodDelta`). An execution composes the two (`ToCompose`). What is neither in
  `Changes` nor in `Influences` was made of nothing that changed.
- `RegionsHold` (`RegionsAreWholeHistory`). The invariant `RegionInv` says what keys mean: a published row is what its key says
  (`RegionRows`), and every node of a certificate has what its key says, though no row of it exists (`Certificates`). While
  a plan runs (`RegionExecution`), its regions share no node and only their outputs are read outside (`Joined`), finished nodes have
  what they give now and their regions are sealed (`Done`), and so have the blocks so far (`Blocked`). A node of a region is resumed only when the
  certificate matches all that the region reads (`CertificateGives`), and what is missing of it is computed from there
  (`PartsGive`).
- `MaintenanceHolds` (`MaintainedIsComputed`). The invariant `MInv` says of every row that its cells are what its key means
  (`MRows`: a key names its policy and the content it was made from), and of every reviewed plan that it is of one of three kinds
  (`MPlans`): it names the content of the original under new evidence (`AliasPlan`), the same content up to the final session of
  an operation that accumulates nothing (`RepairPlan`), or every block of the original's content and then itself
  (`ContractPlan`). Each makes the old cells the new key's; for blocks this is `ProofGivesWholeHistory` again.

For the replay of versions, in `HistoryProofs`, over any nodes, histories, late versions, plans, interruptions and repetitions:

- `ReplaysAreOfTheirDay` (`OutputsAreOfTheirDay`). It has no hypothesis on the buffer: what is lost of it is part of the statement.
  - *Whole sessions or none.* Whatever is loaded, trimmed or skipped, the buffer holds, of every session, all that is known of it or
    nothing (`Slice`, in `Replaying`). A segment ends before the next late version becomes known, so at its cutoff every
    session it has looks as it did on each of its days (`SegmentEnds`), and its cells show of the sessions it has what was known on their
    day. A key proves a window as known at its last session and what the source learns later is known later, so this
    stays true of what is published. The invariant `CausalInv` says it of every row (`RowsHold`), that the blocks behind a plan
    are published (`Replaying`), and that parts waiting to be joined extend a published prefix (`Publishing`), which composes the result.
  - *All sessions*, with even or chained histories. `BufferInv` says that a replay's buffer, of the sessions that any node may still
    read for any later block, has what lies up to its end, and starts before them. A later block starts a whole block behind.
    With even histories it therefore never reaches behind what the present one was trimmed to. In a chain the node that reads furthest is
    the last one, and whenever its block is published those of all nodes before it are (`RowsNested`, in `CausalInv`), so a
    block that misses anything misses the furthest (`MissingReadsFar`). Both hold after a repetition that finds more
    prefixes (`BlockFillsBuffer`, `BlockFinds`, `BlockAcquires`).
  - With other histories the second part is false, and `causal_buffer` is the counterexample: histories of 2 and 0, and no chain.

`OperationReservesProofs` proves, for any entries, nesting, charges, priorities, bounds, lineage and number of threads:

- `ReservesBuildOnce` (`BuildsAreSingle`): only the innermost call of a worker looks, waits or has ended, and
  those below it build (`Stacked`), and there is an event for a key exactly while one call builds it
  (`Flights`). A step therefore changes who builds what at the top of one stack.
- `AccountsAreExact` (`ReservesAreExact`): the account of each reserve is the sum of the charges of what it holds, and
  within its bound. That no entry is held twice is not local. It needs `Pending`: a key that is being built
  is not cached, because whoever started it found nothing and others wait. Eviction stops in time because the
  sum is what it is (`EvictedFrees`).
- `FreshChecksBorrowNothing` (`FreshChecksHold`): scopes of closing verifications are apart from each other and
  from the shared one (`ScopesApart`), so what a frame found in its scope was accepted by the same walk, and
  its ancestors with it (`ChecksSound`).
- `ReservesKeepEvidence` (`EvidenceStays`): `first_at_most` gives an entry of the lowest priority first, so a step that
  flushes a proof flushed all plain values before it.

`ExecutionRuntimeProofs` proves, for any graph, operators, memory, number of workers and failures:

- `EvidenceIsPublished` (`PublishedWithItsEvidence`), `PendingStaysBounded` (`PendingIsBounded`) and `PublishedIsRead`
  (`NothingPublishedIsRecollected`), all from `RunInv`, which has one part for what is published, what
  awaits publication, what is planned, what is kept for its next use, what was deferred and what is
  scheduled.
- No node collected again is what needs most. A plan carries its `lineage`, the nodes that collecting it
  would compute, and with a store all of them await publication (`Computes`). A publication empties
  the list, so every plan that is still held must be replaced or dropped in the same step: what is planned is
  replaced (`PublishKeeps`), the caches are dropped, and work that was deferred is only *kept*: its plans may name what
  was published meanwhile (`Kept`), and become good again when a batch refreshes them (`RefreshedFacts`).
- Planning a node from good plans gives a good plan, as an expression over its prepared parents (`GeneralFacts`) or in
  whichever form without a grid (`LoweredFacts`), and carries the traces of any parent (`ParentsCarry`). Nodes of one physical
  identity share a record, so they must have traces alike: `TwinsHaveTraces`.
- That every node has evidence or a record at the end needs that none is forgotten (`Scheduled`): a node whose
  parents are planned is ready, deferred, or in the batch. When nothing is left to do and a node is not planned, the least
  such node has planned parents, so it would be one of them.

- `HistoryIsEnough` (`HistorySuffices`): a node whose history is proven to be bounded gives what the whole history gives, at every
  row that lies its history behind the first one that is read. `History` and `Denotes` are recursive functions over nodes;
  each is unfolded at the least node where the claim would fail. What a kernel gives at a row depends on the rows of
  its window (`PrecedingAgree`, `SessionsAgree`, `LabelledAgree`), so two frames that agree on that window give the same
  (`NodeAgrees`), and the windows along a path add up to no more than `History`.

The theorems but the last have the hypothesis `~ ReuseRuntime`, the value of the run: each attempt has a runtime of its own. Without
it a retry starts with the plans of the failed run (see the findings), and what they compute need not await publication.

The proofs of the graph use `ParentsAssumption` and `MaxChangesAssumption`; those of update plans also that
`None` is no plan, that versions end at sessions, that bounds are numbers, and what the first graph is
(`NoneAssumption`, `CalendarAssumption`, `BoundsAssumption`, `StartAssumption`, `ScopesAssumption`); those of finite
blocks what a Domain, its lengths and the operations are (`ScopesAssumption`, `OperationsAssumption`,
`BoundsAssumption`), and those of the other policies that lengths, windows, delays and maturities are numbers of sessions
(positive where the code refuses others), that cells of a checkpoint are numbers or null, and that graphs of regions
and nodes of a replay list parents before their children (`MaintenanceScopesAssumption`, `PeriodScopesAssumption`,
`RegionScopesAssumption`, `CheckpointScopesAssumption`, `CausalScopesAssumption`); those of the reserves what an entry is, that builds nest in other keys, that lineage is
well-founded, and that charges and bounds are numbers (`EntriesAssumption`, `NestingAssumption`,
`SourcesAssumption`, `ChargesAssumption`, `BoundsAssumption`); those of the store only that its bounds are numbers; those
of the runtime that a graph lists nodes after their parents, that inputs are the nodes without, and the
arity of the operators that plans are made for (`ScenariosAssumption`), and that graphs use the operators that
are modelled (`OperatorsAssumption`). TLC
evaluates the assumptions of every module on every run.

Induction. The library's induction theorems take an operator and cannot be used, but a set of naturals has a least
element by `WFMin`, and that is enough where an invariant is about numbers: `LeastNatural` gives greatest sessions and
earliest observations, `LeastNat` the sums of charges. For graphs `LeastNumber` gives the first node
for which something fails: so the recursive `PhysicalIdentity` exists, and twins agree on their traces. Sums are defined over
finite sets (`TotalCharge`, `Weight`) and closures as least closed sets (`Reach`), not recursively.

Model-checked only: what plans mean, that is, `SparseMeansDense`, `ClaimsHold` and `TracesCoverInputs` of
the execution runtime, and its type invariant, whose meaning is that of the plans: it would have to be shown of every
kernel. These do not hold for every graph (`lost_defaults`, and the null labels named below), and the run shows them on graphs that leave
the cases out. `OutputsArePointInTime` does not hold for every scope either (`causal_buffer`); `OutputsAreOfTheirDay`, which is
proved, states it of the histories for which it holds, and of all others what remains. Liveness (`DrivenPlansEnd`, `CallsReturn`) is out of the prover's reach.

## Findings

- `retired_completion`. `complete_node` (`store.py:2052`) requires a row and does not ask
  whether it is retired. A release between a worker's publication and its completion
  leaves a flag naming a retired result, though "Retired results leave
  lookup/candidate/completion inventories"
  (`docs/en/engineering/graph-runtime.md:504-505`). A later plan takes the node for done and
  cannot load or publish it.
- `domain_files`. `publish` chooses the Domain files of a registered row before its
  transaction; inside it checks that artifact and partition files exist
  (`store.py:816-817`), not Domain files. A release in between registers a row without its
  calendar and membership, though "Reusable Domain files are fenced again inside the
  publication writer transaction" (`docs/en/architecture.md:191-192`). They are fenced by
  content, not by path.
- `session_memo`. A content identity covers no paths, and a result that is retired,
  recomputed as a composition, retired and recomputed afresh has its first content
  identity with new paths. A session open all the while returns its first manifest,
  though "revival cannot return deleted paths"
  (`docs/en/engineering/graph-runtime.md:517-519`).
- `lost_defaults`. `_lower_scalar_arithmetic` (`execution.py:1393`) makes the plan of `x + constant(y, c)`
  from the rows of `x` and keeps no default, so where `x` is filled but has no row the sum is missing,
  though "Replace every active-domain cell, including a missing value, with the
  configured constant" (`docs/en/reference/operators/constant.md:3`) gives both operands a value.
  The graphs of `execution` avoid it (`KeepsDefaults`).
- `causal_buffer`. `_acquire` loads what a halo needs from before the buffer (`causal.py:310-311`), but `loaded_from` is only
  ever raised (`causal.py:320`), and the buffer is filtered to it (`causal.py:321`) before the block is taken from it: what
  was just loaded is lost. Nodes 1 and 2 read two sessions back and none. After a global update through 5 and
  a branch update of node 1 through 6, a global update through 7 first misses only the end of node 2's second block,
  and the buffer starts at session 6; then the third block of node 1 needs session 5, loads it and
  loses it. The block is published under a key that proves the missing session, though "Earlier
  observations newly visible on a later day affect that day's trailing calculations"
  (`causal.py:5-6`). The other end has a second way to the same result: the buffer is extended from the day
  behind what is loaded or from the halo's start, whichever is later (`causal.py:313`), so a short halo followed by a long one leaves a gap,
  and `loaded_from` still says that the buffer reaches back behind it. It needs a version discovered late
  between two plans, and is reached by `MCMixed` in `policies`.

Read in the code while modelling, and without a run, because the models leave the case out:

- the group operators drop rows with a null label (`cross_sectional.py:20-29`), while their plan keeps the
  claims of an exact domain and of its parents' keys (`execution.py:2125-2168`);
- the traces of pairs and regressions expect a trace column of both parents;
- a runtime that is used again after a failed run keeps its plans (`materialization.py:71`), with
  the `ReuseRuntime` of the model, which is FALSE in the run;
- `lag` keeps its parent's default for the sessions that have no predecessor;
- an audit (`verify_identity`, `store.py:1605-1626`) takes the first certificate of a block whose nodes include
  the seal's. A block may carry several, when an implementation of a transient node
  changes and its output does not, and the audit then compares the seal with the wrong one.

## Not modelled

Numerical kernels, estimators and optimisers compute floating-point values over
frames: there is no control to check and TLC has no such data; what they read and in which
order they are continued is in the modules above. Parsing, formatting,
documentation generators and inspection only read. SQLite is taken at its word:
writer transactions are serial and atomic, readers see one committed snapshot. Files are
immutable once named; a damaged file is not modelled. Dynamic Domains, whose members are
computed by the graph, are left out of `SparsePlans`; the policies have memberships that change by session. The
machine-learning studies run over published panels and keep nothing.

## Plan

Done, the most important first: `GraphRegistry` and `GraphLifecycle` (proved); `VersionHistory` and
`UpdatePlans` (proved); `ArtifactStore` (proved) and `ReadSessions`;
the five policies and their maintenance (proved); `SparsePlans` and
`ExecutionRuntime` (its order, its publications and its histories proved); the reserves (proved).

Left:

1. `LogicalGraphs`: `normalized`, `union`, `downstream`, `canonicalize_graph` as functions
   against closures, one run over all bounded inputs; lemmas about the union.
2. Maintenance of regions and of several nodes at once; the audit of a store
   (`artifact_verification.py`) against regions whose implementation changed.
3. Masks and dynamic Domains in `SparsePlans`; two causal sources.
4. Proofs: that the claims of a plan hold, kernel by kernel, for graphs that leave the findings out.
