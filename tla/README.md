# A verification project for connector-supabase

The connector brings a self-hosted Supabase target (one PostgreSQL database and its PostgREST
settings) to the level that henosis core asks for. It is *level triggered*: core sends complete
desired slices, and the controller plans against current truth, applies at most one operation of a
plan per pass, and plans again. These modules model the controller, the planner, the two stores it
shares with other connectors (the operation journal and the database), the files it keeps on its own
disk, and the boundary where requests become slices. TLC checks them on small instances. TLAPS proves
every invariant and action property that a passing run checks, and both refinements, for every
instance; where a theorem needs a hypothesis on the instance, section 4 names it and says why.

Source paths are relative to the repository; `reconciler.rs`, `plan.rs`, ... stand for
`crates/reconciler/src/reconciler.rs` and so on. `PROJECT.json` maps every definition to its lines.

## 1. Inventory

| Part | State | Operations | Modelled in |
| --- | --- | --- | --- |
| Controller (`reconciler.rs`) | checkpoints on disk (level, plan path, undelivered report, retired), desired slices in memory, a lock per graph, one target lock, spawned tasks | `accept`, `resume`, `retire`, `reconcile_once`, `publish`, `deliver_pending_report`, `schedule`, `save` | `Reconciler`; its files in `StateDirectory` |
| Planner (`plan.rs`) | none | `validate_desired`, `build_plan` | `Planner`; its repetition in `Convergence` |
| Target adapter (`target.rs`) | the database | `observe`, `operation_satisfied`, `apply`/`execute` | `Target`; transactions whole in `Reconciler`, call by call in `Connectors` |
| Operation journal (`journal.rs`) | an S2 stream of events | `load` (`check_tail`, reads, fold), `append` (compare-and-append) | `OperationJournal`; calls whole in `Reconciler`, one by one in `Connectors` |
| Checkpoints and review artifacts (`reconciler.rs`, `review.rs`) | checkpoint, plan, JSON and Markdown files | `save`, `load`, `persist`, `load` of a plan: write, rename, sync | `StateDirectory` |
| Slice acceptance (`slice.rs`) | none | `from_view`, `parse_component`, `desired_digest` | `SliceAcceptance` |
| Component context (`context.rs`) | none | boundary checks, `plan_issues` | `SliceAcceptance` (boundary), `PlanIssues` of `Planner` |
| Connector service (`lib.rs`) | none | `ReconcileSlice`, `RetireSlice` | `Receive`, `Retire` of `StateDirectory`; `CoreSends`, `RetireBegin` of `Reconciler` |
| Core callback client (`reconciler.rs`) | none | `ReportSlice`, `FetchSlice` | `ReportAcknowledged`, `ReportLost`, `ResumeGraph`, `ResumeFails` |
| Server (`services/server/src/main.rs`) | none | resume, then listen | `Boot`, `Serve` |
| Telemetry, workspace-hack, build files | none | none | not modelled |

**How the parts interact.** `ReconcileSlice` saves a checkpoint and spawns a pass. A pass takes its
graph's lock, loads the checkpoint and, unless an old report has to be delivered first, takes its
turn at the FIFO target lock. Under it the pass folds the journal, refuses the level, or works on
the retained plan (fence, started receipt, transaction, terminal receipt), or observes and plans
(artifacts, `PlanCreated`). Each outcome ends in `publish`: save the checkpoint with the report, send
the report, and on acknowledgement save the checkpoint without it. Most outcomes spawn another pass.
`RetireSlice` takes both locks, appends `GraphReleased` and saves the retired checkpoint. After a
restart, `resume` asks core for the slice of every checkpoint that is not retired, delivers the
pending reports and spawns a pass for each graph, before the listener opens. The stream and the
database may have other users, another connector or this one's own calls from before a crash; the
state directory has none.

**What is hard.** Every `await` is a point where other graphs' passes run and where the process may
end: between a commit and its receipt, a receipt and its checkpoint, a report and the checkpoint
without it. Every call can fail after having taken effect, and an append or a commit can take effect
long after the process that sent it has died. Four stores (checkpoint, journal, database, core's
memory of reports) are written one after another and never together, and the checks that keep them
consistent (sequence, plan identity, journal fence, target digest, ownership) each look at two of
them. A rename is seen at once and durable later. `PROJECT.json` lists these hazards at their lines.

**What makes each part correct.**
- Controller: a pass works on the retained level (`PassHasItsLevel`); nothing is applied twice
  (`NeverReapplies`) and only what is first outstanding at that moment (`AppliesFirstOutstanding`,
  `ImplementsConvergence`); success receipts and ready reports are true (`ReceiptsAreTrue`,
  `ReadyIsBacked`); work is never forgotten (`NoLostPass`) and comes to an end (`LevelsSettle`,
  `LocksAreReleased`); one owner (`ExclusiveOwner`), none after retirement (`RetiredOwnsNothing`).
- Planner with target adapter: whatever the database looks like, the proposed operation is
  executable (`NextIsExecutable`), the owner's transitions come in order and before exposure
  (`ReceiptOrder`), and repeating the first operation ends (`LevelsConverge`).
- Journal and database between connectors: a record extends what its writer has read
  (`ExtendsWhatItSaw`), so the fence means what the controller takes it to mean (`FenceIsTheTail`)
  and there is one owner (`ExclusiveOwner`); no migration commits on another ledger than it was
  planned from (`MigrationsAreFresh`), success receipts are true (`SucceededIsTrue`), and all
  connectors together still are the one loop (`ImplementsConvergence`).
- Files: a checkpoint is never separated from its plan (`PlansAreKept`), an answer is never taken
  back (`SavedAnswersHold`), and levels only move forward (`KeptMovesForward`).
- Acceptance: what gets into memory is what the planner takes for granted (`DesiredIsValid`).

## 2. Modules

- `Planner`: slices, contexts, operations; `DesiredIsRefused` is `validate_desired`, `Outstanding`
  and `PlanIsRefused` are `build_plan`. The vector of planned operations becomes a set of steps with
  ranks, and `First` is the operation a pass applies. Digests are injective, so a digest is the
  record it hashes; an operation id is the operation with its desired digest.
- `Target`: the observable database, `Observe`, `OperationSatisfied`, `Execute`, and what PostgreSQL
  itself refuses (`CanExecute`). `open` holds the schemas whose USAGE is granted to PUBLIC.
- `OperationJournal`: events and their fold. Instead of a numeric tail the snapshot keeps `fence`,
  the plan whose `PlanCreated` is the last record; that this is the same comparison is
  `FenceIsTheTail` of `Connectors`, checked and proved.
- `Reconciler`: the controller, one action per await. `pc[g]` is where the activity that holds
  graph g's lock stands, `work[g]` its locals, `queue` the target lock (holder first), `tasks` the
  spawned passes. `Faults` selects the failures an instance allows: a process crash, S2 failures
  with or without effect, an unreachable database with or without the commit, database errors,
  lost reports, core refusing a slice, failing saves before or after the rename, a drifting target,
  retirement. A journal or database call is one step here, and nothing else writes the journal.
- `Connectors`: the same passes seen from the two shared stores, several connector processes with no
  lock between them. `at[p]` is the tail a pass has checked, `seen[p]` what it has folded, and the
  two are separate calls; `flying` holds appends whose pass gave up, which may still land while the
  tail they expect lasts; `sessions` holds the transactions that asked for the advisory lock, each
  with the snapshot it took when it asked. PostgreSQL is modelled from its documentation of
  serializable isolation: a transaction that writes the ledger on a snapshot whose ledger has moved
  is aborted, and catalog reads follow the latest commit. A database error may also come for reasons
  outside the model, from the check, the operation, `COMMIT`, or the observation after it: the code
  takes each for a refusal. Reports, checkpoint saves, retirement and
  newer levels are left to `Reconciler`.
- `Convergence`: the abstract specification. It has bindings, the database and the accepted levels
  only; one step applies the first outstanding operation. `Reconciler!Promise` instantiates it with
  the journal's bindings, the database, and the levels of live checkpoints; `Connectors!Promise`
  with the stream's bindings, the committed database, and the levels the connectors were given.
- `SliceAcceptance`: `from_view` with the loops over components and outputs as folds, and
  `desired_digest`. JSON comes in spellings of a value, hashes are injective.
- `StateDirectory`: extends it with the files. `seen` is what a reader finds, `kept` what a loss of
  power leaves; `Rename` changes the first, `Sync` the second, for a whole directory. `accept`,
  `retire`, `resume`, proposing and using a plan, publishing and delivering a report are actions
  around these two. The journal and the target are not there: a pass proposes, uses its plan or
  reports something else, whatever they say.
- `MCReconciler`, `MCConvergence`, `MCConnectors`, `MCStateDirectory`: contents, levels, requests and
  starting databases for TLC.
- `PlannerProofs` (about `Planner`, `Target` and `OperationJournal`), `ConvergenceProofs`,
  `ConnectorsProofs`, `StateDirectoryProofs`: the theorems about these modules. Those about
  `Reconciler` come in four modules, each extending the one before: `ReconcilerProofs` (types, levels,
  locks and ownership), `ReconcilerPlanProofs` (plans and receipts), `ReconcilerReportProofs` (reports
  and passes), `ReconcilerPromiseProofs` (the refinement).

Operators marked "Faulty variant" in the modules are plausible slips of the definition that follows
them. They are used by nothing; putting one in the definition's place must make a property fail,
and `PROJECT.json` says which one.

## 3. Runs

| Run | States | Checks | What it shows |
| --- | --- | --- | --- |
| `core_safety` | 539k | `TypeOK`, `PassHasItsLevel`, `NeverReapplies`, `ReadyIsBacked`, `ReceiptsAreTrue` | one graph, level *pair* (two components) superseded by *grown* (a second migration with an upstream input, one component less), all failures except drift and retirement |
| `refinement` | 180k | `AppliesFirstOutstanding`, `ImplementsConvergence` | one component with a migration and an exposed API; crashes, S2 and database failures, drift |
| `two_graphs` | 123k | `ExclusiveOwner`, `RetiredOwnsNothing`, `PassHasItsLevel`, `LocksAreReleased` | two graphs that want the target, one with a schema to create, with crashes and retirement: one owner, no wake-up lost, no lock kept on any path, and a pass that starts while the other graph is still being resumed has its level |
| `settles` | 50k | `NoLostPass`, `LevelsSettle` | three levels in a row: one converges, one lacks a required input, one edits an applied migration; crashes and lost reports |
| `from_any_target` | 6k | `NextIsExecutable`, `ReceiptOrder`, `LevelsConverge` | `Convergence` alone, from every database the instance can tell apart |
| `connectors` | 279k | `TypeOK`, `FenceIsTheTail`, `ExclusiveOwner`, `MigrationsAreFresh`, `ExtendsWhatItSaw`, `SucceededIsTrue`, `ImplementsConvergence` | two connectors, of one graph or of rivals, whose passes may be abandoned anywhere, whose appends and commits may come late, and whose transactions may get a database error before, at and after their commit |
| `state_directory` | 242k | `TypeOK`, `PlansAreKept`, `SavedAnswersHold`, `DesiredIsValid`, `KeptMovesForward` | two levels of a graph with two plans, repeated, late, conflicting and malformed requests, crashes, failed writes, losses of power, retirement |

Five runs each refute one statement of the documentation, the comments or the messages:

| Run | Statement | What happens |
| --- | --- | --- |
| `retry_promise` | "The connector will retry from current target truth." (reconciler.rs:596) | the retry's first observation fails, the error is dropped at reconciler.rs:768, nothing is scheduled |
| `contention` | one exclusive owner, the second graph gets `target-owned` (docs/component-context-v1.md:72) | two binding graphs make each other's plan stale for ever |
| `failed_receipt` | "The target rejected the operation with canonical evidence." (journal.rs:98) | the commit succeeded and the observation after it failed |
| `stale_snapshot` | "a serializable, locked freshness check" (target.rs:188) | the snapshot is as old as the wait for the advisory lock: a retry commits against a database that its plan did not observe |
| `durable_accept` | "Durably accept a complete desired level" (reconciler.rs:222) | the sync after the rename failed; the repeated request is answered from a file that no sync covers |

`MigrationsAreFresh` next to `stale_snapshot` says how far the stale check reaches: the operations
that run twice are idempotent, and the one that is not, a migration, is stopped by serializable
isolation (and then reported as failed although it took effect).

Three more divergences were met and have no run of their own. A plan that is stale because of its own
success receipt is reported with "No target mutation was attempted." (reconciler.rs:439) although it
had been applied. Between `GraphReleased` and the retired checkpoint (reconciler.rs:336-349) a crash
leaves a live checkpoint whose plan is then applied without a binding. And where a schema of the
level already grants USAGE to PUBLIC, `has_schema_privilege` (target.rs:309) keeps answering yes
after a REVOKE, so a success receipt for `ConfigureApi` is not true and the operation is planned
again; the instances of `core_safety` and `from_any_target` start without such grants.

`ReceiptOrder` speaks of the level whose graph owns the target: graphs whose levels name the same
schemas and migrations share their receipts, and one that is refused the target would see another
graph's migrations arrive in the other's order.

**Bounds.** `Slices` bounds what core sends: one to three levels per graph, with growing sequences
and generations. Requests for the retained level may be repeated without bound. `PlanIds` is the pool
of plan identities: in `Reconciler` a new plan takes one that no checkpoint, activity, receipt or
fence refers to, as a new digest would be, so eight are enough for any length of run (TLC would
report an empty choice). `MaxTasks` saturates the count of spawned passes of one graph and sequence:
passes beyond it are indistinguishable, and saturation keeps at least one as long as there is one;
one or two are counted. `MaxTail` ends the stream of `Connectors` after seven records: a
binding and a migration take five (`PlanCreated` and `BindingEstablished`, then `PlanCreated`,
`Started`, `Succeeded`), so there is room for rivals, stale plans and late records between them; at the
end passes can still be abandoned, so nothing deadlocks. `MaxSessions` allows two open transactions,
enough for one to commit while another waits with an older snapshot. `Requests` holds each level of
`StateDirectory` in two spellings, its successor, a conflicting level and one request per kind of
refusal; `PlanIds` holds one plan per level there. No failure is limited in number.

**Symmetry and views.** In `View` (runs of `MCReconciler`), plan identities are named by the graph
that holds them. No action compares identities otherwise, and every action, fairness condition and
property treats states with one view alike, so the view is a bisimulation: also in `two_graphs`,
where it is used with a liveness property. Symmetry (in `connectors` the two connectors, and the two
graphs together with their levels and resources; in `state_directory` the two plans) is used with
safety properties only.

The runs of `MCReconciler` with one graph let `resume` fail where core refuses a slice or a save fails.
To two graphs such a failure is a crash while one of them is still to be resumed (`ResumeFails` has
the effect of `ProcessCrashes`), which `two_graphs` takes at every moment.

**Deadlock** is checked except in `from_any_target`, where the loop really stops once the level has
converged. In the controller, core may always repeat a request.

**Fairness.** `FairSpec` is used for the liveness properties only. Weak fairness of a graph's tasks,
passes and retirements: the tokio runtime polls every ready task, and the target lock is FIFO
(`tokio::sync::Mutex`), which is why `queue` is a sequence. Weak fairness of boot, resume and serve:
a supervisor restarts the process. Strong fairness of acknowledged reports: core, asked again and
again, answers some time; the controller has no timeout of its own there. Nothing is assumed about
crashes, so `LevelsSettle` says "once the process stops crashing". In `from_any_target` weak fairness
of `Bind` and `Advance` stands for passes that keep being scheduled.

## 4. Proofs

`tlapm` checks every theorem without assumptions beyond the named ASSUMEs of the modules, which TLC
evaluates in the runs: contents are valid slices whose contexts and migrations are sequences,
constants have their types, and `None` is none of the values it is compared with. A hypothesis that
only some instances meet is part of its theorem:

| Theorem | Hypothesis | Without it |
| --- | --- | --- |
| `AppliesFirstCorrect`, `ConvergenceImplemented` | core retires no graph | fails: after a crash between `GraphReleased` and the retired checkpoint (reconciler.rs:336-349) the live checkpoint's plan is applied without a binding; TLC shows it |
| `ReadyIsBackedCorrect` | no drift, no retirement; levels have components | fails: drift and release undo what core was told; for empty levels see below |
| `ReceiptsAreTrueCorrect` | no drift; no schema open to PUBLIC at first | fails: the receipt is not appended in the transaction; `has_schema_privilege` (target.rs:309) answers for PUBLIC |
| `SucceededCorrect` | levels have components; no schema open to PUBLIC at first | fails, likewise |
| `TogetherTheyConverge` | levels have components | fails, see below |
| `NoLostPassCorrect` | journal, target connection, database observations and state directory do not fail | fails: such an error ends the task and is dropped at reconciler.rs:768 (`retry_promise`) |
| `ConvergenceImplemented` | a target without the connector's schema has no receipts | true of every database: receipts are rows of that schema |
| `ReceiptOrderCorrect` | levels have components | needed by the argument (the bound owner is the only one that advances) |

`LevelsHaveComponents` excludes levels that `from_view` accepts (slice.rs:131 loops over no
component). Such a level wants no binding, so its one operation, `ConfigureApi`, is applied by a graph
that owns nothing. With a level of this kind beside another graph's, TLC refutes `ReadyIsBacked`,
`SucceededIsTrue` and the refinement of `Connectors`. The runs have no such level.

Planner and target (`PlannerProofs`), for every slice, journal and database:
- `FirstIsUnsatisfied`: the first operation of a plan has a postcondition that the observation it was
  planned from does not satisfy.
- The lemmas the other modules use: what a first operation looks like (`OutstandingShapes`), that
  executing it brings its postcondition about (`ExecuteSatisfies`) and undoes none that held
  (`ExecuteKeepsSatisfied`), that the target only gains schemas and receipts of the level
  (`OnlyAdvanced`), and that migrations of a context are distinct (`MigrationsAreDistinct`). The last
  is an induction, over ids that grow along a sequence (`IdsIncrease`). The library's induction rules
  take an operator as a parameter, so it is done with least elements: `LeastNatural` follows from the
  well-foundedness of the naturals and needs none.

Controller (`ReconcilerProofs`):
- `TypeCorrect`: `TypeOK`. It is not inductive by itself: a step reads the plan or the report of its
  activity. `TInv` adds `ActivityOK` (which label has a checkpoint, a level, a plan, a report at
  hand) and `ProcessOK` (nothing runs while the process is down).
- `LevelCorrect`: `PassHasItsLevel`. `LInv` is `TInv` with `LevelOK`: a retained or held plan is of
  the retained level and has an operation that its observation does not satisfy, a running pass has
  the retained level in memory, and scheduled sequences are not newer than the retained one. That
  last conjunct is what an interrupted `accept` (renamed, not acknowledged) needs.
- `NeverReappliesCorrect`: `NeverReapplies`, from `LInv` and `FirstIsUnsatisfied`: when the
  transaction's observation equals the plan's, what the plan lacked is still lacking.
- `OwnerCorrect`, `RetirementCorrect`: `ExclusiveOwner` and `RetiredOwnsNothing` for any number of
  graphs. `OInv` is `LInv` with `OwnerOK`: past the lock's entry an activity is the holder of the
  target lock, a pass that has passed the ownership check sees only its own graph's bindings, and a
  retired checkpoint, or one about to be saved as retired, has none. `LockStep` states how a step
  of one graph moves through the lock, `BindingsGrowOnlyAtBind` where bindings come from.

Its plans (`ReconcilerPlanProofs`). `MInv` is `OInv` with: every plan that a checkpoint or a pass
holds was made by `build_plan` from some bindings and what it observed, and the pass works on the
checkpoint's plan or on the only one.
- `AppliesFirstCorrect`: `AppliesFirstOutstanding`. `CInv` adds, of every held plan, that its operation
  is still first for the current bindings and the plan's own observation, or is a binding that is
  already there, or another graph has come to own the target. Freshness (the observation in the
  transaction equals the plan's) turns "the plan's own observation" into the target of that moment.
  `Effects` lists what a step can do to bindings and target.
- `ReceiptsAreTrueCorrect`: `ReceiptsAreTrue`. `EInv` says that whoever is about to append a success
  receipt has the effect before it; it holds the target lock from the commit to the receipt, so no
  other graph undoes it.

Its reports (`ReconcilerReportProofs`):
- `NoLostPassCorrect`: `NoLostPass`. `PInv` is `LInv` with `PassesOK`: what is published without another
  pass to follow is a final report and no plan, what is delivered is what was saved, and a level with
  no task, pass or resumption is settled.
- `ReadyIsBackedCorrect`: `ReadyIsBacked`. `RInv` is `CInv` with: where "ready" was told, or waits in the
  checkpoint or in a pass, the level has converged and the graph holds all bindings there are. So no
  other graph gets past the ownership check, and this one has nothing outstanding (`BackedIsStable`).

Its refinement (`ReconcilerPromiseProofs`):
- `ConvergenceImplemented`: `ImplementsConvergence`, initial states and every step, with every other
  fault allowed, drift included. A commit is `Advance` by `CInv`. A binding is `Bind` because the
  level is not refused at that moment: `VInv` adds that a plan for a binding was accepted on the ledger
  as it still is, since nothing commits before its binding is there or another graph's is.

Convergence (`ConvergenceProofs`):
- `ExecutableCorrect`: `NextIsExecutable` for every database. A migration is first only when no step of
  an earlier phase is outstanding, so its ledger exists and lacks it; the API is first only when every
  schema exists.
- `ReceiptOrderCorrect`: `ReceiptOrder`. `LevelInv` types levels and target. A step that advances is of
  the graph that owns the bindings (`OnlyTheOwnerAdvances`); ranks grow along the migrations of a
  context and the API has the last one, so what is first has nothing outstanding before it.

Connectors (`ConnectorsProofs`), for any number of connectors and a stream of any length:
- `TypeCorrect`: `TInv` adds what a label has at hand and that an open session with a client is the
  one session that this client waits for.
- `FenceCorrect`, `ExtendsCorrect`: `SInv` says that a pass that has folded the stream and whose
  checked tail still is the tail has folded exactly its records, although reads came later than the
  check; that plans are bound to tails no later than the stream's; and that a plan whose creation is
  still in flight is bound to the next tail.
- `OwnerCorrect`: `OInv` adds that a pass between its ownership check and its record has folded
  bindings of its own graph only, so by `SInv` its record can land only where there are no others.
- `MigrationsCorrect`: `MInv` adds that only the first session commits, so nothing commits between
  its check and its own commit; the check passes only on the ledger of its plan.
- `TogetherTheyConverge`: `ImplementsConvergence`. `WInv` joins `OInv` and `MInv` with what plans, late
  records and sessions may still rely on: a plan to bind is still first, already done or excluded; a
  plan to apply is of the one level that has all its bindings; a session's snapshot and the
  target differ only by operations of that level, each done in its turn (`OnlyAdvanced`); and what is
  committing is the next operation or changes nothing. Every step is one of three kinds
  (`StepEffects`): it leaves alone what plans rely on (`Quiet`), lands a binding (`Claims`), or commits
  a session (`Commits`), and each conjunct is kept once per kind. Here an execution on a stale
  snapshot, which `stale_snapshot` shows to happen, is seen to be harmless.
- `SucceededCorrect`: `SucceededIsTrue`. `XInv` adds that a session applies the plan its client retains
  and that a pass about to receipt has the effect before it.

Files (`StateDirectoryProofs`), for any number of graphs, requests and plans:
- `TypeCorrect`, `PlansKeptCorrect`, `AnswersHold`, `KeptForward`: `TypeOK`, `PlansAreKept`,
  `SavedAnswersHold`, `KeptMovesForward`, all from one invariant, `Inv`. Its parts: `FilesOK` (the
  checkpoint a reader sees and the one a loss of power leaves are backed by synced plans, and the
  first follows the second), `AnswerOK` (the answered level is followed by what is synced),
  `DesiredOK` (the level in memory is not newer than the retained one), `WorkOK` (the file
  being written, and what is still to write: `SaveOK` for a checkpoint, `ProposeOK` for a plan, where
  each file is synced or still to do), `Distinct` (no two activities write one plan). A step moves
  only what its activity owns: `MemoryStep` and `DiskStep` carry the other graphs, and `StoredGrows`
  says that a synced plan is never changed again, not even by a loss of power.
- `ComponentsAccepted`: the component loop of `from_view`, for any number of components. The fold is
  unrolled into its intermediate results (`Loop`, `LoopSteps`), and `Carries` says of each what it holds
  of the components before it; again the induction is by `LeastNatural`.
- `DesiredCorrect`: `DesiredIsValid`, from `ComponentsAccepted` and `DesiredOK`.

Each invariant is proved one action at a time, over the disjuncts of `Next`, with a lemma for the
effects that several actions share (`FinishKeeps`, `PublishKeeps`, `SaveStep`, `EndStep`).

Only model-checked: the liveness properties `LocksAreReleased`, `LevelsSettle` and `LevelsConverge`
(fairness and ENABLED are beyond the prover), and what violation runs show. The instances of the
passing runs satisfy the hypotheses of the theorems about the properties they check.

**Assumptions of the models.** Digests and hashes are injective. S2's compare-and-append is atomic.
PostgreSQL's serializable isolation aborts a transaction that writes the ledger on a snapshot whose
ledger has moved. A rename is atomic for readers; each name whose directory was not synced comes back
old or new after a loss of power, and a directory is durable with its first synced entry
(`create_dir_all` itself syncs nothing, review.rs:83).

## 5. Not modelled

Time (delays are only the order they allow), SQL texts and tables, the one-migration content checks
(a Boolean), protobuf decoding and error codes, review rendering and redaction, telemetry, the
numeric tail's width, single S2 session errors, the secret file, cancellation of an RPC while it is
being handled, graceful shutdown, and files damaged on disk. `Connectors` has no retirement and
one level per graph; `StateDirectory` has neither journal nor target. Hazards without a property say
in `PROJECT.json` why: mostly that no statement of the repository says which outcome is meant.

## 6. Plan

Done, in this order: `Planner`, `Target`, `OperationJournal`, `Reconciler` with its runs;
`Convergence` and the refinement; `TInv`, `LInv`, `OInv` and their theorems; `Connectors` (journal
clients and target transactions) with its refinement; `SliceAcceptance` and `StateDirectory`;
`ConvergenceProofs`, `ConnectorsProofs`, `StateDirectoryProofs`; the plan, report and refinement
proofs of `Reconciler`, the receipts and the refinement of `Connectors`, `ReceiptOrder`, and the
component loop of `from_view`.

Left, most important first:

1. Retirement in `AppliesFirstOutstanding` and in the refinement: both should hold where the retired
   checkpoint always gets saved once `GraphReleased` is in the stream (no crash, no late append, no
   failed save between them), and a weaker promise, with a release as a step of its own, in general.
2. The safety half of convergence: in `Convergence`, an operation that was executed never comes first
   again while nobody else changes the target. `LevelsConverge` rests on it.
3. The whole of `from_view`: the output loop like the component loop, and that it refuses nothing else.
4. Retirement and newer levels in `Connectors`: what a commit left behind by a released owner does to
   the next one.
5. Cancellation of an RPC between its awaits.
