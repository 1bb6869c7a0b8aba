# TLA+ verification of briskdb

briskdb spreads the rows of a table over shards, each one SQLite file, beside a manifest
and, where a table has *global indexes*, an authority file
(`global-indexes/global.sqlite`). Several processes of one host may open the same root.
Nothing spans two files atomically and every process may die at any moment; this
directory models the five places where the program lives with that:

* **non-unique global indexes**, which follow the rows asynchronously: a transactional outbox
  in each shard, worker processes that drain it, operations that build, validate, repair and
  drop an index, and queries that trust it;
* **unique global indexes**, which are synchronous: a writer reserves its keys in the authority
  file, commits the row and finalises, and whoever writes next settles what dead writers left;
* **schema migrations**: an admission gate, sole ownership of the root, a journal in the manifest,
  one shard after the other, and recovery at the next start or retry;
* **idempotent writes**: receipts in the shards, lock stripes over processes, a wall clock that
  jumps;
* **ISAM commits**: the pipelined commit of the alternative storage format, with shared syncs,
  two root slots and power losses.

Each is model-checked on small instances. Every safety invariant and action property that the
passing runs check is also proved for every instance, and so is that the unique authority
implements an atomic register per key.

Paths below are relative to the repository (`src/` here stands for the crate's
`src/` directory).

## 1. The system

| Component | State it keeps | Operations | Interacts with |
|---|---|---|---|
| Index outbox (`src/storage/index_outbox.rs`) | per shard file: events by cursor, `last_cursor`, `pruned_through`, one consumer row per index | append with the row transaction, read batch, acknowledge, prune, activate, deactivate | row writers append; workers read, acknowledge, prune |
| Asynchronous maintenance (`src/storage/global_index_async.rs`, worker loop in `src/core/mod.rs`) | authority file: entries, `applied_cursor`, poison, `rebuild_required`, `paused`, leases with fence tokens | one pass per index and worker: status snapshot, lease, read, apply, acknowledge, prune | other workers through leases; the outbox through cursors |
| Index lifecycle (`src/storage/mod.rs`, `src/storage/global_index.rs`) | catalog lifecycle; build state and per-shard checkpoints | transition, build, rebuild, remove | holds the schema gate alone; resets watermarks and consumers |
| Validation and repair (same files) | none of its own | validate, repair | publishes Ready or Invalid |
| Verified reads (`src/storage/global_index.rs`, `src/core/planner.rs`) | read-repair tombstones | snapshot requirement, read candidates, verify, queue and apply tombstones, choose target shards | reads shards and authority at different moments |
| Legacy writes (`execute_routed` in `src/core/mod.rs`) | none | fence every Ready index, then write the row without events | `rebuild_required` |
| Unique index authority (`src/storage/global_index.rs`, `src/storage/sharded_vtab/write.rs`) | authority file: key owners, entries, operations with their mutations, reservations | reserve, finalise, roll back, recover orphans, repair snapshots, rebuild | row writers, through the shard commit between reservation and finalisation |
| Unique lookups (`src/storage/global_index.rs`) | none | collect candidate owners, visit their shards | reads authority and shards at different moments |
| Schema gate (`src/storage/schema_gate.rs`) | per process: state, admitted operations, the waiting coordinator | admit, release, wake, close, wait, open, degrade | every operation; migrations |
| Process lock (`src/storage/process_lock.rs`) | flock of the root, startup lock, one lock file per global write operation, 256 idempotency stripes | upgrade, downgrade, take, create, remove | migrations, unique writers, idempotent writes of all processes |
| Migrations (`src/storage/migration.rs`, `manifest.rs`, `shard.rs`) | manifest: history, active migration with its next shard, integrity state; shard files: generation and fingerprint; live catalogs: generation | broadcast, resume, finish, startup verification, status inspection | gate, process lock, ordinary operations |
| Idempotent writes (`src/core/engine.rs`, `src/storage/idempotency.rs`) | receipts in every shard; claims in the process; stripes of the root | claim, acquire connections and worker, take the stripe, scan, replay or execute with receipt | connection pool, process lock |
| ISAM store, version 4 (`src/storage/isam/mod.rs`, `format.rs`, `locking.rs`) | two root slots, pages, the working state (root, durable generation, completion bits, failed), a durability barrier per process | open, stage, sync, mark, publish, acknowledge | other writers through the working state; the disk |

The rest of the repository (SQL front end, document engine, protocols, servers,
import, S3 overlay, security catalog) is listed with its status in
`PROJECT.json`; section 8 says why it is not modelled here.

What is hard here: a row and its event commit together in the shard, but the watermark
lives in the authority file, the acknowledgement again in the shard, the lifecycle in the
manifest; a migration changes the manifest and every shard in turn; an ISAM root names
pages that another process wrote and synced. Several processes act on all of them, each may
die between any two transactions, and each decides from values it read some steps ago.
The hazards are listed, each with its line and with the properties that cover it, in
`PROJECT.json`.

What makes each component correct:

* outbox: one gap-free order of events; no prune past an active consumer; a hard
  limit on what is retained;
* maintenance: *entries plus pending events equal the source rows*, whatever
  happened; a watermark never goes back, an acknowledgement never passes it; a
  stale worker cannot commit; a poisoned stream stands still; every event is
  applied eventually;
* lifecycle: an index that is published is complete; interrupted operations leave
  it out of service;
* reads: a shard that holds a matching row is always among the shards visited;
* unique authority: two committed rows never have the same key; the recorded owner
  of a key nobody is changing is the row that has it; an interrupted operation can
  always be settled, in the way the rows show; together, an atomic register per key;
* migrations: the shards are always the prefix the journal says; an admitted operation
  finds every shard at the generation of its catalog; no script twice; nothing the code
  does itself looks like corruption to it; a coordinator is not left waiting;
* idempotent writes: one change per key and retention, and answers that are true of it,
  whatever the clock and the processes do; a bounded table; no circle of waits;
* ISAM commits: what was acknowledged is in the newest root after every fault that leaves the roots
  whole, the root readers see only grows, and a store refuses to open only for a torn root or for an
  unsynced root that a power loss took from beneath its successor.

## 2. Modules

| Module | Models |
|---|---|
| `IndexOutbox` | the transactions of a shard file: `CommitRow` (row change with its planned events), `AdvanceConsumer`, `Prune`, `ActivateIndex`, `DeactivateIndex`, and the two reads of `read_batch` |
| `GlobalIndexAsync` | extends it with the authority file, the catalog, workers, legacy writers, operators and offline builds; `Spec` is the whole non-unique maintenance system |
| `GlobalIndexRead` | composes it with queries |
| `GlobalIndexRecovery` | composes it with validation and repair |
| `GlobalIndexProgress` | the same steps with worker threads that live or die, and fairness |
| `UniqueAuthority` | the authority of one unique index: write transactions, reservations, commits, finalisation, orphan recovery through lock files, rebuild; `AuthoritySpec` |
| `UniqueRegister` | the abstract specification: a register per key, changed with the row in one step |
| `UniqueLookup` | composes the authority with exact-key queries |
| `SchemaGate` | the admission gate of a process |
| `SchemaMigration` | composes the gates of several processes with the locks of the root, the journal, the shards, startup, operations and status inspections; `MigrationSpec`, `FairMigrationSpec` |
| `IdempotentWrite` | keyed writes of several processes; `IdempotentSpec`, `FairIdempotentSpec` |
| `IsamPipeline` | the pipelined ISAM commit with its faults; `PipelineSpec` |
| `GlobalIndexAsyncProofs` | each outbox transaction preserves the outbox invariant; type correctness and outbox safety of `Spec` |
| `GlobalIndexReplayProofs` | the maintenance invariant of `Spec`, replay, acknowledgements, watermarks, fences, poison |
| `GlobalIndexServiceProofs` | the same with queries and with validation and repair: completeness of reads and of fresh indexes |
| `UniqueAuthorityProofs` | the invariant of `AuthoritySpec`, uniqueness, owners, recoverability |
| `UniqueClientProofs` | what clients of the authority see: `AuthoritySpec` implements `UniqueRegister`; completeness of lookups |
| `IdempotentWriteProofs` | the invariant of `IdempotentSpec` and what follows from it |
| `SchemaMigrationProofs` | the three invariants of `MigrationSpec`: files, admission, integrity, without hypotheses on locks and commits |
| `IsamPipelineProofs` | the invariant of `PipelineSpec` and what follows from it |
| `MC*` | instances for TLC |

How state corresponds to the code:

* `rows[s][l]` is the row with physical locator `l` in shard `s`; `KeyOf[i]` gives
  the canonical key of a row for index `i`, or `NoKey` outside a partial index.
* `events`, `last`, `pruned`, `consumer` are the four outbox tables. Retained
  bytes are not modelled; the event limit stands for both limits, which are
  tested and reported together.
* `entries`, `applied`, `poisoned`, `rebuild`, `paused`, `lease`, `repairs`,
  `built`, `checkpoint` are tables or columns of the authority file. A build
  checkpoint is the image of the shard that the scan saw; the code stores its
  digest and row count.
* `lifecycle` is the catalog. `maint` is the offline operation that holds the
  schema gate and the process lock; its phase is the next transaction.
* `pc[w]` and `pass[w]` are the program point and the locals of
  `process_index`/`process_shard` in worker `w`. A worker is an owner of leases, which in the
  code is a handle; threads of one handle that start passes at once share owner and fence and are
  not told apart here.
* `undrained` (`GlobalIndexRecovery`) is a history variable: the indexes in service that a validation
  published before their watermarks had reached the end of every outbox.

In `UniqueAuthority`:

* `rows[o]` is the committed key of the row at owner `o` (shard and locator);
  `uniqueKeys`, `entries`, `operations`, `reservations` are tables of the authority
  file; an operation and the mutation stored with it are one record.
* `markers` are the operation lock files that exist, `lease[p]` is the process that
  holds the flock of the file of `p`. The flock is on the open file, so it can be
  taken on a file whose name is already gone, as on Unix.
* `writer[w]` is the local state of a write transaction: its step, its shard, its
  collapsed mutation, the operation it has reserved or is settling, the rest of the
  list of active operations, and the first probe of recovery.
* A mutation is a pair of entries: `previous` loses its key, `new` gets it. Insert,
  delete, key change and handing a key to another row of the shard are its four
  shapes; the capture refuses everything else.
* The write lock of a shard is held from `OpenTransaction` to `Commit` or rollback:
  two transactions that are open are open in different shards.

In `SchemaGate` and `SchemaMigration`:

* `gate`, `active` and `restore` are the fields under the mutex of the gate; `notices` are
  operations that have released the mutex and not yet sent their wakeup; `waiter` is the
  position of the coordinator in `wait_for_quiescence`.
* A schema is the sequence of scripts that produced it. `manifest` has the history, the active
  script, the next shard and the integrity state; `shard[s]` is the schema of a shard file; a
  generation is the length and a fingerprint the sequence itself.
* `lease`, `startup` and `handle` are the locks and handles of a process, `catalog` is the
  generation of its live catalogs, `coord[p]` the step of its broadcast or startup, `inspect[p]` the
  locals of a status inspection.
* `Ambiguous` names the manifest commits that may report an error and be durable, `Yielding` the
  processes whose failed flock upgrades give up the shared lock, as on Linux.
* `overtaken` and `misled` are history variables. A process is overtaken when another becomes sole owner
  while it has a handle and its lock is given up, until it publishes again or dies. The code
  is misled from the first such moment on, or from the first finalisation that reports an error and
  is durable.

In `IdempotentWrite`:

* `call[c]` is the local state of a request, `home[c]` its process, `receipts[s][k]` the table of
  shard `s`. A write is its request digest and fixes its shard. The stripe and the claim of
  the process are held by calls past their step, so they need no variables.
* Every call reads the clock once, after it has its stripe; the reading is any value.
* `latest`, `peak` and `repeated` are history variables: the last change under a key, the latest
  reading that was or can be acted on since, and the keys changed again too early.

In `IsamPipeline`:

* A tree is the sequence of its batches; its generation is the length plus one, as the
  code counts. Each batch inserts one key with a lock stripe of its own.
* `slot[k]` is the root every process reads, `onDisk[k]` the roots of that slot that may be there
  after a power loss; `pages[b]` the pages of a batch. `dirty[p]` are the writes of a process that no
  sync has begun to cover: a sync is trusted only with the writes of its own process.
* `working` is the speculative working state, `barrier[p]` the tickets and the running sync of
  `DurabilityBarrier`, `batch[b]` the program point of `write_pipelined` and the root it staged.
* `hurt` is a history variable: a root was torn, or a power loss lost a root that no sync had covered and
  kept its successor (`LostBeneath`). The successor may have been synced and acknowledged: its sync
  need not cover a root that another process wrote.

A step is one SQLite transaction, one statement where the code runs statements
outside a transaction (`status`, `read_batch`), or one file operation or critical section (gate,
barrier, ISAM). In `process_index` the snapshot
taken by `status` is kept in the pass and used later, as in the code, while other
workers move on. A transaction that changes several rows is a run of `CommitRow`
steps with nothing between, so all its end states are reached. The consumer row of
an index and its first event, the fence of a legacy write and the row it writes,
the poison record and the rejected batch keep the order and the transaction
boundaries of the code.

Faults. `FailPass` ends a pass between any two steps: a crash, a cancellation and a
storage error look the same to everyone else. `AbandonMaintenance` does the same
to an offline operation, `Abandon` to a writer of unique keys, `GiveUp` and `Die` to a migration
and its process, `Fail` to a keyed write, `Fail`, `SyncError`, `StageError`, `MarkError`, `PublishError`,
`Kill` and `PowerLoss` to ISAM batches. `Expire` is the wall clock; a lease may expire at any
moment, also under a live holder.

## 3. Runs

| Run | Instance | Shows |
|---|---|---|
| `workers` | two scenes: 2 workers that may fail on 1 stream; 1 worker on 2 indexes (one partial) with 2 locators; 3 cursors, 2 fences | leases, takeovers, stale and rejected batches, streams that share cursors, rows that move: `ReplayTruth`, `AckBehindWatermark`, `FencesDistinct`, `WatermarkMonotone`, `PoisonStops`, `GapFree`, `ConsumerBounds` |
| `lifecycle` | two scenes: everything at 1 locator with 2 keys, 3 cursors; 1 query over 2 locators | legacy writes, pauses, prunes, interrupted and resumed builds, drops, and validation and repair, with events pending or not: the inductive `RecoveryInv`, `FreshUnlessUndrained`, `RetentionBound`; `ReadComplete` while rows move, batches are applied or rejected, tombstones come and go, legacy writes fence the index |
| `progress` | 2 workers, one mortal, weak and strong fairness | `CatchUp` |
| `unique` | 2 processes, 2 shards of 1 row, 2 operations; 2 keys, or 1 key and 1 query | `UniqueRows`, `OwnerTruth`, `ActiveRecoverable`, the inductive `AuthorityInv`, and the refinement `AtomicRegister`, while writers in different shards claim, release and exchange keys and die anywhere; `LookupComplete`: a query misses no row that has the key throughout |
| `migration` | 2 processes, 2 shards, 1 script, 1 operation per process; flock conversions that give up the lock, and every manifest commit may lie | `JournalPrefix`, `AdmissionSound`, `NeverDegraded`, `ScriptOnce`, the inductive `MigrationInv`; `DrainEnds` under fairness |
| `idempotency` | 2 calls in 1 or 2 processes, 2 shards, 2 keys, 2 writes | `NeverRepeated`, `AnswerTruth`, `OneReceipt`, `TableBound`, the inductive `IdempotentInv`; `CallsEnd` under fairness |
| `isam` | 2 processes, 3 concurrent batches and a late one, window 2 | `AckedSurvives`, `NeverSelfCorrupt`, `NoRollback` and `PipelineInv`, which says why |
| `fencing`, `full_outbox`, `recovery`, `unique_stale`, `ownership` | as above | five disagreements between code and documentation, section 6 |

Bounds. `MaxCursor` limits the number of events of a behaviour, `MaxRetained`
makes the outbox full within it, `BatchLimit` = 1 or 2 makes full and short
batches happen, `MaxFence` bounds takeovers. One shard and one index are enough
where the property speaks of one stream, because streams of different shards
share nothing but the control row of their index; the second scene of `workers` has two indexes
on one shard, where cursors are shared. For `ReadComplete` one shard is the hard case: what a
query finds in other shards can only add shards to its targets. Two locators are
needed for moves, one otherwise. Locators and keys are symmetric in `lifecycle`, workers in `workers`. In `workers` rows are written once the index is built; `lifecycle` also writes before and
between builds. The query scene of `lifecycle` stops writers and workers once a
legacy write has taken the index out of service, which happens between passes there, and its lifecycle scene has one worker, so no lease
changes hands there; `workers` is about that. Runs whose behaviour ends at the cursor bound set
`CHECK_DEADLOCK FALSE`: the bound, not the code, stops them.

For the unique authority, two operations are what it takes for one to be settled by
a process that is stale about the other; one row per shard is enough for conflicts
between shards. Handing a key from one row to another of the same shard needs two rows
in a shard and is covered by the proofs. Operation identifiers are random
and never reused in the code, so they run out in the model; deadlock is still
checked, because a transaction can always be abandoned and a rebuild always run.
Writers, operations and keys are symmetric; shards are not declared so, because an
idle writer names one, but of two initial states that differ only in the names of the shards the
instance has one.

Two shards are what a migration needs to be cut short between two. In `migration` both processes
give up their lock in a failed conversion and all three manifest commits may lie; one script, which
is repeated after its end and after every failure, keeps that within minutes. In `idempotency` a capacity of one receipt makes tables full and
cleanup necessary, a retention of one and a clock of two values make receipts expire and
come back by a jump; one connection per shard and process makes calls wait. In `isam` a window of
2 instead of 64 makes it full and its bits alias; three
batches of two processes can all be at different points while two share a barrier; the last batch
starts when these have ended, on whatever they left, and meets a key that may be taken.

Other instances, with the same modules and only the constants or the `SPECIFICATION` line
of a configuration changed, were run once and also pass: `ReadSpec` (everything beside a
query) with one locator, 515,744 states; `AuthorityInv` and `ActiveRecoverable` with two rows in one shard,
218,217 states, and with two rows in each of two shards and one key, 753,463 states; the invariants of
`migration` with two scripts, one after the other or one in the place of the other, and all commits that may
lie: 753,792 states when conversions keep the lock, 4,299,258 when those of one process give it up.

Fairness.

* `GlobalIndexProgress`: a live thread takes its next step (weak
  fairness of `Run`); its loop comes back to every Ready index, polling when idle
  (strong fairness of `Visit`, because a pass in progress disables it); the clock
  passes every deadline (weak fairness of `Elapse`). `InUse` assumes that a live
  holder finishes one batch within `lease_ms`; only this module assumes it. Nothing
  is assumed of writers, nor of workers that may die.
* `FairMigrationSpec`: admitted operations end, their wakeups are sent after the mutex is
  released, and the waiting coordinator is polled. Nothing is assumed of its other steps.
* `FairIdempotentSpec`: a worker thread that runs goes on (weak fairness of a call's steps); the
  semaphores of pool and workers are tokio's, which serve waiters in order (strong fairness of the two
  acquisitions).

## 4. Properties

Every property is stated with its comment in the module that defines it. The
central one is `ReplayTruth`: for every index that is Ready and not fenced,
replaying the stored events past the watermark on top of the entries gives exactly
the keys of the source rows. It fails if an event is lost, applied twice out of
order, pruned early, planned wrongly, or missed by a build, whoever is at fault.

For unique keys it is the refinement `AtomicRegister`: mapped by `SettledOwner` (the recorded owner
of a key, or what the operation under way has already made of it), every step of the
authority is a step of `UniqueRegister` or changes nothing a caller can see. For migrations it is
`AdmissionSound`, for idempotent writes `NeverRepeated` and for ISAM commits `AckedSurvives`.

Each property of each passing run has a mutant in `PROJECT.json`: a plausible
bug in one definition under which TLC finds the property violated. The mutated
forms are defined next to what they mutate and marked as mutants; nothing uses
them.

## 5. Proofs

`tlapm` checks every theorem below, for every value of the constants.

Assumptions. `OutboxAssumption` (cursor and retention limits are natural numbers, there
are finitely many indexes, `KeyOf` maps values to keys, values for "none" are not among the
others), `AsyncAssumption` (there is an index and a shard, batch limit and fence bound are
positive, workers that may fail are workers), `NoEventAssumption` and `NoImageAssumption`
(no event, no image), `AuthorityAssumption` (values for "none", and there is a shard),
`IdempotentAssumption` and `NoReceiptAssumption` (there is a shard, every write has a target, limits and
the retention are positive, keys and calls are finite, values for "none"), `ReadAssumption`
(the candidate limit is a natural number), `MigrationAssumption` (there is a shard, values for
"none", inspectors and processes that yield are processes, the commits that may lie are the three of the manifest),
`PipelineAssumption` and `SlotAssumption` (every batch has a process and a key, there are finitely
many batches, the window is positive, an empty slot and a torn one are no roots). TLC
evaluates them in every run that uses their module.

| Theorem | Statement |
|---|---|
| `GlobalIndexAsyncProofs!TypeCorrect` | `Spec => []AsyncTypeOK` |
| `GlobalIndexAsyncProofs!OutboxSafe` | the outbox is gap-free, within its limit, consumers between pruned prefix and last cursor |
| `GlobalIndexAsyncProofs!ConsumersSafe`, `RetentionSafe` | the last two parts by themselves |
| `GlobalIndexReplayProofs!MaintenanceSafe` | `Spec => []MaintenanceInv` |
| `GlobalIndexReplayProofs!ReplayCorrect` | `Spec => []ReplayTruth` |
| `GlobalIndexReplayProofs!AckSafe` | `Spec => []AckBehindWatermark` |
| `GlobalIndexReplayProofs!WatermarkSafe` | `Spec => WatermarkMonotone`, an action property |
| `GlobalIndexReplayProofs!FencesSafe` | `Spec => []FencesDistinct` |
| `GlobalIndexReplayProofs!PoisonSafe` | `Spec => PoisonStops`, an action property |
| `GlobalIndexServiceProofs!ReadTyped` | `ReadSpec => []ReadTypeOK` |
| `GlobalIndexServiceProofs!ReadsSafe` | `ReadSpec => []ReadComplete` |
| `GlobalIndexServiceProofs!ReadersKeepReplay` | `ReadSpec => []ReplayTruth` |
| `GlobalIndexServiceProofs!RecoverySafe` | `RecoverySpec => []RecoveryInv` |
| `GlobalIndexServiceProofs!FreshSafe` | `RecoverySpec => []FreshUnlessUndrained` |
| `UniqueAuthorityProofs!AuthoritySafe` | `AuthoritySpec => [](AuthorityTypeOK /\ AuthorityInv)` |
| `UniqueAuthorityProofs!AuthorityTyped` | `AuthoritySpec => []AuthorityTypeOK` |
| `UniqueAuthorityProofs!UniqueSafe` | `AuthoritySpec => []UniqueRows` |
| `UniqueAuthorityProofs!OwnersSafe` | `AuthoritySpec => []OwnerTruth` |
| `UniqueAuthorityProofs!RecoverableSafe` | `AuthoritySpec => []ActiveRecoverable` |
| `UniqueClientProofs!AuthorityIsRegister` | `AuthoritySpec => AtomicRegister`, a refinement |
| `UniqueClientProofs!LookupsSafe` | `LookupSpec => []LookupComplete` |
| `IdempotentWriteProofs!IdempotentTyped` | `IdempotentSpec => []IdempotentTypeOK` |
| `IdempotentWriteProofs!IdempotentSafe` | `IdempotentSpec => []IdempotentInv` |
| `IdempotentWriteProofs!NeverRepeatedSafe` | `IdempotentSpec => []NeverRepeated` |
| `IdempotentWriteProofs!AnswerSafe` | `IdempotentSpec => []AnswerTruth` |
| `IdempotentWriteProofs!OneReceiptSafe` | `IdempotentSpec => []OneReceipt` |
| `IdempotentWriteProofs!TableBoundSafe` | `IdempotentSpec => []TableBound` |
| `SchemaMigrationProofs!DurableSafe` | `MigrationSpec => [](MigrationTypeOK /\ DurableInv)` |
| `SchemaMigrationProofs!MigrationTyped` | `MigrationSpec => []MigrationTypeOK` |
| `SchemaMigrationProofs!JournalSafe` | `MigrationSpec => []JournalPrefix` |
| `SchemaMigrationProofs!ScriptsSafe` | `MigrationSpec => []ScriptOnce` |
| `SchemaMigrationProofs!AdmissionSafe` | `MigrationSpec => []AdmissionSound` |
| `SchemaMigrationProofs!MigrationSafe` | `MigrationSpec => []MigrationInv` |
| `SchemaMigrationProofs!DegradedNever` | `MigrationSpec => []NeverDegraded` |
| `IsamPipelineProofs!PipelineSafe` | `PipelineSpec => [](PipelineTypeOK /\ PipelineInv)` |
| `IsamPipelineProofs!PipelineTyped` | `PipelineSpec => []PipelineTypeOK` |
| `IsamPipelineProofs!AcknowledgedSafe` | `PipelineSpec => []AckedSurvives` |
| `IsamPipelineProofs!InStepSafe` | `PipelineSpec => []NeverSelfCorrupt` |
| `IsamPipelineProofs!ReadersOnlyAdvance` | `PipelineSpec => NoRollback`, an action property |

### The outbox and its replay

The outbox invariant is inductive on its own: cursors are allocated in order, a
prune stops at the slowest active consumer, a new consumer starts at the last
cursor. `TypeInv` adds the types of the rest; it needs the outbox, because a
batch is typed by the events it was read from.

`ReplayTruth` is not inductive. A worker may hold a batch it read many steps ago, from
a watermark another worker has moved, out of an outbox that has been pruned and whose
index has been rebuilt since. `MaintenanceInv` says what makes that harmless:

* `OfflineAlone`: while an offline operation runs, no pass and no legacy write does;
* `BuildStage`: what each phase of a build has established, up to publication;
* `LegacyFenced`: an index is out of service between the fence and the row of a legacy
  write;
* `PassBounds`: what a worker remembers is a lower bound of what it would find now;
* `BatchCurrent`: a batch whose start is still the watermark holds all events of the
  index up to its end;
* `AckBehindWatermark`: acknowledgement, watermark and last cursor of an index in service are
  in this order;
* `ReplayTruth` itself.

The heart is `BatchCurrent`. Watermarks of an index in service only grow, so if the
watermark still equals the start of the batch, nobody has applied anything since; then
nothing after it has been acknowledged, so nothing after it has been pruned, and the
two reads of `read_batch`, although not in one transaction, saw every event.
Applying the batch then moves a prefix of the pending events into the entries, and
replay is unchanged. `CommitRow` appends to the pending events exactly what it changes
in the rows. A build publishes an index with no pending events and entries equal to
the rows of every shard.

### The unique authority

`OwnerTruth` speaks only of keys that nobody has reserved; it is not inductive because it
says nothing of the moment a reservation is released. `AuthorityInv` adds:

* `OperationInv`: a reservation belongs to an active operation that wants the key; an
  active operation has its lock file, holds all its keys, passes the row counts of
  finalisation, and the rows of its keys are wholly as *before* its commit or wholly as
  *after* it;
* `LeaseInv`: whoever works on an operation holds its flock, and so works alone;
* `TransactionInv`: an open transaction still sees the rows its mutation was captured
  from, because it has the write lock of the shard;
* `SideInv`: a process knows the side of its operation: before until its commit, after
  from then on, and, in recovery, whatever its decision says;
* `SnapshotInv`: the entries have every row whose owner is recorded.

A reservation is granted only on keys whose owners are exact, so an operation starts on
the side before. The commit it protects moves its keys to the side after
(`CommitMoves`) and touches no other key (`CommitElsewhere`). Active operations have
disjoint keys (`KeysApart`), so nothing else touches them (`KeysUntouched`). On
either side the probes of recovery are decisive (`Sides`, `DecisionSide`), also when they
are made at different moments, because the rows of a held key cannot move in between.
So finalisation happens on the side after and rollback on the side before, and
both release keys whose owners are exact again. A process that settles an operation
somebody has settled before changes nothing. Uniqueness follows: on either side a key has
at most one row.

### The register

Under `AuthorityInv` the mapped register of every key names exactly the row that has it
(`RegisterTruth`): the recorded owner does when nobody has reserved the key or the operation is on
the side before, and the mutation does on the side after. So a step that leaves the rows
alone leaves the register alone. Only `Commit` changes rows, and by the shape of its
mutation it is a `Delete`, a `Put` or a `Move` of the abstract specification.

### Idempotent writes

`NeverRepeated` is not inductive: it says nothing of a call that has found no receipt and is about to
commit. `IdempotentInv` adds that calls with their stripe have different keys (`StripeInv`), that a
receipt is that of the last change (`LatestInv`), that a scan has found what there is on the
shards behind it, and nothing at all if it goes on to execute (`ScanInv`), and that the
receipt of the last change disappears only when a reading of the clock has passed its end
(`ExpiryInv`). `Split` takes the invariant apart into what it says of the tables and of one call
(`Fits`), since a step changes one call. Deleting expired receipts keeps the tables (`Shrink`);
the preflight removes nothing that is still valid (`PreflightLeaves`); and since it
removes an expired receipt whenever there is one, a table that is full and admits a
new receipt has lost one (`CommitBound`).

### Leases, poison

Two workers may both be in the middle of a drain of one stream, since a lease expires
under its holder. `TokenInv` says of each of them that its token has been granted: it is at most the
fence of the lease, and if it is that fence the lease is its own. A takeover and a reset
raise the fence, so `FencesDistinct` follows. `PoisonStops` needs no more than
`MaintenanceInv`: only `apply_batch` moves a watermark or an entry online, and it checks the poison
in the transaction that writes.

### Queries and offline repair

A query reads the last cursors of the shards one after the other, later the authority, later
the rows of its candidates, with nothing locked in between. `ReadComplete` speaks only of its
end. The invariant has to say what the cursors captured are good for: for a shard that has
held a row with the key ever since the query began, *every* prefix of the stream that reaches
the captured cursor, replayed on the entries, has the key (`CaptureInv`). It quantifies over
prefixes because nobody knows how far workers will have come when the authority is read. A
write appends one more prefix, and that one has the key by `ReplayTruth`; applying events removes
prefixes; a row that moves drops its shard from the shards the query owes. When the authority
is read with a watermark at or past the cursor, the entries are such a prefix, so the shard is a
candidate, or it is uncertain and scanned anyway.

With validation and repair `ReplayTruth` is false of some indexes: validation publishes entries it
has compared with the rows, whatever is still pending, and finding 1 is what follows. The history
variable `undrained` has exactly these indexes, for as long as they stay in service, and
`RecoveryInv` says that everything maintenance keeps true (`MaintenanceOf`, by index) stays true of
all others. It adds that a complete build keeps its consumers until it is dropped
(`ConsumersKept`) and what an operation that holds the gate has published (`OfflineStage`). An index that is
published with nothing pending and entries equal to the rows satisfies replay; one that leaves
service has nothing to satisfy; and what an undrained index goes through, its batches and its
prunes included, touches no other. `FreshUnlessUndrained` follows, and says that finding 1 is the only
way to lose a row, and that rebuilding the index, or validating it drained, ends it.

A lookup by a unique key is right because of `LookupHasHolder`: under `AuthorityInv` the row that has a key is
among the owners the lookup returns, as the recorded owner or as the new side of the operation
that is about to replace it. From there on a query that has found nothing while the key never was
without a row still has to read the shard of its present row (`Sought`): a commit takes a key from its
row for good or hands it to a row of the same shard (`CommitKeepsShard`), so a key that moves to
another shard has no row for a moment in between, and the query is right about that moment.

### Schema migrations

Three invariants, none with a hypothesis on locks or commits; what the second and the third
except is recorded in history variables.

* `DurableInv` is about files and locks and excepts nothing. Whoever is at a step that writes is the
  only process with a lock on the root (`LockInv`) and knows what the journal says (`StoreInv`);
  so nobody else is between two steps, and each commit can be compared with
  `JournalPrefix`. A commit that lies leaves what it would have left had the process
  died after it, which is one of the states the journal covers. It holds on Linux too,
  where a failed conversion gives up the lock: a process without its lock writes nothing.
* `AdmissionInv` adds gates and catalogs, and excepts processes that are `overtaken`. `Open(p)` says that `p`
  admits operations, has admitted some, or would if its guard were dropped now; an open process that
  is not overtaken is current: no journal is active and its catalogs have the generation of the
  manifest. The journal changes only in the hands of a sole owner; a process that has a handle then has
  lost its lock, and is overtaken from the moment the owner took the lease (`HistoryInv`). The sole owner has
  drained its operations and, from its first commit attempt on, a dropped guard leaves the gate
  pending; so it is not open, whatever the commit reports. It opens again only through a check of
  all shards, which is also how an overtaken process stops being one. Gates may be degraded here,
  rightly or not.
* `MigrationInv` says moreover that catalogs are behind only between the final commit and the
  publication, and that an inspection that sees a difference overlaps with a publication; until
  the code is `misled`. Two things mislead it. The catalogs of a process that was overtaken may be any number
  of generations behind. After a finalisation that reported an error and is durable, the process goes on with
  catalogs one generation behind, and a different script broadcast next makes it report
  corruption; a retry of the same script or a restart heals it. `AdmissionSound`, `JournalPrefix` and
  `ScriptOnce` hold throughout.

### ISAM commits

`AckedSurvives` speaks of the roots a power loss may leave, and nothing in it says why an
acknowledged root cannot be lost. `PipelineInv` adds:

* `RootInv`: the roots that are in a slot, or may be in it after a power loss, are durable
  prefixes of one another in the order of their publications;
* `BarrierInv`: which tickets the barrier of a process has, and that no root it is about to sync
  has been overwritten;
* `BatchInv`: the tree of a running batch agrees with every other tree (`StagedInv`); its page
  is durable or the sync that will answer it covers it (`PageInv`); a batch that may publish
  has its whole prefix on disk (`ReadyInv`); and from its publication on it is `Owed`: there is a
  slot in which every root that can be left has the batch, once the roots its sync covers
  are synced (`OwedInv`);
* `WorkingInv`: the working state runs ahead of the durable watermark by at most the window, its
  completion bits are those of synced batches beyond it, and roots lie below it.

A ticket that is registered while a sync runs is not covered by it, which is where `PageInv` and
`OwedInv` distinguish what is dirty from what the running sync has taken. The window makes
the bits of the generations in flight distinct, so a bit that is set is that of the batch it
is read for. Publications alternate between the slots, so a root is overwritten only by
one two publications later, which has its batches too.

`AckedSurvives` does not ask that the store opens. Two roots that are whole but not consecutive are refused by
`read_snapshot`, and a power loss can leave them: a process publishes 2 and does not sync it, another
publishes 3, syncs and acknowledges, and 2 is lost. The run reaches this state. What was
acknowledged is still in the newest root, and `NeverSelfCorrupt` says that a store refuses to open in this way,
or with the newer root unsynced as well, or after a torn root, and in no other. The comment at
`isam/mod.rs:1047` wants the sync of a batch to be independent of the dirty roots of others: the
durability of its data is, the opening of the store is not.

### Only model-checked

Every safety invariant and action property of the passing runs has a theorem. Liveness (`CatchUp`,
`DrainEnds`, `CallsEnd`) needs fairness and `ENABLED`, which are beyond the prover; so does the violated
`FullOutboxDrains`. The violations of section 6 are TLC's counterexamples.

## 6. Findings

Five runs expect a violation. Each shows a disagreement between the code and what the
repository says of it; the quotations are in `PROJECT.json`.

1. `recovery`, `FreshIndexComplete` (`validate_global_index`). Validation publishes an
   index whose entries match the rows while events of its past are still pending.
   Replaying them later removes entries of live rows, and queries then skip the shard.
   `lifecycle` and `FreshSafe` show that this is the only way in which an index in service loses a row.
2. `fencing`, `FencedOnlyWhenLost` (`process_index`). A worker compares the current
   acknowledgement with a watermark it read before another worker moved on, and takes a
   healthy index out of service.
3. `full_outbox`, `FullOutboxDrains` (`process_index`). A worker that dies between its last
   acknowledgement and its prune leaves an outbox that later passes find current and never
   prune; if it is full, writes stay `Busy`.
4. `unique_stale`, `RecoveryNeverCorrupt` (`recover_global_unique_writes`). The list of active
   operations is read once, before the lock files. A process that locks a stale file later
   decides an operation that is long settled from rows that have moved on, and may report
   corruption and degrade. `OwnerTruth` holds regardless: the stale decision never changes
   data.
5. `ownership`, `PeersBlock` (`try_acquire_exclusive`). On Linux a failed upgrade of the shared
   flock has given it up. While a process waits to take it back, another finds itself alone and
   migrates; the first then reports `Busy` and opens its gate with its old generation.
   `migration` and `AdmissionSafe` show that no other process is affected.

## 7. Plan

Done: the asynchronous maintenance system with its reads and its recovery; the unique
authority, its lookups and its refinement; the schema gate, process lock and migrations;
idempotent writes; pipelined ISAM commits; theorems for every safety property of their passing
runs. In this order next:

1. A second refinement: an asynchronous index as a delayed copy of the rows, with `Spec`
   implementing it. `ReplayTruth` is what its step simulation needs.
2. The rest of ISAM: puts, deletes and validated batches of the pipeline, and the version 2
   and 3 commit, which holds the data lock over the sync.
3. The rest of the unique authority: value leases with their deadlines, the caller-driven
   reservation interface, writes that touch several unique indexes in one operation.
4. Document write transactions and their recovery; sessions and prepared statements; idle
   connections of the pool.

## 8. Not modelled

Inside the modelled components:

* the byte limit of the outbox (the event limit stands for both) and the limit on the events of one
  write, which refuses the write; encodings, digests and checksums of events, keys, images, receipts
  and roots, and the comparison of file ends in `read_snapshot`;
* a COMMIT that reports an error and is durable, in the unique authority. `write.rs:4002` takes a failed shard
  COMMIT to have written nothing and releases its reservations, `mod.rs:1924` removes the lock file after
  a failed reservation; the model does the same, without asking whether the file agrees. (Ambiguous
  commits of the manifest and of receipts, which the code does distinguish, are modelled.)
* steps that the code takes in two and the model in one, because nobody can see or use the state between them: the two
  reads of `load_watermark` (what they decide is read again under the lease and in the transaction
  of the batch); lock file and reservation; scan and commit of a finalisation, under the flock of its operation;
  deletion of artifacts and of the catalog entry when an index is removed, under the gate; read and
  deletion of an expired receipt, under the stripe; opening the gate and giving up the
  exclusive lease at the end of a startup, which keeps other processes out a little longer;
* sampled validation, which may miss a finding by design;
* `advance_global_index_outbox`, a maintenance interface that lets a caller acknowledge any
  cursor of any index, past what the authority has applied; with it `AckBehindWatermark` does
  not hold;
* how long a read-repair tombstone lives: one inserted after its entry was deleted hides nothing and
  stays, and later queries of the index visit every shard. It costs scans, never rows;
* unique keys that do not reserve (a NULL part, a row outside a partial index): such a row
  is like no row to the authority. Changes that only touch them refresh the snapshot of their
  shard, which is what `RepairSnapshot` does;
* the phases of a rebuild of a unique index: it is one step here, since it runs offline and
  alone; the phases of a non-unique build are modelled;
* ranges and prefixes in queries: a read is for one exact key;
* what a migration script does to a schema: a script is a name, and its preflight passes or fails. A root
  with global indexes refuses migrations, so the two systems do not meet. Creation of a root and upgrades of
  its formats run before any other process can open it;
* in ISAM, file offsets, tree pages and their order on disk beyond "the pages of a batch", the
  catalog of stores, batches other than inserts, and the version 2 and 3 commit.

Other components, by reason. SQL parsing, classification, translation and planning, manifest
validation, document matching and aggregation are sequential and data-heavy: their risk is in the
data a model would abstract. Protocols, servers, TLS reload, import and the S3
overlay are I/O around single calls. The hi-lo allocator is one manifest transaction per block
and one mutex. The security catalog, shard summaries, sessions and document write
transactions have state of their own and are left for later. Each has its status in
`PROJECT.json`. Most of the repository's lines are in these components and in tests, so the modules
cover a small share of them; they cover the code in which several processes, several files and
faults meet.
