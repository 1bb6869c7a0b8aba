--------------------------- MODULE GlobalIndexAsync ---------------------------
(***************************************************************************)
(* Asynchronous maintenance of non-unique global indexes                   *)
(* (src/storage/global_index_async.rs): workers of several processes drain *)
(* the shard outboxes of IndexOutbox into the authority file               *)
(* global-indexes/global.sqlite, fenced by leases; operators pause, build, *)
(* rebuild and drop indexes; uncoordinated legacy writes bypass the outbox *)
(* after fencing the index.                                                *)
(*                                                                         *)
(* A step is one SQLite transaction, or one statement where the code runs  *)
(* outside a transaction.  Workers may fail between any two steps: a       *)
(* crash, a cancellation and an error that ends the pass look alike to     *)
(* every other process.                                                    *)
(***************************************************************************)
EXTENDS IndexOutbox

CONSTANTS
    Worker,             \* lease owners: one random owner_id per worker thread or handle
    NoOwner,
    NoImage,            \* a shard without a build checkpoint
    BatchLimit,         \* options.batch_events
    MaxFence,           \* bound on lease takeovers
    MayFail             \* the workers that may fail between any two steps

ASSUME AsyncAssumption ==
    /\ Index # {} /\ Shard # {}
    /\ NoOwner \notin Worker
    /\ BatchLimit \in Nat \ {0}
    /\ MaxFence \in Nat \ {0}
    /\ MayFail \subseteq Worker

VARIABLES
    lifecycle,   \* catalog state of each index (manifest.sqlite)
    built,       \* build_state = COMPLETE
    checkpoint,  \* checkpoint[i][s]: what the scan of the shard saw, or NoImage
    entries,     \* entries[i][s][l]: indexed key of the row at l, or NoKey
    applied,     \* applied_cursor watermark
    poisoned,    \* poisoned[i]: shards whose stream stopped at a poison event
    rebuild,     \* indexes with rebuild_required set, or without a control row
    paused,      \* paused indexes
    lease,       \* lease[i][s]: owner, fence token, and whether its deadline passed
    repairs,     \* repairs[i]: read-repair tombstones (see GlobalIndexRead)
    pc, pass,    \* program counter and local state of each worker
    legacy,      \* the uncoordinated writer: "idle", or "fenced" before its row write
    maint        \* the offline operation that owns the schema gate

authorityVars == <<built, checkpoint, entries, applied, poisoned, rebuild, paused, lease, repairs>>
workerVars == <<pc, pass>>
vars == <<outboxVars, lifecycle, authorityVars, workerVars, legacy, maint>>

Lifecycle == {"Creating", "Ready", "Rebuilding", "Invalid", "Dropping", "Dropped"}
Image == [Locator -> Key \cup {NoKey}]
Repair == [shard : Shard, locator : Locator, key : Key, state : {1, 2}]
Lease == [owner : Worker \cup {NoOwner}, fence : 0..MaxFence, expired : BOOLEAN]
ASSUME NoImageAssumption == NoImage \notin Image

FreeLease == [owner |-> NoOwner, fence |-> 0, expired |-> FALSE]

Batch == [1..MaxCursor -> Event \cup {NoEvent}]
EmptyBatch == [c \in 1..MaxCursor |-> NoEvent]

Pass == [index : Index, todo : SUBSET Shard, hw : [Shard -> Cursor],
         wm : [Shard -> Cursor], bad : SUBSET Shard, processed : SUBSET Shard,
         shard : Shard, after : Cursor, fence : 0..MaxFence, high : Cursor,
         batch : Batch, through : Cursor]

NoPass == [index |-> CHOOSE i \in Index : TRUE, todo |-> {},
           hw |-> [s \in Shard |-> 0], wm |-> [s \in Shard |-> 0],
           bad |-> {}, processed |-> {}, shard |-> CHOOSE s \in Shard : TRUE,
           after |-> 0, fence |-> 0, high |-> 0, batch |-> EmptyBatch, through |-> 0]

PC == {"idle", "high_waters", "control", "watermarks", "select", "consumer",
       "load", "lease", "read", "events", "apply", "poison", "mark",
       "acknowledge", "prune"}

Phase == {"none", "prepare", "scan", "activate", "publish", "deactivate", "validate"}
NoMaint == [phase |-> "none", index |-> CHOOSE i \in Index : TRUE, todo |-> {}]

AsyncTypeOK ==
    /\ OutboxTypeOK
    /\ lifecycle \in [Index -> Lifecycle]
    /\ built \in [Index -> BOOLEAN]
    /\ checkpoint \in [Index -> [Shard -> Image \cup {NoImage}]]
    /\ entries \in [Index -> [Shard -> Image]]
    /\ applied \in [Index -> [Shard -> Cursor]]
    /\ poisoned \in [Index -> SUBSET Shard]
    /\ rebuild \subseteq Index
    /\ paused \subseteq Index
    /\ lease \in [Index -> [Shard -> Lease]]
    /\ repairs \in [Index -> SUBSET Repair]
    /\ pc \in [Worker -> PC]
    /\ pass \in [Worker -> Pass]
    /\ legacy \in {"idle", "fenced"}
    /\ maint \in [phase : Phase, index : Index, todo : SUBSET Shard]

\* What a scan of shard s would index: scan_source_shard.
SourceImage(i, s) == [l \in Locator |-> RowKey(i, rows[s][l])]
EmptyImage == [l \in Locator |-> NoKey]

AsyncInit ==
    /\ OutboxInit
    /\ lifecycle = [i \in Index |-> "Creating"]
    /\ built = [i \in Index |-> FALSE]
    /\ checkpoint = [i \in Index |-> [s \in Shard |-> NoImage]]
    /\ entries = [i \in Index |-> [s \in Shard |-> EmptyImage]]
    /\ applied = [i \in Index |-> [s \in Shard |-> 0]]
    /\ poisoned = [i \in Index |-> {}]
    /\ rebuild = Index
    /\ paused = {}
    /\ lease = [i \in Index |-> [s \in Shard |-> FreeLease]]
    /\ repairs = [i \in Index |-> {}]
    /\ pc = [w \in Worker |-> "idle"]
    /\ pass = [w \in Worker |-> NoPass]
    /\ legacy = "idle"
    /\ maint = NoMaint

--------------------------------------------------------------------------------
(* Row writers.                                                            *)

\* try_acquire_operation succeeds while no offline operation owns the gate.
GateOpen == maint.phase = "none"

ReadyIndexes == {i \in Index : lifecycle[i] = "Ready"}

\* A coordinated write: only Ready indexes are captured (TableSpec.global_indexes).
Write ==
    /\ GateOpen
    /\ \E s \in Shard, old, new \in Locator \cup {NoLocator}, v \in Value \cup {NoRow} :
          CommitRow(s, old, new, v, ReadyIndexes)
    /\ UNCHANGED <<lifecycle, authorityVars, workerVars, legacy, maint>>

\* Mutant: the legacy write forgets to fence the index.
LegacyFenceForgotten ==
    /\ GateOpen /\ legacy = "idle"
    /\ legacy' = "fenced"
    /\ UNCHANGED <<outboxVars, lifecycle, authorityVars, workerVars, maint>>

\* execute_routed: fence every Ready index of the table, then write without events.
LegacyFence ==
    /\ GateOpen /\ legacy = "idle"
    /\ rebuild' = rebuild \cup ReadyIndexes
    /\ legacy' = "fenced"
    /\ UNCHANGED <<outboxVars, lifecycle, built, checkpoint, entries, applied,
                   poisoned, paused, lease, repairs, workerVars, maint>>

LegacyWrite ==
    /\ legacy = "fenced"
    /\ \E s \in Shard, old, new \in Locator \cup {NoLocator}, v \in Value \cup {NoRow} :
          CommitRow(s, old, new, v, {})
    /\ legacy' = "idle"
    /\ UNCHANGED <<lifecycle, authorityVars, workerVars, maint>>

LegacyError ==
    /\ legacy = "fenced"
    /\ legacy' = "idle"
    /\ UNCHANGED <<outboxVars, lifecycle, authorityVars, workerVars, maint>>

\* set_paused: one statement; without a control row it is an error.
SetPaused(i) ==
    /\ GateOpen /\ built[i]
    /\ paused' \in {paused \cup {i}, paused \ {i}}
    /\ UNCHANGED <<outboxVars, lifecycle, built, checkpoint, entries, applied,
                   poisoned, rebuild, lease, repairs, workerVars, legacy, maint>>

--------------------------------------------------------------------------------
(* One worker pass over one index: process_index and process_shard.        *)

Goto(w, label, local) ==
    /\ pc' = [pc EXCEPT ![w] = label]
    /\ pass' = [pass EXCEPT ![w] = local]

EndPass(w) == Goto(w, "idle", NoPass)

\* Back to the shard loop, the current shard done.
NextShard(w) ==
    Goto(w, "select", [pass[w] EXCEPT !.todo = @ \ {pass[w].shard}, !.after = 0,
                       !.fence = 0, !.high = 0, !.batch = EmptyBatch, !.through = 0])

\* The pass holds a schema operation from here to its end.  A worker is an owner of
\* leases, the identity of a handle, and runs one pass at a time, as the worker thread of
\* a handle does.
BeginPass(w, i) ==
    /\ GateOpen /\ pc[w] = "idle" /\ lifecycle[i] = "Ready"
    /\ Goto(w, "high_waters", [NoPass EXCEPT !.index = i, !.todo = Shard])
    /\ UNCHANGED <<outboxVars, lifecycle, authorityVars, legacy, maint>>

\* status: one high-water mark per shard file, one shard after the other.
SnapshotHighWater(w, s) ==
    /\ pc[w] = "high_waters" /\ s \in pass[w].todo
    /\ LET rest == pass[w].todo \ {s}
       IN  Goto(w, IF rest = {} THEN "control" ELSE "high_waters",
                [pass[w] EXCEPT !.todo = rest, !.hw[s] = last[s]])
    /\ UNCHANGED <<outboxVars, lifecycle, authorityVars, legacy, maint>>

\* status: the control row.  process_index returns if it is paused or fenced.
ReadControl(w) ==
    /\ pc[w] = "control"
    /\ IF pass[w].index \in paused \cup rebuild
       THEN EndPass(w)
       ELSE Goto(w, "watermarks", [pass[w] EXCEPT !.todo = Shard])
    /\ UNCHANGED <<outboxVars, lifecycle, authorityVars, legacy, maint>>

\* status: one watermark row per shard.
ReadWatermark(w, s) ==
    LET i == pass[w].index
        rest == pass[w].todo \ {s}
    IN  /\ pc[w] = "watermarks" /\ s \in pass[w].todo
        /\ Goto(w, IF rest = {} THEN "select" ELSE "watermarks",
                [pass[w] EXCEPT !.todo = IF rest = {} THEN Shard ELSE rest,
                                !.wm[s] = applied[i][s],
                                !.bad = IF s \in poisoned[i] THEN @ \cup {s} ELSE @])
        /\ UNCHANGED <<outboxVars, lifecycle, authorityVars, legacy, maint>>

\* The snapshot decides what happens to a shard: skip, compare, or drain.
IsFresh(w, s) == pass[w].wm[s] >= pass[w].hw[s]

SelectShard(w, s) ==
    /\ pc[w] = "select" /\ s \in pass[w].todo
    /\ \/ /\ s \in pass[w].bad
          /\ Goto(w, "select", [pass[w] EXCEPT !.todo = @ \ {s}])
       \/ /\ s \notin pass[w].bad /\ IsFresh(w, s)
          /\ Goto(w, "consumer", [pass[w] EXCEPT !.shard = s])
       \/ /\ s \notin pass[w].bad /\ ~ IsFresh(w, s)
          /\ Goto(w, "load", [pass[w] EXCEPT !.shard = s, !.processed = @ \cup {s}])
    /\ UNCHANGED <<outboxVars, lifecycle, authorityVars, legacy, maint>>

\* The fresh branch: repair a lost acknowledgement, or fence the index when the
\* consumer is missing or ahead of the watermark read earlier.
CompareConsumer(w) ==
    LET i == pass[w].index
        s == pass[w].shard
        wm == pass[w].wm[s]
    IN  /\ pc[w] = "consumer"
        /\ \/ /\ IsActive(s, i) /\ consumer[s][i].cursor = wm
              /\ NextShard(w)
           \/ /\ IsActive(s, i) /\ consumer[s][i].cursor < wm
              /\ Goto(w, "acknowledge", [pass[w] EXCEPT !.through = wm,
                                                        !.processed = @ \cup {s}])
           \/ /\ ~ IsActive(s, i) \/ consumer[s][i].cursor > wm
              /\ Goto(w, "mark", pass[w])
        /\ UNCHANGED <<outboxVars, lifecycle, authorityVars, legacy, maint>>

MarkRebuildRequired(w) ==
    /\ pc[w] = "mark"
    /\ rebuild' = rebuild \cup {pass[w].index}
    /\ NextShard(w)
    /\ UNCHANGED <<outboxVars, lifecycle, built, checkpoint, entries, applied,
                   poisoned, paused, lease, repairs, legacy, maint>>

\* load_watermark: the control and watermark rows again, now for one shard.  Two reads in
\* the code; the transaction of the lease reads the control again, that of the batch the
\* watermark.
LoadWatermark(w) ==
    LET i == pass[w].index
        s == pass[w].shard
    IN  /\ pc[w] = "load"
        /\ IF i \in paused \cup rebuild \/ s \in poisoned[i]
           THEN NextShard(w)
           ELSE Goto(w, "lease", [pass[w] EXCEPT !.after = applied[i][s]])
        /\ UNCHANGED <<outboxVars, lifecycle, authorityVars, legacy, maint>>

\* Mutant: a takeover keeps the fence of the holder it replaces.
GrantedLeaseSameFence(w, held) ==
    [owner |-> w, fence |-> IF held.owner = NoOwner THEN 1 ELSE held.fence, expired |-> FALSE]

\* acquire_lease in one immediate transaction: a first lease, a renewal by the
\* same owner, or a takeover of an expired lease under the next fence.
GrantedLease(w, held) ==
    CASE held.owner = NoOwner -> [owner |-> w, fence |-> 1, expired |-> FALSE]
      [] held.owner = w -> [held EXCEPT !.expired = FALSE]
      [] OTHER -> [owner |-> w, fence |-> held.fence + 1, expired |-> FALSE]

\* Mutant: the deadline of a lease is ignored.
LeaseRefusedForever(w, i, s) ==
    i \in paused \cup rebuild \/ lease[i][s].owner \notin {w, NoOwner}

LeaseRefused(w, i, s) ==
    \/ i \in paused \cup rebuild
    \/ lease[i][s].owner \notin {w, NoOwner} /\ ~ lease[i][s].expired

AcquireLease(w) ==
    LET i == pass[w].index
        s == pass[w].shard
        granted == GrantedLease(w, lease[i][s])
    IN  /\ pc[w] = "lease"
        /\ \/ /\ LeaseRefused(w, i, s)
              /\ NextShard(w)
              /\ UNCHANGED lease
           \/ /\ ~ LeaseRefused(w, i, s)
              /\ granted.fence <= MaxFence
              /\ lease' = [lease EXCEPT ![i][s] = granted]
              /\ Goto(w, "read", [pass[w] EXCEPT !.fence = granted.fence])
        /\ UNCHANGED <<outboxVars, lifecycle, built, checkpoint, entries, applied,
                       poisoned, rebuild, paused, repairs, legacy, maint>>

\* Wall-clock time passes the deadline of a lease.
Expire(i, s) ==
    /\ lease[i][s].owner # NoOwner /\ ~ lease[i][s].expired
    /\ lease' = [lease EXCEPT ![i][s].expired = TRUE]
    /\ UNCHANGED <<outboxVars, lifecycle, built, checkpoint, entries, applied,
                   poisoned, rebuild, paused, repairs, workerVars, legacy, maint>>

\* read_batch, first statement: high-water mark and pruned prefix.
ReadState(w) ==
    LET s == pass[w].shard
    IN  /\ pc[w] = "read"
        /\ \/ pass[w].after < pruned[s] /\ Goto(w, "mark", pass[w])
           \/ pass[w].after > last[s] /\ EndPass(w)
           \/ /\ pass[w].after \in pruned[s]..last[s]
              /\ Goto(w, "events", [pass[w] EXCEPT !.high = last[s]])
        /\ UNCHANGED <<outboxVars, lifecycle, authorityVars, legacy, maint>>

\* read_batch, second statement: the index's events up to that high-water mark.
ReadEvents(w) ==
    LET i == pass[w].index
        s == pass[w].shard
        stored == StoredEvents(i, s, pass[w].after, pass[w].high)
    IN  /\ pc[w] = "events"
        /\ \E read \in SUBSET stored :
              /\ IsLowest(read, stored, BatchLimit)
              /\ Goto(w, "apply", [pass[w] EXCEPT !.batch =
                    [c \in 1..MaxCursor |-> IF c \in read THEN events[s][c] ELSE NoEvent]])
        /\ UNCHANGED <<outboxVars, lifecycle, authorityVars, legacy, maint>>

--------------------------------------------------------------------------------
(* Applying a batch: one immediate transaction of the authority file.      *)

BatchCursors(batch) == {c \in 1..MaxCursor : batch[c] # NoEvent}

Touching(batch, l) == {c \in BatchCursors(batch) : Touches(batch[c], l)}

\* apply_event over the batch in cursor order: the last event that mentions a
\* locator decides its entry (delete_owner of both sides, then the insert).
ReplayedEntries(image, batch) ==
    [l \in Locator |-> IF Touching(batch, l) = {} THEN image[l]
                       ELSE KeyAfter(batch[Max(Touching(batch, l))], l)]

\* delete_owner also drops the read-repair tombstones of the locators it visits.
RepairsAfterReplay(i, s, batch) ==
    {r \in repairs[i] : r.shard = s => Touching(batch, r.locator) = {}}

\* A short batch reaches the high-water mark, a full one its last event.
AppliedThrough(batch, high) ==
    IF Cardinality(BatchCursors(batch)) < BatchLimit THEN high ELSE Max(BatchCursors(batch))

\* validate_lease
HoldsLease(w, i, s) ==
    /\ lease[i][s].owner = w
    /\ lease[i][s].fence = pass[w].fence
    /\ ~ lease[i][s].expired

\* Mutants: one of the two comparisons inside the apply transaction is missing.
WatermarkUnpoisoned(w, i, s) == s \notin poisoned[i]
WatermarkEqual(w, i, s) == applied[i][s] = pass[w].after

\* The watermark read before the lease must still be current and unpoisoned.
WatermarkUnchanged(w, i, s) == s \notin poisoned[i] /\ applied[i][s] = pass[w].after

ApplyBatch(w) ==
    LET i == pass[w].index
        s == pass[w].shard
        batch == pass[w].batch
        through == AppliedThrough(batch, pass[w].high)
    IN  /\ pc[w] = "apply"
        /\ HoldsLease(w, i, s) /\ WatermarkUnchanged(w, i, s)
        /\ entries' = [entries EXCEPT ![i][s] = ReplayedEntries(@, batch)]
        /\ repairs' = [repairs EXCEPT ![i] = RepairsAfterReplay(i, s, batch)]
        /\ applied' = [applied EXCEPT ![i][s] = through]
        /\ Goto(w, "acknowledge", [pass[w] EXCEPT !.through = through])
        /\ UNCHANGED <<outboxVars, lifecycle, built, checkpoint, poisoned,
                       rebuild, paused, lease, legacy, maint>>

\* Busy or FailedPrecondition: the transaction rolls back and the pass ends.
ApplyFenced(w) ==
    LET i == pass[w].index
        s == pass[w].shard
    IN  /\ pc[w] \in {"apply", "poison"}
        /\ ~ (HoldsLease(w, i, s) /\ WatermarkUnchanged(w, i, s))
        /\ EndPass(w)
        /\ UNCHANGED <<outboxVars, lifecycle, authorityVars, legacy, maint>>

\* An event the authority rejects (InvalidArgument, LimitExceeded) rolls back
\* the batch; record_poison then stops the stream in a transaction of its own.
RejectBatch(w) ==
    LET i == pass[w].index
        s == pass[w].shard
    IN  /\ pc[w] = "apply" /\ BatchCursors(pass[w].batch) # {}
        /\ HoldsLease(w, i, s) /\ WatermarkUnchanged(w, i, s)
        /\ Goto(w, "poison", pass[w])
        /\ UNCHANGED <<outboxVars, lifecycle, authorityVars, legacy, maint>>

RecordPoison(w) ==
    LET i == pass[w].index
        s == pass[w].shard
    IN  /\ pc[w] = "poison"
        /\ HoldsLease(w, i, s) /\ WatermarkUnchanged(w, i, s)
        /\ poisoned' = [poisoned EXCEPT ![i] = @ \cup {s}]
        /\ NextShard(w)
        /\ UNCHANGED <<outboxVars, lifecycle, built, checkpoint, entries, applied,
                       rebuild, paused, lease, repairs, legacy, maint>>

\* advance_consumer after the authority commit, or to repair a lost one.
Acknowledge(w) ==
    LET i == pass[w].index
        s == pass[w].shard
    IN  /\ pc[w] = "acknowledge"
        /\ \/ AdvanceConsumer(i, s, pass[w].through) /\ NextShard(w)
           \/ /\ ~ CanAdvance(i, s, pass[w].through)
              /\ EndPass(w) /\ UNCHANGED outboxVars
        /\ UNCHANGED <<lifecycle, authorityVars, legacy, maint>>

\* The shard loop is over: prune once on every shard the pass processed.
BeginPrune(w) ==
    /\ pc[w] = "select" /\ pass[w].todo = {}
    /\ IF pass[w].processed = {}
       THEN EndPass(w)
       ELSE Goto(w, "prune", [NoPass EXCEPT !.index = pass[w].index,
                                            !.todo = pass[w].processed])
    /\ UNCHANGED <<outboxVars, lifecycle, authorityVars, legacy, maint>>

PruneShard(w, s) ==
    LET rest == pass[w].todo \ {s}
    IN  /\ pc[w] = "prune" /\ s \in pass[w].todo
        /\ \/ Prune(s, BatchLimit)
           \/ ~ CanPrune(s) /\ UNCHANGED outboxVars
        /\ IF rest = {} THEN EndPass(w)
           ELSE Goto(w, "prune", [pass[w] EXCEPT !.todo = rest])
        /\ UNCHANGED <<lifecycle, authorityVars, legacy, maint>>

\* A crash, a cancellation or a storage error between two steps.
FailPass(w) ==
    /\ w \in MayFail /\ pc[w] # "idle"
    /\ EndPass(w)
    /\ UNCHANGED <<outboxVars, lifecycle, authorityVars, legacy, maint>>

WorkerStep(w) ==
    \/ \E s \in Shard : \/ SnapshotHighWater(w, s) \/ ReadWatermark(w, s)
                        \/ SelectShard(w, s) \/ PruneShard(w, s)
    \/ ReadControl(w) \/ CompareConsumer(w) \/ MarkRebuildRequired(w)
    \/ LoadWatermark(w) \/ AcquireLease(w) \/ ReadState(w) \/ ReadEvents(w)
    \/ ApplyBatch(w) \/ ApplyFenced(w)
    \/ Acknowledge(w) \/ BeginPrune(w)

--------------------------------------------------------------------------------
(* Offline operations.  Each waits until no operation is in flight, then   *)
(* owns the gate and the data root alone; a crash or an error between two  *)
(* of its transactions leaves the catalog where it was.                    *)

Quiescent == GateOpen /\ legacy = "idle" /\ \A w \in Worker : pc[w] = "idle"

\* GlobalIndexLifecycle::can_transition_to, Ready reserved for publication.
CanTransition(from, to) ==
    \/ from = "Creating" /\ to \in {"Invalid", "Dropping"}
    \/ from = "Ready" /\ to \in {"Invalid", "Rebuilding", "Dropping"}
    \/ from = "Invalid" /\ to \in {"Rebuilding", "Dropping"}
    \/ from = "Rebuilding" /\ to \in {"Invalid", "Dropping"}

TransitionIndex(i) ==
    /\ Quiescent
    /\ \E target \in Lifecycle : /\ CanTransition(lifecycle[i], target)
                                 /\ lifecycle' = [lifecycle EXCEPT ![i] = target]
    /\ UNCHANGED <<outboxVars, authorityVars, workerVars, legacy, maint>>

Maintain(i, phase, todo) == maint' = [phase |-> phase, index |-> i, todo |-> todo]

\* build_global_index of a new index, rebuild_global_index of an existing one.
BeginBuild(i) ==
    /\ Quiescent
    /\ lifecycle[i] \in {"Creating", "Ready", "Invalid", "Rebuilding"}
    /\ lifecycle' = [lifecycle EXCEPT ![i] = IF @ = "Creating" THEN @ ELSE "Rebuilding"]
    /\ Maintain(i, "prepare", {})
    /\ UNCHANGED <<outboxVars, authorityVars, workerVars, legacy>>

\* Deleting the builds row of an index deletes every row that depends on it
\* (ON DELETE CASCADE): reset_build, remove_artifacts.
DiscardBuild(i) ==
    /\ built' = [built EXCEPT ![i] = FALSE]
    /\ checkpoint' = [checkpoint EXCEPT ![i] = [s \in Shard |-> NoImage]]
    /\ entries' = [entries EXCEPT ![i] = [s \in Shard |-> EmptyImage]]
    /\ applied' = [applied EXCEPT ![i] = [s \in Shard |-> 0]]
    /\ poisoned' = [poisoned EXCEPT ![i] = {}]
    /\ rebuild' = rebuild \cup {i}
    /\ paused' = paused \ {i}
    /\ lease' = [lease EXCEPT ![i] = [s \in Shard |-> FreeLease]]
    /\ repairs' = [repairs EXCEPT ![i] = {}]

\* A complete build is replaced; a partial one is resumed only if every shard it
\* has scanned still looks the way it did then.
CanResume(i) ==
    /\ lifecycle[i] = "Rebuilding" => ~ built[i]
    /\ \A s \in Shard : checkpoint[i][s] \in {NoImage, SourceImage(i, s)}

PrepareBuild ==
    LET i == maint.index
    IN  /\ maint.phase = "prepare"
        /\ IF CanResume(i)
           THEN /\ Maintain(i, "scan", {s \in Shard : checkpoint[i][s] = NoImage})
                /\ UNCHANGED authorityVars
           ELSE /\ Maintain(i, "scan", Shard)
                /\ DiscardBuild(i)
        /\ UNCHANGED <<outboxVars, lifecycle, workerVars, legacy>>

\* One transaction per shard: replace its entries by a scan of the source rows.
ScanShard(s) ==
    LET i == maint.index
    IN  /\ maint.phase = "scan" /\ s \in maint.todo
        /\ entries' = [entries EXCEPT ![i][s] = SourceImage(i, s)]
        /\ checkpoint' = [checkpoint EXCEPT ![i][s] = SourceImage(i, s)]
        /\ built' = [built EXCEPT ![i] = FALSE]
        /\ Maintain(i, "scan", maint.todo \ {s})
        /\ UNCHANGED <<outboxVars, lifecycle, applied, poisoned, rebuild, paused,
                       lease, repairs, workerVars, legacy>>

\* verify_checkpoint_sources and validate_physical_contents: every shard has a
\* checkpoint, and source, checkpoint and entries agree; otherwise an error.
ShardValid(i, s) ==
    checkpoint[i][s] = SourceImage(i, s) /\ entries[i][s] = SourceImage(i, s)

VerifyBuild ==
    LET i == maint.index
    IN  /\ maint.phase = "scan" /\ maint.todo = {}
        /\ IF \A s \in Shard : ShardValid(i, s)
           THEN Maintain(i, "activate", Shard)
           ELSE maint' = NoMaint
        /\ UNCHANGED <<outboxVars, lifecycle, authorityVars, workerVars, legacy>>

ActivateShard(s) ==
    /\ maint.phase = "activate" /\ s \in maint.todo
    /\ ActivateIndex(maint.index, s, last[s])
    /\ Maintain(maint.index, "activate", maint.todo \ {s})
    /\ UNCHANGED <<lifecycle, authorityVars, workerVars, legacy>>

\* initialize_index with build_state = COMPLETE, in one transaction.
InitializeIndex ==
    LET i == maint.index
    IN  /\ maint.phase = "activate" /\ maint.todo = {}
        /\ built' = [built EXCEPT ![i] = TRUE]
        /\ rebuild' = rebuild \ {i}
        /\ paused' = paused \ {i}
        /\ applied' = [applied EXCEPT ![i] = [s \in Shard |-> last[s]]]
        /\ poisoned' = [poisoned EXCEPT ![i] = {}]
        /\ lease' = [lease EXCEPT ![i] = [s \in Shard |-> FreeLease]]
        /\ Maintain(i, "publish", {})
        /\ UNCHANGED <<outboxVars, lifecycle, checkpoint, entries, repairs,
                       workerVars, legacy>>

PublishReady ==
    /\ maint.phase = "publish"
    /\ lifecycle' = [lifecycle EXCEPT ![maint.index] = "Ready"]
    /\ maint' = NoMaint
    /\ UNCHANGED <<outboxVars, authorityVars, workerVars, legacy>>

\* remove_global_index: consumers first, then the artifacts and the definition.
BeginRemove(i) ==
    /\ Quiescent /\ lifecycle[i] = "Dropping"
    /\ Maintain(i, "deactivate", Shard)
    /\ UNCHANGED <<outboxVars, lifecycle, authorityVars, workerVars, legacy>>

DeactivateShard(s) ==
    /\ maint.phase = "deactivate" /\ s \in maint.todo
    /\ DeactivateIndex(maint.index, s)
    /\ Maintain(maint.index, "deactivate", maint.todo \ {s})
    /\ UNCHANGED <<lifecycle, authorityVars, workerVars, legacy>>

\* remove_artifacts deletes the build in the authority file, then the catalog entry goes: two
\* transactions, alone behind the gate; a crash between them leaves a Dropping index that
\* a repeated removal finishes.
RemoveIndex ==
    LET i == maint.index
    IN  /\ maint.phase = "deactivate" /\ maint.todo = {}
        /\ DiscardBuild(i)
        /\ lifecycle' = [lifecycle EXCEPT ![i] = "Dropped"]
        /\ maint' = NoMaint
        /\ UNCHANGED <<outboxVars, workerVars, legacy>>

AbandonMaintenance ==
    /\ maint.phase # "none"
    /\ maint' = NoMaint
    /\ UNCHANGED <<outboxVars, lifecycle, authorityVars, workerVars, legacy>>

\* Database::prune_global_index_outbox, which takes no schema operation.
PruneOutbox(s) ==
    /\ Prune(s, BatchLimit)
    /\ UNCHANGED <<lifecycle, authorityVars, workerVars, legacy, maint>>

--------------------------------------------------------------------------------
(* The specification.                                                      *)

Writers == Write

LegacyWriter == LegacyFence \/ LegacyWrite \/ LegacyError

Operators == (\E i \in Index : SetPaused(i)) \/ (\E s \in Shard : PruneOutbox(s))

Passes ==
    \/ \E w \in Worker, i \in Index : BeginPass(w, i)
    \/ \E w \in Worker : WorkerStep(w)

Workers == Passes \/ \E w \in Worker : FailPass(w)

Rejections == \E w \in Worker : RejectBatch(w) \/ RecordPoison(w)

Expiry == \E i \in Index, s \in Shard : Expire(i, s)

BuildStep ==
    \/ \E s \in Shard : ScanShard(s) \/ ActivateShard(s)
    \/ PrepareBuild \/ VerifyBuild \/ InitializeIndex \/ PublishReady

\* The first build of the indexes, for models without later offline operations.
FirstBuild == (\E i \in Index : lifecycle[i] = "Creating" /\ BeginBuild(i)) \/ BuildStep

RemoveStep == (\E s \in Shard : DeactivateShard(s)) \/ RemoveIndex

Maintenance ==
    \/ \E i \in Index : TransitionIndex(i) \/ BeginBuild(i) \/ BeginRemove(i)
    \/ BuildStep \/ RemoveStep \/ AbandonMaintenance

Online == Writers \/ LegacyWriter \/ Operators \/ Workers \/ Rejections \/ Expiry

Next == Online \/ Maintenance

Spec == AsyncInit /\ [][Next]_vars

--------------------------------------------------------------------------------
(* What asynchronous maintenance promises.                                 *)

\* A query may use the index: it is Ready and not fenced as rebuild_required.
Trusted(i) == lifecycle[i] = "Ready" /\ i \notin rebuild

\* Stored events past the watermark that decide what the index holds for l.
Pending(i, s, l) ==
    {c \in StoredEvents(i, s, applied[i][s], last[s]) : Touches(events[s][c], l)}

Replays(i) ==
    Trusted(i) => \A s \in Shard, l \in Locator :
        RowKey(i, rows[s][l]) =
            IF Pending(i, s, l) = {} THEN entries[i][s][l]
            ELSE KeyAfter(events[s][Max(Pending(i, s, l))], l)

\* Replaying the events past the watermark on top of the index entries yields
\* exactly the keys of the source rows, whatever the workers, crashes, lease
\* takeovers, prunes, pauses, rebuilds and legacy writes so far
\* (apply_batch, append_events, prune and initialize_index together).
ReplayTruth == \A i \in Index : Replays(i)

AckBehind(i) ==
    lifecycle[i] = "Ready" => \A s \in Shard : /\ IsActive(s, i)
                                              /\ consumer[s][i].cursor <= applied[i][s]
                                              /\ applied[i][s] <= last[s]

\* "Applied shard cursors advance only after the authority commit": the
\* acknowledgement of a Ready index never passes its watermark, so no prune can
\* delete an event it still has to apply (advance_consumer after apply_batch).
AckBehindWatermark == \A i \in Index : AckBehind(i)

--------------------------------------------------------------------------------
(* Why these two hold: what else is true in every reachable state.         *)

\* An offline operation runs alone, on an index that is out of service.
OfflineAlone ==
    maint.phase # "none" => /\ lifecycle[maint.index] # "Ready"
                            /\ legacy = "idle"
                            /\ \A w \in Worker : pc[w] = "idle"

\* What a build has established before it publishes its index.
BuildStage ==
    LET i == maint.index
    IN  /\ maint.phase \in {"activate", "publish"} =>
              \A s \in Shard : entries[i][s] = SourceImage(i, s)
        /\ maint.phase = "activate" =>
              \A s \in Shard \ maint.todo : IsActive(s, i) /\ consumer[s][i].cursor = last[s]
        /\ maint.phase = "publish" =>
              \A s \in Shard : /\ IsActive(s, i) /\ consumer[s][i].cursor = last[s]
                              /\ applied[i][s] = last[s]

LegacyFenced == legacy = "fenced" => ReadyIndexes \subseteq rebuild

\* What a worker read earlier bounds what it finds later.
PassBounds(w) ==
    LET i == pass[w].index
        s == pass[w].shard
    IN  /\ pc[w] # "idle" => /\ lifecycle[i] = "Ready"
                             /\ \A t \in Shard : pass[w].wm[t] <= applied[i][t]
        /\ pc[w] = "acknowledge" => pass[w].through <= applied[i][s]
        /\ pc[w] \in {"lease", "read", "events", "apply", "poison"} =>
              pass[w].after <= applied[i][s]
        /\ pc[w] \in {"events", "apply", "poison"} =>
              pass[w].after <= pass[w].high /\ pass[w].high <= last[s]
        /\ pc[w] \in {"apply", "poison"} =>
              BatchCursors(pass[w].batch) \subseteq (pass[w].after + 1)..pass[w].high

\* A batch that may still be applied holds every event of its index up to the
\* cursor it will claim.
BatchCurrent(w) ==
    LET i == pass[w].index
        s == pass[w].shard
        batch == pass[w].batch
    IN  pc[w] \in {"apply", "poison"} /\ applied[i][s] = pass[w].after =>
            \A c \in (pass[w].after + 1)..AppliedThrough(batch, pass[w].high) :
                batch[c] = IF events[s][c].index = i THEN events[s][c] ELSE NoEvent

\* What maintenance keeps true of the indexes I.
MaintenanceOf(I) ==
    /\ OfflineAlone
    /\ BuildStage
    /\ LegacyFenced
    /\ \A w \in Worker : PassBounds(w) /\ (pass[w].index \in I => BatchCurrent(w))
    /\ \A i \in I : AckBehind(i) /\ Replays(i)

\* The inductive invariant behind ReplayTruth (initialize_index, publication,
\* process_shard and apply_batch, fence_uncoordinated_nonunique_write).
MaintenanceInv == MaintenanceOf(Index)

--------------------------------------------------------------------------------
(* Further promises.                                                       *)

MidDrain(w) == pc[w] \in {"read", "events", "apply", "poison"}

\* A fence token identifies one owner: two owners draining the same stream never carry
\* the same token, across takeovers and resets (acquire_lease).  Passes that threads of
\* one handle start at once are one owner and renew one lease.
FencesDistinct ==
    \A v, w \in Worker :
        /\ v # w /\ MidDrain(v) /\ MidDrain(w)
        /\ pass[v].index = pass[w].index /\ pass[v].shard = pass[w].shard
        => pass[v].fence # pass[w].fence

\* A watermark only moves forward while its index is Ready; only discarding the
\* build (reset_build) takes it back.
WatermarkMonotone ==
    [][\A i \in Index, s \in Shard :
          lifecycle[i] = "Ready" => applied'[i][s] >= applied[i][s]]_vars

\* A poisoned stream stands still: neither its watermark nor its entries change
\* until a rebuild resets it (record_poison, apply_batch, initialize_index).
PoisonStops ==
    [][\A i \in Index, s \in Shard :
          s \in poisoned[i] /\ maint.phase = "none" =>
              /\ applied'[i][s] = applied[i][s]
              /\ entries'[i][s] = entries[i][s]
              /\ s \in poisoned'[i]]_vars

\* "A cursor behind a pruned prefix is fenced as `rebuild_required`" and "More
\* than one worker or process may run safely" (docs/GLOBAL_INDEX_ASYNC.md): a
\* worker takes an index out of service only when a stream of it is really lost,
\* its consumer missing or its watermark behind the pruned prefix.
FencedOnlyWhenLost ==
    [][\A w \in Worker : MarkRebuildRequired(w) =>
          \/ pass[w].index \in rebuild
          \/ \E s \in Shard : \/ ~ IsActive(s, pass[w].index)
                             \/ applied[pass[w].index][s] < pruned[s]]_vars
================================================================================
