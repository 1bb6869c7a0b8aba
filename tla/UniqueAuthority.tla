---------------------------- MODULE UniqueAuthority ----------------------------
(***************************************************************************)
(* The authority of one unique global index: key reservations, the shard   *)
(* commit they protect, finalisation, and the recovery of operations whose *)
(* writer is gone (src/storage/global_index.rs, storage/mod.rs,            *)
(* storage/process_lock.rs, storage/sharded_vtab/write.rs).                *)
(*                                                                         *)
(* A row lives in a shard file; who owns its key is recorded in the        *)
(* separate file global.sqlite.  No transaction spans both, so a writer    *)
(* reserves the keys it changes, commits the row, and finalises the        *)
(* operation.  A lock file per operation, held with flock, tells a live    *)
(* writer from a dead one; the next writer settles the operations of dead  *)
(* ones by looking at the rows.                                            *)
(*                                                                         *)
(* A writer is one process writing through one connection.  Only keys that *)
(* reserve (no NULL part, inside a partial index) are modelled; a row      *)
(* without such a key is a row with NoKey, like no row at all.             *)
(***************************************************************************)
EXTENDS FiniteSets

CONSTANTS
    Shard, Locator,
    Key,          \* canonical keys that reserve
    Writer,
    Operation,    \* random operation identifiers
    NoKey, NoOwner, NoEntry, NoOperation, NoWriter

Owner == Shard \X Locator       \* GlobalIndexOwner
Entry == Key \X Owner           \* a key and the row that has it

ASSUME AuthorityAssumption ==
    /\ NoKey \notin Key
    /\ NoOwner \notin Owner
    /\ NoEntry \notin Entry
    /\ NoOperation \notin Operation
    /\ NoWriter \notin Writer
    /\ Shard # {}

VARIABLES
    rows,          \* rows[o]: the committed key of the row at o, or NoKey
    uniqueKeys,    \* briskdb_global_index_unique_keys: the owner of a key
    entries,       \* briskdb_global_index_entries: one snapshot per shard
    operations,    \* briskdb_global_operations and briskdb_global_unique_mutations
    reservations,  \* briskdb_global_unique_reservations: the operation on a key
    markers,       \* the operation lock files that exist
    lease,         \* lease[p]: the process holding the flock of operation p
    writer,        \* writer[w]: the local state of a write transaction
    degraded       \* processes that recorded corruption and refuse all work

authorityVars == <<uniqueKeys, entries, operations, reservations>>
vars == <<rows, authorityVars, markers, lease, writer, degraded>>

Mutation == [previous : Entry \cup {NoEntry}, new : Entry \cup {NoEntry}]

NoMutation == [previous |-> NoEntry, new |-> NoEntry]

\* Recovering names the steps of recover_global_unique_writes.
Recovering == {"recover", "opened", "locked", "probed", "finalize", "rollback", "settled"}
InTransaction == {"open", "reserved"} \cup Recovering

Local == [step : {"idle", "committed", "aborting", "finished"} \cup InTransaction,
          shard : Shard, mutation : Mutation,
          operation : Operation \cup {NoOperation},  \* its own, or the one it settles
          todo : SUBSET Operation, newMatches : BOOLEAN]

Idle == [step |-> "idle", shard |-> CHOOSE s \in Shard : TRUE, mutation |-> NoMutation,
         operation |-> NoOperation, todo |-> {}, newMatches |-> FALSE]

AuthorityTypeOK ==
    /\ rows \in [Owner -> Key \cup {NoKey}]
    /\ uniqueKeys \in [Key -> Owner \cup {NoOwner}]
    /\ entries \subseteq Entry
    /\ operations \in [Operation -> [state : {"none", "active", "finalized", "rolled_back"},
                                     mutation : Mutation]]
    /\ reservations \in [Key -> Operation \cup {NoOperation}]
    /\ markers \subseteq Operation
    /\ lease \in [Operation -> Writer \cup {NoWriter}]
    /\ writer \in [Writer -> Local]
    /\ degraded \subseteq Writer

--------------------------------------------------------------------------------
(* Rows, mutations and what the authority says about them.                 *)

Holders(k) == {o \in Owner : rows[o] = k}

\* What a build stores: owners and snapshot taken from the rows.
RowOwners ==
    [k \in Key |-> IF Holders(k) = {} THEN NoOwner ELSE CHOOSE o \in Holders(k) : TRUE]

RowEntries == {e \in Entry : rows[e[2]] = e[1]}

\* The keys a mutation locks (affected_unique_entries, insert_unique_locks).
KeysOf(m) == {e[1] : e \in {m.previous, m.new} \ {NoEntry}}

\* A single-shard transaction changes at most one authoritative row: the row
\* previous loses its key, the row new gets its key.  Every other case of the
\* capture is refused (collapse_global_unique_mutations).
IsMutation(s, m) ==
    /\ m.previous # m.new
    /\ m.previous # NoEntry =>
          m.previous[2][1] = s /\ rows[m.previous[2]] = m.previous[1]
    /\ m.new # NoEntry =>
          /\ m.new[2][1] = s
          /\ \/ rows[m.new[2]] = NoKey
             \/ m.previous # NoEntry /\ m.previous[2] = m.new[2]

RowsAfter(m) ==
    [o \in Owner |-> IF m.new # NoEntry /\ m.new[2] = o THEN m.new[1]
                     ELSE IF m.previous # NoEntry /\ m.previous[2] = o THEN NoKey
                     ELSE rows[o]]

\* refresh_unique_shard_snapshot: append or rebuild, the entries of the shards
\* become their committed rows.
Refreshed(shards) ==
    {e \in entries : e[2][1] \notin shards}
       \cup {e \in RowEntries : e[2][1] \in shards}

\* finalize_stored_unique_mutation: hand over, release, publish.
KeysAfter(m) ==
    [k \in Key |-> IF m.new # NoEntry /\ m.new[1] = k THEN m.new[2]
                   ELSE IF m.previous # NoEntry /\ m.previous[1] = k THEN NoOwner
                   ELSE uniqueKeys[k]]

\* Its row counts: the previous owner is still recorded, a new key is unowned.
CanFinalize(m) ==
    /\ m.previous # NoEntry => uniqueKeys[m.previous[1]] = m.previous[2]
    /\ (m.new # NoEntry /\ (m.previous = NoEntry \/ m.previous[1] # m.new[1]))
          => uniqueKeys[m.new[1]] = NoOwner

\* The shards whose snapshot a finalisation refreshes.
ShardsOf(m) == {e[2][1] : e \in {m.previous, m.new} \ {NoEntry}}

\* Mutant: a reservation of another operation does not matter.
CanReserveOwned(m) == CanFinalize(m)

\* reserve_unique: the same two checks, and no reservation on an affected key.
CanReserve(m) ==
    /\ CanFinalize(m)
    /\ \A k \in KeysOf(m) : reservations[k] = NoOperation

AuthorityInit ==
    /\ rows \in [Owner -> Key \cup {NoKey}]
    /\ \A o, p \in Owner : rows[o] = rows[p] => o = p \/ rows[o] = NoKey
    /\ uniqueKeys = RowOwners
    /\ entries = RowEntries
    /\ operations = [p \in Operation |-> [state |-> "none", mutation |-> NoMutation]]
    /\ reservations = [k \in Key |-> NoOperation]
    /\ markers = {}
    /\ lease = [p \in Operation |-> NoWriter]
    /\ writer = [w \in Writer |-> Idle]
    /\ degraded = {}

--------------------------------------------------------------------------------
(* The write transaction up to its reservation.                            *)

Become(w, local) == writer' = [writer EXCEPT ![w] = local]

\* BEGIN IMMEDIATE on the shard, then the statements; the mutation is what the
\* pre-update capture collapses to.  NoMutation: no authoritative row changed.
OpenTransaction(w, s, m) ==
    /\ writer[w].step = "idle" /\ w \notin degraded
    /\ \A v \in Writer : writer[v].step \in InTransaction => writer[v].shard # s
    /\ m = NoMutation \/ IsMutation(s, m)
    /\ Become(w, [Idle EXCEPT !.step = "open", !.shard = s, !.mutation = m])
    /\ UNCHANGED <<rows, authorityVars, markers, lease, degraded>>

\* active_unique_mutations: the list is read once, before any lock file.
ListActive(w) ==
    /\ writer[w].step = "open"
    /\ Become(w, [writer[w] EXCEPT !.step = "recover",
             !.todo = {p \in Operation : operations[p].state = "active"}])
    /\ UNCHANGED <<rows, authorityVars, markers, lease, degraded>>

\* try_acquire_orphan, the open: an operation without a marker is skipped.
OpenMarker(w, p) ==
    /\ writer[w].step = "recover" /\ p \in writer[w].todo
    /\ Become(w, IF p \in markers
                 THEN [writer[w] EXCEPT !.step = "opened", !.operation = p, !.todo = @ \ {p}]
                 ELSE [writer[w] EXCEPT !.todo = @ \ {p}])
    /\ UNCHANGED <<rows, authorityVars, markers, lease, degraded>>

\* Mutant: the lock of a live writer is taken for free.
LeaseNeverHeld(p) == FALSE

\* WouldBlock: some process holds the flock of p.
LeaseHeld(p) == lease[p] # NoWriter

\* try_acquire_orphan, the lock: an operation of a live writer is skipped.  The
\* lock is on the open file, whether or not its name still exists.
LockMarker(w) ==
    LET p == writer[w].operation
    IN  /\ writer[w].step = "opened"
        /\ IF LeaseHeld(p)
           THEN /\ Become(w, [writer[w] EXCEPT !.step = "recover", !.operation = NoOperation])
                /\ UNCHANGED lease
           ELSE /\ Become(w, [writer[w] EXCEPT !.step = "locked"])
                /\ lease' = [lease EXCEPT ![p] = w]
        /\ UNCHANGED <<rows, authorityVars, markers, degraded>>

\* probe_unique_owner: the row at the entry's owner has the entry's key.
Matches(e) == e # NoEntry /\ rows[e[2]] = e[1]

ProbeNew(w) ==
    /\ writer[w].step = "locked"
    /\ Become(w, [writer[w] EXCEPT !.step = "probed",
             !.newMatches = Matches(operations[writer[w].operation].mutation.new)])
    /\ UNCHANGED <<rows, authorityVars, markers, lease, degraded>>

\* Mutant: a release whose row is gone is rolled back.
DecisionGone(m, previousMatches, newMatches) ==
    IF m.previous = NoEntry THEN IF newMatches THEN "finalize" ELSE "rollback"
    ELSE IF m.new = NoEntry THEN "rollback"
    ELSE IF previousMatches # newMatches THEN IF newMatches THEN "finalize" ELSE "rollback"
    ELSE "ambiguous"

\* decide_orphaned_unique_write
Decision(m, previousMatches, newMatches) ==
    IF m.previous = NoEntry THEN IF newMatches THEN "finalize" ELSE "rollback"
    ELSE IF m.new = NoEntry THEN IF previousMatches THEN "rollback" ELSE "finalize"
    ELSE IF previousMatches # newMatches THEN IF newMatches THEN "finalize" ELSE "rollback"
    ELSE "ambiguous"

\* Mutant: no outcome is treated as an error.
DecideAlways(w) ==
    LET m == operations[writer[w].operation].mutation
    IN  /\ writer[w].step = "probed"
        /\ Become(w, [writer[w] EXCEPT
                 !.step = Decision(m, Matches(m.previous), writer[w].newMatches)])
        /\ UNCHANGED <<rows, authorityVars, markers, lease, degraded>>

\* The second probe and the decision.  An ambiguous outcome is reported as data
\* corruption: the process degrades and its transaction ends.
Decide(w) ==
    LET p == writer[w].operation
        m == operations[p].mutation
        decision == Decision(m, Matches(m.previous), writer[w].newMatches)
    IN  /\ writer[w].step = "probed"
        /\ IF decision = "ambiguous"
           THEN /\ Become(w, Idle)
                /\ lease' = [lease EXCEPT ![p] = NoWriter]
                /\ degraded' = degraded \cup {w}
           ELSE /\ Become(w, [writer[w] EXCEPT !.step = decision])
                /\ UNCHANGED <<lease, degraded>>
        /\ UNCHANGED <<rows, authorityVars, markers>>

--------------------------------------------------------------------------------
(* The transactions of global.sqlite that settle an operation.             *)

Unlocked(p) ==
    [k \in Key |-> IF reservations[k] = p THEN NoOperation ELSE reservations[k]]

\* finalize_unique_write.  An operation that is already rolled back is an error.  The shard
\* is scanned inside the transaction and before its commit, here in one step: the rows of
\* the operation cannot move in between, and whoever moves another row refreshes the
\* entries of the shard again.
FinalizeOperation(p) ==
    LET m == operations[p].mutation
    IN  \/ /\ operations[p].state = "finalized"
           /\ UNCHANGED authorityVars
        \/ /\ operations[p].state = "active" /\ CanFinalize(m)
           /\ operations' = [operations EXCEPT ![p].state = "finalized"]
           /\ uniqueKeys' = KeysAfter(m)
           /\ entries' = Refreshed(ShardsOf(m))
           /\ reservations' = Unlocked(p)

\* rollback_unique.  An operation that is already finalised is an error.
RollBackOperation(p) ==
    /\ operations[p].state \in {"active", "rolled_back"}
    /\ operations' = [operations EXCEPT ![p].state = "rolled_back"]
    /\ reservations' = Unlocked(p)
    /\ UNCHANGED <<uniqueKeys, entries>>

\* Recovery carries out its decision ...
Settle(w) ==
    /\ \/ writer[w].step = "finalize" /\ FinalizeOperation(writer[w].operation)
       \/ writer[w].step = "rollback" /\ RollBackOperation(writer[w].operation)
    /\ Become(w, [writer[w] EXCEPT !.step = "settled"])
    /\ UNCHANGED <<rows, markers, lease, degraded>>

\* remove_global_write_marker, and the end of the guard that holds the flock.
Release(w, local) ==
    LET p == writer[w].operation
    IN  /\ markers' = markers \ {p}
        /\ lease' = [lease EXCEPT ![p] = NoWriter]
        /\ Become(w, local)
        /\ UNCHANGED <<rows, authorityVars, degraded>>

\* ... and goes on to the next operation of its list.
SettleDone(w) ==
    /\ writer[w].step = "settled"
    /\ Release(w, [writer[w] EXCEPT !.step = "recover", !.operation = NoOperation,
                                    !.newMatches = FALSE])

--------------------------------------------------------------------------------
(* Reservation, physical commit, finalisation.                             *)

\* A write that changes no authoritative row repairs the snapshot of its shard
\* (repair_stale_unique_write_snapshots), commits and is done.
RepairSnapshot(w) ==
    /\ writer[w].step = "recover" /\ writer[w].todo = {}
    /\ writer[w].mutation = NoMutation
    /\ entries' = Refreshed({writer[w].shard})
    /\ Become(w, Idle)
    /\ UNCHANGED <<rows, uniqueKeys, operations, reservations, markers, lease, degraded>>

\* reserve_global_unique_write: marker and flock first, then one transaction, here in one
\* step: a marker without an active operation means nothing to anyone.  A conflict is a
\* UniqueViolation and ends the write (Abandon).  A COMMIT of the authority file that
\* reports an error is taken to have written nothing.
Reserve(w, p) ==
    LET m == writer[w].mutation
    IN  /\ writer[w].step = "recover" /\ writer[w].todo = {} /\ m # NoMutation
        /\ operations[p].state = "none" /\ CanReserve(m)
        /\ operations' = [operations EXCEPT ![p] = [state |-> "active", mutation |-> m]]
        /\ reservations' = [k \in Key |-> IF k \in KeysOf(m) THEN p ELSE reservations[k]]
        /\ markers' = markers \cup {p}
        /\ lease' = [lease EXCEPT ![p] = w]
        /\ Become(w, [writer[w] EXCEPT !.step = "reserved", !.operation = p])
        /\ UNCHANGED <<rows, uniqueKeys, entries, degraded>>

\* COMMIT in the shard.
Commit(w) ==
    /\ writer[w].step = "reserved"
    /\ rows' = RowsAfter(writer[w].mutation)
    /\ Become(w, [writer[w] EXCEPT !.step = "committed"])
    /\ UNCHANGED <<authorityVars, markers, lease, degraded>>

\* COMMIT fails, or the transaction is rolled back after its reservation.  Like the code,
\* this takes a shard COMMIT that reports an error to have written nothing.
RollBackRows(w) ==
    /\ writer[w].step = "reserved"
    /\ Become(w, [writer[w] EXCEPT !.step = "aborting"])
    /\ UNCHANGED <<rows, authorityVars, markers, lease, degraded>>

\* finalize_global_unique_write after COMMIT, rollback_global_unique_write after
\* ROLLBACK; both keep the flock.
Complete(w) ==
    /\ \/ writer[w].step = "committed" /\ FinalizeOperation(writer[w].operation)
       \/ writer[w].step = "aborting" /\ RollBackOperation(writer[w].operation)
    /\ Become(w, [writer[w] EXCEPT !.step = "finished"])
    /\ UNCHANGED <<rows, markers, lease, degraded>>

CompleteDone(w) == writer[w].step = "finished" /\ Release(w, Idle)

\* Mutant: a writer that gives up removes its marker although its operation stays.
AbandonUnmarked(w) ==
    /\ writer[w].step # "idle"
    /\ Become(w, Idle)
    /\ lease' = [p \in Operation |-> IF lease[p] = w THEN NoWriter ELSE lease[p]]
    /\ markers' = markers \ {writer[w].operation}
    /\ UNCHANGED <<rows, authorityVars, degraded>>

\* The process dies, or the step in hand fails: an open shard transaction is
\* gone, every flock of the process is free, its markers and what it wrote to
\* global.sqlite stay.  A failed finalisation or rollback of its own operation
\* ends here too: the guard is dropped and the operation stays active.
Abandon(w) ==
    /\ writer[w].step # "idle"
    /\ Become(w, Idle)
    /\ lease' = [p \in Operation |-> IF lease[p] = w THEN NoWriter ELSE lease[p]]
    /\ UNCHANGED <<rows, authorityVars, markers, degraded>>

\* A degraded process is restarted.
Restart(w) ==
    /\ w \in degraded
    /\ degraded' = degraded \ {w}
    /\ UNCHANGED <<rows, authorityVars, markers, lease, writer>>

\* rebuild_global_index, offline: active operations are rolled back, then owners
\* and snapshots are rebuilt from the rows.
Rebuild ==
    /\ \A w \in Writer : writer[w].step = "idle"
    /\ operations' = [p \in Operation |-> IF operations[p].state = "active"
                         THEN [operations[p] EXCEPT !.state = "rolled_back"]
                         ELSE operations[p]]
    /\ reservations' = [k \in Key |-> NoOperation]
    /\ uniqueKeys' = RowOwners
    /\ entries' = RowEntries
    /\ UNCHANGED <<rows, markers, lease, writer, degraded>>

WriterStep(w) ==
    \/ \E s \in Shard, m \in Mutation : OpenTransaction(w, s, m)
    \/ ListActive(w)
    \/ \E p \in Operation : OpenMarker(w, p)
    \/ LockMarker(w) \/ ProbeNew(w) \/ Decide(w) \/ Settle(w) \/ SettleDone(w)
    \/ RepairSnapshot(w)
    \/ \E p \in Operation : Reserve(w, p)
    \/ Commit(w) \/ RollBackRows(w) \/ Complete(w) \/ CompleteDone(w)
    \/ Abandon(w) \/ Restart(w)

AuthorityNext == (\E w \in Writer : WriterStep(w)) \/ Rebuild

AuthoritySpec == AuthorityInit /\ [][AuthorityNext]_vars

--------------------------------------------------------------------------------
(* What the authority promises.                                            *)

\* "cannot exchange or steal keys" (docs/GLOBAL_INDEX_AUTHORITY.md): two
\* committed rows, in whatever shards, never have the same key, although writers
\* die between reservation, commit and finalisation (reserve_unique, commit,
\* recover_global_unique_writes).
UniqueRows == \A o, p \in Owner : rows[o] = rows[p] => o = p \/ rows[o] = NoKey

\* Once no operation is under way on a key, its recorded owner is exactly the row
\* that has it (finalize_stored_unique_mutation, decide_orphaned_unique_write).
OwnerTruth ==
    \A k \in Key : reservations[k] = NoOperation =>
        Holders(k) = {uniqueKeys[k]} \ {NoOwner}

\* An operation under way can always be settled by whoever comes next: its lock file
\* exists, its keys are locked by it, the checks of finalize_stored_unique_mutation
\* hold, and the probes of decide_orphaned_unique_write are never both true or both
\* false for a replacement.
ActiveRecoverable ==
    \A p \in Operation : operations[p].state = "active" =>
        LET m == operations[p].mutation
        IN  /\ p \in markers
            /\ \A k \in KeysOf(m) : reservations[k] = p
            /\ CanFinalize(m)
            /\ Decision(m, Matches(m.previous), Matches(m.new)) # "ambiguous"

\* The keys of m are held as its two sides say: before the commit of m, after it.
Before(m) == \A k \in KeysOf(m) : Holders(k) = {uniqueKeys[k]} \ {NoOwner}
After(m)  == \A k \in KeysOf(m) : Holders(k) = {KeysAfter(m)[k]} \ {NoOwner}

\* Locks and active operations correspond; an active operation can be finalised and
\* the rows are wholly on one of its sides.
OperationInv ==
    /\ \A k \in Key : reservations[k] # NoOperation =>
          /\ operations[reservations[k]].state = "active"
          /\ k \in KeysOf(operations[reservations[k]].mutation)
    /\ \A p \in Operation, m \in Mutation :
          operations[p] = [state |-> "active", mutation |-> m] =>
             /\ p \in markers
             /\ m.previous # m.new
             /\ \A k \in KeysOf(m) : reservations[k] = p
             /\ CanFinalize(m)
             /\ Before(m) \/ After(m)

\* The flock of an operation is held by whoever may settle it.
Holding == {"locked", "probed", "finalize", "rollback", "settled",
            "reserved", "committed", "aborting", "finished"}
LeaseInv ==
    \A w \in Writer :
        /\ writer[w].step \in Holding \cup {"opened"} =>
              /\ writer[w].operation \in Operation
              /\ operations[writer[w].operation].state # "none"
        /\ writer[w].step \in Holding => lease[writer[w].operation] = w
        /\ \A p \in writer[w].todo : operations[p].state # "none"

\* An open transaction still sees the rows its mutation was planned from.
TransactionInv ==
    \A w \in Writer : writer[w].step \in InTransaction =>
        /\ writer[w].mutation = NoMutation \/ IsMutation(writer[w].shard, writer[w].mutation)
        /\ \A v \in Writer \ {w} :
              writer[v].step \in InTransaction => writer[v].shard # writer[w].shard

\* A process knows on which side the rows of its operation are.
Knows(w, p, m) ==
    LET step == writer[w].step
        active == operations[p].state = "active"
    IN  /\ step \in {"reserved", "committed", "aborting"} =>
              active /\ m = writer[w].mutation
        /\ step \in {"settled", "finished"} => ~ active
        /\ step \in {"reserved", "aborting"} => Before(m)
        /\ step = "committed" => After(m)
        /\ step = "probed" /\ active => writer[w].newMatches = Matches(m.new)
        /\ step = "finalize" /\ active => After(m)
        /\ step = "rollback" /\ active => Before(m)

SideInv ==
    \A w \in Writer, p \in Operation, m \in Mutation :
        writer[w].operation = p /\ operations[p].mutation = m => Knows(w, p, m)

\* The snapshot misses no row whose owner is recorded.
SnapshotInv == \A e \in RowEntries : uniqueKeys[e[1]] = e[2] => e \in entries

\* The inductive invariant: why reservations, locks, leases and probes together
\* keep the owners right (reserve_unique, finalize_unique_write,
\* recover_global_unique_writes).
AuthorityInv ==
    /\ OwnerTruth /\ OperationInv /\ LeaseInv /\ TransactionInv /\ SideInv /\ SnapshotInv

\* The register of a key as a caller may think of it: what the operation under way on the
\* key has already made of it, or the recorded owner.
SettledOwner ==
    [k \in Key |->
        LET p == reservations[k]
        IN  IF p # NoOperation /\ After(operations[p].mutation)
            THEN KeysAfter(operations[p].mutation)[k] ELSE uniqueKeys[k]]

Register == INSTANCE UniqueRegister WITH register <- SettledOwner

\* The authority is an atomic register: rows and owners change together, in the commit
\* of a shard, and reservation, finalisation, rollback, the death of a writer and the
\* recovery by another change nothing a caller can see (reserve_unique, commit,
\* finalize_unique_write, decide_orphaned_unique_write).
AtomicRegister == Register!RegisterSpec

\* "A stale marker is harmless once the durable operation is no longer active;
\* recovery filters by operation state first" (process_lock.rs): a process never
\* reports the outcome of an orphaned write as corruption.
RecoveryNeverCorrupt == degraded = {}
================================================================================
