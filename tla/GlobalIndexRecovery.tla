-------------------------- MODULE GlobalIndexRecovery --------------------------
(***************************************************************************)
(* Offline validation and repair of a non-unique global index              *)
(* (Storage::validate_global_index, Storage::repair_global_index and       *)
(* global_index::validate_index) on top of asynchronous maintenance.       *)
(*                                                                         *)
(* Both operations fence the index as Rebuilding, compare the entries with *)
(* a scan of the source rows and publish Ready when they agree.  Repair    *)
(* rescans the shards that disagree and restarts the watermarks; an index  *)
(* that is found valid keeps its watermarks and its outbox consumers.      *)
(***************************************************************************)
EXTENDS GlobalIndexAsync

VARIABLE
    undrained    \* history: the Ready indexes that a validation put back into service
                 \* before their watermarks had reached the end of every outbox

recoveryVars == <<vars, undrained>>

\* Mutant: a complete build is taken to be a valid one.
IndexValidIfBuilt(i) == built[i]

\* validate_index: a complete build whose shards all agree with their sources.
IndexValid(i) == built[i] /\ \A s \in Shard : ShardValid(i, s)

\* validate_global_index and repair_global_index first publish Rebuilding.
BeginValidate(i) ==
    /\ Quiescent
    /\ lifecycle[i] \in {"Ready", "Invalid", "Rebuilding"}
    /\ lifecycle' = [lifecycle EXCEPT ![i] = "Rebuilding"]
    /\ Maintain(i, "validate", {})
    /\ UNCHANGED <<outboxVars, authorityVars, workerVars, legacy>>

\* A clean result publishes Ready, a finding Invalid.  (Full validation also
\* compares source ordinals, which later inserts leave out of scan order, so it may
\* reject entries that are right.)
FinishValidate ==
    /\ maint.phase = "validate"
    /\ \E verdict \in {"Ready", "Invalid"} :
          /\ verdict = "Ready" => IndexValid(maint.index)
          /\ lifecycle' = [lifecycle EXCEPT ![maint.index] = verdict]
    /\ maint' = NoMaint
    /\ UNCHANGED <<outboxVars, authorityVars, workerVars, legacy>>

\* Repair rescans the shards with findings, then activates and initializes.
BeginRepair ==
    LET i == maint.index
        broken == {s \in Shard : ~ ShardValid(i, s)}
    IN  /\ maint.phase = "validate" /\ ~ IndexValid(i)
        /\ Maintain(i, "scan", IF built[i] THEN broken ELSE Shard)
        /\ UNCHANGED <<outboxVars, lifecycle, authorityVars, workerVars, legacy>>

Recovery == (\E i \in Index : BeginValidate(i)) \/ FinishValidate \/ BeginRepair

--------------------------------------------------------------------------------
(* The specification.  Nothing in validate_global_index asks whether the   *)
(* events of the index are all replayed; undrained records where they were *)
(* not.                                                                    *)

Drained(i) == \A s \in Shard : applied[i][s] = last[s]

Remember ==
    undrained' = {i \in Index :
                     /\ lifecycle'[i] = "Ready"
                     /\ \/ i \in undrained
                        \/ maint.phase = "validate" /\ maint.index = i /\ ~ Drained(i)}

RecoveryNext == (Next \/ Recovery) /\ Remember

RecoverySpec == AsyncInit /\ undrained = {} /\ [][RecoveryNext]_recoveryVars

--------------------------------------------------------------------------------
(* What validation and repair promise.                                     *)

Complete(i) ==
    \A s \in Shard : Trusted(i) /\ s \notin poisoned[i] /\ applied[i][s] >= last[s] =>
        \A l \in Locator : RowKey(i, rows[s][l]) # NoKey =>
            entries[i][s][l] = RowKey(i, rows[s][l])

\* "Lag therefore costs extra SQLite scans, never missing rows"
\* (docs/GLOBAL_INDEX_ASYNC.md): an index that a query trusts and whose watermark
\* covers the outbox holds every key of the source rows.
FreshIndexComplete == \A i \in Index : Complete(i)

\* What the code keeps of that promise: it fails only for an index that a validation
\* put back into service with events still to replay, and only until that index
\* leaves service; rebuilding it, or validating it with nothing left to replay, makes it
\* whole (validate_global_index, initialize_index, apply_batch).
FreshUnlessUndrained == \A i \in Index \ undrained : Complete(i)

\* A complete build keeps its outbox consumers until its index is dropped.
ConsumersKept ==
    \A i \in Index : built[i] /\ lifecycle[i] \notin {"Dropping", "Dropped"} =>
        \A s \in Shard : IsActive(s, i)

OfflineStage ==
    /\ maint.phase = "deactivate" => lifecycle[maint.index] = "Dropping"
    /\ maint.phase = "validate" => lifecycle[maint.index] = "Rebuilding"

\* The inductive invariant behind FreshUnlessUndrained: what maintenance keeps true of
\* every other index survives validations and repairs, of that index and of others
\* (validate_global_index, repair_global_index, initialize_index).
RecoveryInv ==
    /\ MaintenanceOf(Index \ undrained)
    /\ undrained \subseteq ReadyIndexes
    /\ ConsumersKept
    /\ OfflineStage
================================================================================
