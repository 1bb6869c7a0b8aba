---------------------------- MODULE GlobalIndexRead ----------------------------
(***************************************************************************)
(* Exact-key queries through a non-unique global index                     *)
(* (global_index::verify_nonunique_candidates and the routing step of      *)
(* core/planner.rs) while writers, legacy writers, workers and operators   *)
(* run.                                                                    *)
(*                                                                         *)
(* A query captures one high-water mark per shard, reads watermarks and    *)
(* candidates in one authority transaction, verifies every candidate in    *)
(* its own source shard, queues and applies tombstones for the stale ones  *)
(* in two further transactions, and ends with the set of shards the        *)
(* statement will be executed on.                                          *)
(***************************************************************************)
EXTENDS GlobalIndexAsync

CONSTANTS
    Reader,         \* concurrent queries
    MaxCandidates   \* MAX_GLOBAL_INDEX_READ_CANDIDATES

ASSUME ReadAssumption == MaxCandidates \in Nat

VARIABLE read   \* read[r]: the local state of query r

readVars == <<vars, read>>

Candidate == Shard \X Locator

\* must is a history variable: the shards that have held a row with the key at
\* every moment since the query began.
Read == [step : {"idle", "require", "authority", "verify", "apply", "done"},
         index : Index, key : Key \cup {NoKey}, must : SUBSET Shard, todo : SUBSET Shard,
         need : [Shard -> Cursor], uncertain : SUBSET Shard,
         candidates : SUBSET Candidate, owners : SUBSET Shard,
         stale : SUBSET Candidate]

NoRead == [step |-> "idle", index |-> CHOOSE i \in Index : TRUE,
           key |-> NoKey, must |-> {}, todo |-> {},
           need |-> [s \in Shard |-> 0], uncertain |-> {}, candidates |-> {},
           owners |-> {}, stale |-> {}]

ReadTypeOK == AsyncTypeOK /\ read \in [Reader -> Read]

ReadInit == AsyncInit /\ read = [r \in Reader |-> NoRead]

\* The shards of a table that hold a row with key k of index i.
Holding(table, i, k) == {s \in Shard : \E l \in Locator : RowKey(i, table[s][l]) = k}

Become(r, local) == read' = [read EXCEPT ![r] = local]

--------------------------------------------------------------------------------
(* The steps of a query.                                                   *)

BeginRead(r, i, k) ==
    /\ GateOpen /\ read[r].step = "idle" /\ lifecycle[i] = "Ready"
    /\ Become(r, [NoRead EXCEPT !.step = "require", !.index = i, !.key = k,
                                !.must = Holding(rows, i, k), !.todo = Shard])
    /\ UNCHANGED vars

\* Mutant: the requirement is no cursor the outbox can reach.
CaptureUnbounded(r, s) ==
    /\ read[r].step = "require" /\ s \in read[r].todo
    /\ LET rest == read[r].todo \ {s}
       IN  Become(r, [read[r] EXCEPT !.step = IF rest = {} THEN "authority" ELSE @,
                                     !.todo = rest, !.need[s] = MaxCursor + 1])
    /\ UNCHANGED vars

\* snapshot_high_waters, one shard file after the other.
CaptureRequirement(r, s) ==
    /\ read[r].step = "require" /\ s \in read[r].todo
    /\ LET rest == read[r].todo \ {s}
       IN  Become(r, [read[r] EXCEPT !.step = IF rest = {} THEN "authority" ELSE @,
                                     !.todo = rest, !.need[s] = last[s]])
    /\ UNCHANGED vars

\* uncertain_shards: a shard is certain only when its poison-free watermark
\* covers the requirement; any tombstone makes every shard uncertain.
FreshFor(i, s, required) == s \notin poisoned[i] /\ applied[i][s] >= required

UncertainShards(i, need) ==
    IF i \in rebuild \/ repairs[i] # {} THEN Shard
    ELSE {s \in Shard : ~ FreshFor(i, s, need[s])}

\* read_nonunique_candidates: entries with the key that no tombstone hides.
CandidatesFor(i, k) ==
    {c \in Candidate :
        /\ entries[i][c[1]][c[2]] = k
        /\ \A t \in repairs[i] :
              t.state = 2 => ~ (t.shard = c[1] /\ t.locator = c[2] /\ t.key = k)}

\* Too many candidates: the plan keeps every shard.
ReadAuthority(r) ==
    LET i == read[r].index
        found == CandidatesFor(i, read[r].key)
    IN  /\ read[r].step = "authority"
        /\ IF Cardinality(found) > MaxCandidates
           THEN Become(r, [read[r] EXCEPT !.step = "done", !.uncertain = Shard])
           ELSE Become(r, [read[r] EXCEPT !.step = "verify", !.candidates = found,
                                          !.uncertain = UncertainShards(i, read[r].need)])
        /\ UNCHANGED vars

\* One lookup by locator in the candidate's shard: the row has the key, or the
\* candidate is stale (MissingRow, MismatchedKey).
VerifyCandidate(r, c) ==
    /\ read[r].step = "verify" /\ c \in read[r].candidates
    /\ IF RowKey(read[r].index, rows[c[1]][c[2]]) = read[r].key
       THEN Become(r, [read[r] EXCEPT !.candidates = @ \ {c}, !.owners = @ \cup {c[1]}])
       ELSE Become(r, [read[r] EXCEPT !.candidates = @ \ {c}, !.stale = @ \cup {c}])
    /\ UNCHANGED vars

Tombstone(r, c, state) ==
    [shard |-> c[1], locator |-> c[2], key |-> read[r].key, state |-> state]

\* queue_and_apply_read_repairs, first transaction: a tombstone that already
\* exists keeps its state.
QueueRepairs(r) ==
    LET i == read[r].index
        queued == {c \in read[r].stale : Tombstone(r, c, 2) \notin repairs[i]}
    IN  /\ read[r].step = "verify" /\ read[r].candidates = {} /\ read[r].stale # {}
        /\ repairs' = [repairs EXCEPT ![i] = @ \cup {Tombstone(r, c, 1) : c \in queued}]
        /\ Become(r, [read[r] EXCEPT !.step = IF queued = {} THEN "done" ELSE "apply",
                                     !.candidates = queued])
        /\ UNCHANGED <<outboxVars, lifecycle, built, checkpoint, entries, applied,
                       poisoned, rebuild, paused, lease, workerVars, legacy, maint>>

\* Second transaction: UPDATE ... SET repair_state = 2 WHERE repair_state = 1.
ApplyRepairs(r) ==
    LET i == read[r].index
        pending == {c \in read[r].candidates : Tombstone(r, c, 1) \in repairs[i]}
    IN  /\ read[r].step = "apply"
        /\ repairs' = [repairs EXCEPT ![i] =
              (@ \ {Tombstone(r, c, 1) : c \in pending})
                 \cup {Tombstone(r, c, 2) : c \in pending}]
        /\ Become(r, [read[r] EXCEPT !.step = "done", !.candidates = {}])
        /\ UNCHANGED <<outboxVars, lifecycle, built, checkpoint, entries, applied,
                       poisoned, rebuild, paused, lease, workerVars, legacy, maint>>

\* No stale candidate, or a repair transaction that fails (repairs_deferred).
FinishRead(r) ==
    /\ \/ read[r].step = "verify" /\ read[r].candidates = {}
       \/ read[r].step = "apply"
    /\ Become(r, [read[r] EXCEPT !.step = "done", !.candidates = {}])
    /\ UNCHANGED vars

\* Mutant: a stale candidate does not widen the plan.
TargetShardsOwnersOnly(r) == read[r].owners \cup read[r].uncertain

\* target_shards: verified owners and uncertain shards; one stale candidate
\* makes every shard uncertain.
TargetShards(r) ==
    read[r].owners \cup (IF read[r].stale # {} THEN Shard ELSE read[r].uncertain)

\* The statement runs, or the query is cancelled or passes its deadline.
EndRead(r) ==
    /\ read[r].step # "idle"
    /\ Become(r, NoRead)
    /\ UNCHANGED vars

ReadStep(r) ==
    \/ \E i \in Index, k \in Key : BeginRead(r, i, k)
    \/ \E s \in Shard : CaptureRequirement(r, s)
    \/ ReadAuthority(r)
    \/ \E c \in Candidate : VerifyCandidate(r, c)
    \/ QueueRepairs(r) \/ ApplyRepairs(r) \/ FinishRead(r) \/ EndRead(r)

--------------------------------------------------------------------------------
(* Composition with maintenance: offline operations wait for the queries.  *)

StillHeld ==
    read' = [r \in Reader |-> [read[r] EXCEPT !.must =
                @ \cap Holding(rows', read[r].index, read[r].key)]]

ReadersIdle == \A r \in Reader : read[r].step = "idle"

ReadNext ==
    \/ \E r \in Reader : ReadStep(r)
    \/ Online /\ StillHeld
    \/ ReadersIdle /\ Maintenance /\ UNCHANGED read

ReadSpec == ReadInit /\ [][ReadNext]_readVars

--------------------------------------------------------------------------------
(* What a query may rely on.                                               *)

\* "A shard is excluded only when its poison-free watermark covers that shard's
\* requirement.  Lag therefore costs extra SQLite scans, never missing rows"
\* (docs/GLOBAL_INDEX_ASYNC.md): a shard that held a matching row during the whole
\* planning of a query is among the shards the statement runs on, even when rows
\* move, workers replay and tombstones appear meanwhile
\* (verify_nonunique_candidates, apply_global_index_routing).
ReadComplete ==
    \A r \in Reader : read[r].step = "done" => read[r].must \subseteq TargetShards(r)
================================================================================
