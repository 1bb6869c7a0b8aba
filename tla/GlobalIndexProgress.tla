-------------------------- MODULE GlobalIndexProgress --------------------------
(***************************************************************************)
(* Progress of asynchronous maintenance after the first build: worker      *)
(* threads that run their loop (Database::start_global_index_worker) until *)
(* their process dies, beside row writers.                                 *)
(***************************************************************************)
EXTENDS GlobalIndexAsync

VARIABLE stopped   \* workers whose process has died; a restarted one has a new owner_id

progressVars == <<vars, stopped>>

ProgressInit == AsyncInit /\ stopped = {}

Stop(w) ==
    /\ w \in MayFail \ stopped
    /\ stopped' = stopped \cup {w}
    /\ UNCHANGED vars

\* The worker loop: one pass after the other over the Ready indexes.
Visit(w, i) == w \notin stopped /\ BeginPass(w, i) /\ UNCHANGED stopped
Run(w) == w \notin stopped /\ WorkerStep(w) /\ UNCHANGED stopped

\* lease_ms covers one batch: the deadline of a lease does not pass while its
\* holder is alive and between acquire_lease and the end of apply_batch.
InUse(i, s) ==
    \E w \in Worker \ stopped :
        /\ lease[i][s].owner = w /\ pass[w].index = i /\ pass[w].shard = s
        /\ pc[w] \in {"read", "events", "apply"}

Elapse(i, s) == ~ InUse(i, s) /\ Expire(i, s) /\ UNCHANGED stopped

ProgressNext ==
    \/ \E w \in Worker : Stop(w) \/ Run(w) \/ \E i \in Index : Visit(w, i)
    \/ \E i \in Index, s \in Shard : Elapse(i, s)
    \/ (Writers \/ FirstBuild) /\ UNCHANGED stopped

\* A live thread keeps running and its loop comes back to every Ready index;
\* wall-clock time passes every deadline.
Fairness ==
    /\ \A w \in Worker : /\ WF_progressVars(Run(w))
                         /\ \A i \in Index : SF_progressVars(Visit(w, i))
    /\ \A i \in Index, s \in Shard : WF_progressVars(Elapse(i, s))

ProgressSpec == ProgressInit /\ [][ProgressNext]_progressVars /\ Fairness

--------------------------------------------------------------------------------

\* No worker drains index i on shard s: the index is out of service or paused, or
\* its stream is poisoned.
Halted(i, s) == ~ Trusted(i) \/ i \in paused \/ s \in poisoned[i]

\* Every committed event of an index in service is eventually applied although
\* the worker that holds the lease may die between any two steps (the worker
\* loop, the takeover in acquire_lease, apply_batch).
CatchUp ==
    \A i \in Index, s \in Shard, c \in 1..MaxCursor :
        (lifecycle[i] = "Ready" /\ last[s] >= c)
            ~> (applied[i][s] >= c \/ Halted(i, s))

\* "a full outbox returns retryable `Busy`" (docs/GLOBAL_INDEX_AUTHORITY.md): a
\* full outbox whose streams are all in service has room again eventually.
FullOutboxDrains ==
    \A s \in Shard :
        Retained(s) = MaxRetained
            ~> (Retained(s) < MaxRetained \/ \E i \in Index : Halted(i, s))
================================================================================
