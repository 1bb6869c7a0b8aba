---------------------------- MODULE IdempotentWrite ----------------------------
(***************************************************************************)
(* Durable idempotent writes (core/engine.rs execute_idempotent_write,     *)
(* storage/idempotency.rs, the stripes of storage/process_lock.rs).        *)
(*                                                                         *)
(* A keyed write asks every shard for a receipt of its key, answers from   *)
(* the receipt it finds, or commits the row change and a new receipt in    *)
(* one transaction of its target shard.  An exact claim in the process and *)
(* a lock stripe of the root keep writes of one key apart; receipts expire *)
(* by the wall clock, which may jump in either direction.                  *)
(*                                                                         *)
(* A write is a request digest: it fixes the target shard.                 *)
(***************************************************************************)
EXTENDS Integers, FiniteSets

CONSTANTS
    NumShards,
    Key,          \* key digests
    Stripe,       \* Stripe[k]: the lock stripe of a key
    Write,        \* request digests
    Target,       \* Target[w]: the shard that a write changes
    Process,
    Call,         \* requests of clients
    Retention,    \* how long a receipt is valid
    MaxTime,      \* the last time the wall clock shows
    MaxReceipts,  \* unexpired receipts a shard admits
    CleanupLimit, \* expired receipts that one write removes besides its own
    PoolSize,     \* connections of a process to one shard
    Workers,      \* blocking workers of a process
    NoKey, NoWrite, NoReceipt

Shard == 0..NumShards - 1
Time == 0..MaxTime

ASSUME IdempotentAssumption ==
    /\ NumShards \in Nat \ {0}
    /\ Target \in [Write -> Shard]
    /\ Retention \in Nat \ {0} /\ MaxTime \in Nat
    /\ MaxReceipts \in Nat \ {0} /\ CleanupLimit \in Nat \ {0}
    /\ PoolSize \in Nat \ {0} /\ Workers \in Nat \ {0}
    /\ NoKey \notin Key /\ NoWrite \notin Write
    /\ IsFiniteSet(Key) /\ IsFiniteSet(Call)

Receipt == [write : Write, created : Time]
ASSUME NoReceiptAssumption == NoReceipt \notin Receipt

VARIABLES
    home,      \* home[c]: the process that serves call c
    call,      \* call[c]: the local state of a call
    receipts,  \* receipts[s][k]: the row of key k in the receipt table of shard s
    latest,    \* latest[k]: the last committed change under k (history)
    peak,      \* peak[k]: the latest clock reading that can still be acted upon, or has
               \* been acted upon since the last change under k (history)
    repeated   \* keys changed again before any such reading reached the end of the
               \* retention (history)

durable == <<receipts, latest, repeated>>
vars == <<home, call, durable, peak>>

\* permit: waits for connections; scan: has the stripe and looks at shard next; done:
\* has an answer and still holds everything.
Step == {"idle", "permit", "stripe", "scan", "execute", "done"}
Answer == {"none", "created", "replayed", "conflict", "error", "corrupt"}

Local == [step : Step, key : Key \cup {NoKey}, write : Write \cup {NoWrite},
          held : SUBSET Shard,   \* the shards of which it has a connection
          next : 0..NumShards, time : Time, found : Receipt \cup {NoReceipt},
          answer : Answer]

Idle == [step |-> "idle", key |-> NoKey, write |-> NoWrite, held |-> {},
         next |-> 0, time |-> 0, found |-> NoReceipt, answer |-> "none"]

IdempotentTypeOK ==
    /\ home \in [Call -> Process]
    /\ call \in [Call -> Local]
    /\ receipts \in [Shard -> [Key -> Receipt \cup {NoReceipt}]]
    /\ latest \in [Key -> Receipt \cup {NoReceipt}]
    /\ peak \in [Key -> Time]
    /\ repeated \subseteq Key

IdempotentInit ==
    /\ home \in [Call -> Process]
    /\ call = [c \in Call |-> Idle]
    /\ receipts = [s \in Shard |-> [k \in Key |-> NoReceipt]]
    /\ latest = [k \in Key |-> NoReceipt]
    /\ peak = [k \in Key |-> 0]
    /\ repeated = {}

Become(c, local) == call' = [call EXCEPT ![c] = local]

Peers(c) == {d \in Call \ {c} : home[d] = home[c]}

--------------------------------------------------------------------------------
(* Admission.                                                              *)

\* ActiveIdempotencyKeys::try_acquire: one request of a process per key, others are
\* Busy.
Begin(c, k, w) ==
    /\ call[c].step = "idle"
    /\ \A d \in Peers(c) : call[d].key # k
    /\ Become(c, [Idle EXCEPT !.step = "permit", !.key = k, !.write = w])
    /\ UNCHANGED <<home, durable, peak>>

\* Mutant: the connections are taken in any order.
IsNextPermit(c, s) == s \notin call[c].held

\* "Ordered acquisition avoids cycles between concurrent database-wide scans".
NextPermit(c, s) == s \notin call[c].held /\ \A u \in Shard : u < s => u \in call[c].held

\* acquire_for_owner; waits for a free connection of the process.
AcquirePermit(c, s) ==
    /\ call[c].step = "permit" /\ NextPermit(c, s)
    /\ Cardinality({d \in Peers(c) : s \in call[d].held}) < PoolSize
    /\ Become(c, [call[c] EXCEPT !.held = @ \cup {s}])
    /\ UNCHANGED <<home, durable, peak>>

\* BlockingPool::acquire, once every shard has a connection.
AcquireWorker(c) ==
    /\ call[c].step = "permit" /\ call[c].held = Shard
    /\ Cardinality({d \in Peers(c) : call[d].step \in {"stripe", "scan", "execute", "done"}})
          < Workers
    /\ Become(c, [call[c] EXCEPT !.step = "stripe"])
    /\ UNCHANGED <<home, durable, peak>>

\* Mutant: only the calls of the same process are looked at.
StripeFreeHere(c) ==
    \A d \in Peers(c) : call[d].step \in {"scan", "execute", "done"} =>
        Stripe[call[d].key] # Stripe[call[c].key]

\* IdempotencyStripeGuard: the claim of the process and the flock of the stripe file.
StripeFree(c) ==
    \A d \in Call \ {c} : call[d].step \in {"scan", "execute", "done"} =>
        Stripe[call[d].key] # Stripe[call[c].key]

\* The stripe, without waiting, and then the clock.
TakeStripe(c, t) ==
    /\ call[c].step = "stripe"
    /\ IF StripeFree(c)
       THEN /\ Become(c, [call[c] EXCEPT !.step = "scan", !.time = t])
            /\ peak' = [k \in Key |-> IF t > peak[k] THEN t ELSE peak[k]]
       ELSE /\ Become(c, Idle)   \* Busy
            /\ UNCHANGED peak
    /\ UNCHANGED <<home, durable>>

--------------------------------------------------------------------------------
(* Looking for a receipt.                                                  *)

Expired(r, t) == r # NoReceipt /\ r.created + Retention <= t

\* Mutant: an expired receipt is passed over and left where it is.
FindReceiptKept(c) ==
    LET r == receipts[call[c].next][call[c].key]
        passed == [call[c] EXCEPT !.next = @ + 1]
    IN  /\ call[c].step = "scan" /\ call[c].next < NumShards
        /\ \/ r = NoReceipt /\ Become(c, passed)
           \/ Expired(r, call[c].time) /\ Become(c, passed)
           \/ /\ r # NoReceipt /\ ~ Expired(r, call[c].time)
              /\ Become(c, IF call[c].found = NoReceipt THEN [passed EXCEPT !.found = r]
                           ELSE [call[c] EXCEPT !.step = "done", !.answer = "corrupt"])
        /\ UNCHANGED <<home, durable, peak>>

\* find_receipt on one shard: an expired receipt is deleted, a second valid one is
\* corruption.  The deletion is a transaction after the read; nobody else changes the
\* receipt of a key in between, as its stripe is held.
FindReceipt(c) ==
    LET s == call[c].next
        k == call[c].key
        r == receipts[s][k]
        passed == [call[c] EXCEPT !.next = @ + 1]
    IN  /\ call[c].step = "scan" /\ s < NumShards
        /\ \/ /\ r = NoReceipt
              /\ Become(c, passed)
              /\ UNCHANGED receipts
           \/ /\ Expired(r, call[c].time)
              /\ Become(c, passed)
              /\ receipts' = [receipts EXCEPT ![s][k] = NoReceipt]
           \/ /\ r # NoReceipt /\ ~ Expired(r, call[c].time)
              /\ Become(c, IF call[c].found = NoReceipt THEN [passed EXCEPT !.found = r]
                           ELSE [call[c] EXCEPT !.step = "done", !.answer = "corrupt"])
              /\ UNCHANGED receipts
        /\ UNCHANGED <<home, latest, repeated, peak>>

\* Mutant: the request digest is not compared.
AnsweredAny(c, r) == [call[c] EXCEPT !.step = "done", !.answer = "replayed"]

\* idempotency_result_from_receipt
Answered(c, r) ==
    [call[c] EXCEPT !.step = "done",
                    !.answer = IF r.write = call[c].write THEN "replayed" ELSE "conflict"]

\* Mutant: one shard is asked.
ResolveFirst(c) ==
    /\ call[c].step = "scan" /\ call[c].next = 1
    /\ Become(c, IF call[c].found = NoReceipt THEN [call[c] EXCEPT !.step = "execute"]
                 ELSE Answered(c, call[c].found))
    /\ UNCHANGED <<home, durable, peak>>

\* All shards have been asked.
Resolve(c) ==
    /\ call[c].step = "scan" /\ call[c].next = NumShards
    /\ Become(c, IF call[c].found = NoReceipt THEN [call[c] EXCEPT !.step = "execute"]
                 ELSE Answered(c, call[c].found))
    /\ UNCHANGED <<home, durable, peak>>

--------------------------------------------------------------------------------
(* The transaction that changes the row and leaves the receipt.            *)

Without(table, keys) == [k \in Key |-> IF k \in keys THEN NoReceipt ELSE table[k]]
Stale(table, t) == {k \in Key : Expired(table[k], t)}
Active(table, t) == {k \in Key : table[k] # NoReceipt /\ ~ Expired(table[k], t)}

\* Mutant: nothing but the expired receipt of the key is removed.
CleanedOwn(table, t, keys) == keys = {}

\* cleanup_expired: the oldest expired receipts, at most the limit.
Cleaned(table, t, keys) ==
    LET stale == Stale(table, t)
    IN  /\ keys \subseteq stale
        /\ Cardinality(keys) = IF Cardinality(stale) < CleanupLimit
                               THEN Cardinality(stale) ELSE CleanupLimit
        /\ \A k \in keys, l \in stale \ keys : table[k].created <= table[l].created

\* The preflight: delete_expired_key, cleanup_expired.
Preflight(c, table) ==
    LET t == call[c].time
        own == Without(receipts[Target[call[c].write]],
                       {call[c].key} \cap Stale(receipts[Target[call[c].write]], t))
    IN  \E keys \in SUBSET Key : Cleaned(own, t, keys) /\ table = Without(own, keys)

\* The key has a receipt after all.
ExecuteExisting(c, table) ==
    LET s == Target[call[c].write]
    IN  /\ table[call[c].key] # NoReceipt
        /\ receipts' = [receipts EXCEPT ![s] = table]
        /\ Become(c, Answered(c, table[call[c].key]))
        /\ UNCHANGED <<home, latest, repeated, peak>>

\* ensure_capacity refuses; the transaction, its deletions included, is rolled back.
ExecuteRefused(c, table) ==
    LET count == Cardinality(Active(table, call[c].time))
    IN  /\ table[call[c].key] = NoReceipt
        /\ count >= MaxReceipts
        /\ Become(c, [call[c] EXCEPT !.step = "done",
                         !.answer = IF count > MaxReceipts THEN "corrupt" ELSE "error"])
        /\ UNCHANGED <<home, durable, peak>>

\* Mutant: the end of the retention is stored as its beginning.
NewReceiptExpiry(c) == [write |-> call[c].write, created |-> call[c].time + Retention]

NewReceipt(c) == [write |-> call[c].write, created |-> call[c].time]

\* The row and the receipt are committed.  The commit may still be reported as failed.
ExecuteCommit(c, table) ==
    LET s == Target[call[c].write]
        k == call[c].key
        new == NewReceipt(c)
        acting == {d \in Call : call[d].step \in {"scan", "execute"}}
    IN  /\ table[k] = NoReceipt
        /\ Cardinality(Active(table, call[c].time)) < MaxReceipts
        /\ receipts' = [receipts EXCEPT ![s] = [table EXCEPT ![k] = new]]
        /\ latest' = [latest EXCEPT ![k] = new]
        /\ repeated' = IF latest[k] # NoReceipt /\ ~ Expired(latest[k], peak[k])
                       THEN repeated \cup {k} ELSE repeated
        /\ \E t \in Time :
              /\ \E d \in acting : call[d].time = t
              /\ \A d \in acting : call[d].time <= t
              /\ peak' = [peak EXCEPT ![k] = t]
        /\ \E answer \in {"created", "error"} :
              Become(c, [call[c] EXCEPT !.step = "done", !.answer = answer])
        /\ UNCHANGED home

\* execute_with_receipt, one transaction of the target shard.
Execute(c) ==
    /\ call[c].step = "execute"
    /\ \E table \in {Without(receipts[Target[call[c].write]], keys) : keys \in SUBSET Key} :
          /\ Preflight(c, table)
          /\ ExecuteExisting(c, table) \/ ExecuteRefused(c, table) \/ ExecuteCommit(c, table)

\* The answer is returned; connections, worker, stripe and key are free.
EndCall(c) ==
    /\ call[c].step = "done"
    /\ Become(c, Idle)
    /\ UNCHANGED <<home, durable, peak>>

\* A wait is cancelled, a statement fails and its transaction is rolled back, or the
\* process dies: everything the call holds is free.
Fail(c) ==
    /\ call[c].step \notin {"idle", "done"}
    /\ Become(c, Idle)
    /\ UNCHANGED <<home, durable, peak>>

CallStep(c) ==
    \/ (\E s \in Shard : AcquirePermit(c, s)) \/ AcquireWorker(c) \/ (\E t \in Time : TakeStripe(c, t))
    \/ FindReceipt(c) \/ Resolve(c) \/ Execute(c) \/ EndCall(c)

IdempotentNext ==
    \E c \in Call : \/ \E k \in Key, w \in Write : Begin(c, k, w)
                    \/ CallStep(c)
                    \/ Fail(c)

IdempotentSpec == IdempotentInit /\ [][IdempotentNext]_vars

\* A worker that runs goes on running; the two semaphores serve their waiters in order.
IdempotentFairness ==
    \A c \in Call : /\ WF_vars(CallStep(c))
                    /\ SF_vars(\E s \in Shard : AcquirePermit(c, s))
                    /\ SF_vars(AcquireWorker(c))

FairIdempotentSpec == IdempotentSpec /\ IdempotentFairness

--------------------------------------------------------------------------------
(* What a keyed write promises.                                            *)

\* "An exact retry within the promised 24-hour receipt window returns the same logical
\* ... without executing the DML again" and "Reusing a key for a different semantic
\* operation returns HTTP 409 ... without mutation" (docs/HTTP_API.md): as long as no
\* reading of the clock has reached the end of the retention, nothing is committed
\* under the key again, in whatever process, after whatever failure and whichever
\* jumps of the clock.
NeverRepeated == repeated = {}

\* An answer speaks of the last change committed under the key
\* (idempotency_result_from_receipt): created and replayed mean that this very write
\* is it, conflict that another one is; no call ever reports corruption.
AnswerTruth ==
    \A c \in Call :
        LET r == latest[call[c].key]
        IN  /\ call[c].answer \in {"created", "replayed"} => r # NoReceipt /\ r.write = call[c].write
            /\ call[c].answer = "conflict" => r # NoReceipt /\ r.write # call[c].write
            /\ call[c].answer # "corrupt"

\* "forward_reuse_then_clock_rollback_cannot_revive_an_old_shard" (a test of
\* storage/idempotency.rs): a key has a receipt, expired or not, on one shard at most.
OneReceipt ==
    \A k \in Key, s, u \in Shard :
        receipts[s][k] # NoReceipt /\ receipts[u][k] # NoReceipt => s = u

\* "Honest writers keep the entire table at or below the active-receipt capacity by
\* removing at least one expired row before each replacement"
\* (validate_optional_state, which refuses a larger table at startup).
TableBound ==
    \A s \in Shard : Cardinality({k \in Key : receipts[s][k] # NoReceipt}) <= MaxReceipts

\* The calls that have their stripe.
Holding == {"scan", "execute", "done"}

\* Calls that hold their stripe have different keys.
StripeInv ==
    \A c, d \in Call : c # d /\ call[c].step \in Holding /\ call[d].step \in Holding =>
        call[c].key # call[d].key

\* A receipt is that of the last change under its key.
LatestInv ==
    \A k \in Key, s \in Shard : receipts[s][k] # NoReceipt => latest[k] = receipts[s][k]

\* What a call has found is the last change, and nothing else is left to find.
ScanInv ==
    \A c \in Call, s \in Shard :
        /\ call[c].step = "scan" /\ s < call[c].next =>
              receipts[s][call[c].key] \in {NoReceipt, call[c].found}
        /\ call[c].step = "scan" /\ call[c].found # NoReceipt =>
              /\ latest[call[c].key] = call[c].found
              /\ s >= call[c].next => receipts[s][call[c].key] = NoReceipt
        /\ call[c].step = "execute" => receipts[s][call[c].key] = NoReceipt

\* A receipt disappears only when a reading of the clock has passed its end.
ExpiryInv ==
    \A k \in Key :
        /\ latest[k] # NoReceipt /\ (\A s \in Shard : receipts[s][k] = NoReceipt) =>
              Expired(latest[k], peak[k])
        /\ \A c \in Call : call[c].step \in {"scan", "execute"} => call[c].time <= peak[k]

KeyInv ==
    \A c \in Call :
        /\ call[c].step # "idle" => call[c].key \in Key /\ call[c].write \in Write
        /\ call[c].step # "done" => call[c].answer = "none"
        /\ call[c].step \in {"permit", "stripe"} => call[c].next = 0 /\ call[c].found = NoReceipt

\* The inductive invariant: why stripes, the scan of all shards and the deletion of
\* expired receipts together keep a key to one change (run_idempotent_write,
\* find_receipt, execute_with_receipt).
IdempotentInv ==
    /\ NeverRepeated /\ AnswerTruth /\ OneReceipt /\ TableBound
    /\ KeyInv /\ StripeInv /\ LatestInv /\ ScanInv /\ ExpiryInv

\* Calls that wait for connections of all shards never wait for each other in a circle:
\* every call ends (run_idempotent_write, "Ordered acquisition avoids cycles").
CallsEnd == \A c \in Call : call[c].step # "idle" ~> call[c].step = "idle"
================================================================================
