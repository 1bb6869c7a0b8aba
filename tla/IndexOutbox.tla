------------------------------ MODULE IndexOutbox ------------------------------
(***************************************************************************)
(* The shard-local outbox of non-unique global indexes                     *)
(* (src/storage/index_outbox.rs) and the row transaction that feeds it     *)
(* (src/storage/sharded_vtab/write.rs).                                    *)
(*                                                                         *)
(* Every shard is one SQLite file holding application rows, a table of     *)
(* events keyed by a shard-wide cursor, one state row (last_cursor,        *)
(* pruned_through) and one consumer row per index.  A row and the events   *)
(* it causes commit together; consumers acknowledge a cursor; a prefix     *)
(* that every active consumer acknowledged may be deleted.                 *)
(*                                                                         *)
(* The actions below are the transactions of that file.  The processes     *)
(* that run them are in GlobalIndexAsync, which extends this module.       *)
(***************************************************************************)
EXTENDS Integers, FiniteSets, FiniteSetsExt

CONSTANTS
    Index,        \* non-unique global indexes of one table
    Shard,        \* source shards
    Locator,      \* physical row locators inside a shard
    Value,        \* row contents
    Key,          \* canonical index keys
    NoRow, NoKey, NoLocator, NoEvent,
    KeyOf,        \* KeyOf[i][v]: key of index i for row v, NoKey outside a partial index
    MaxCursor,    \* end of the cursor space of a shard
    MaxRetained   \* MAX_GLOBAL_INDEX_OUTBOX_EVENTS_PER_SHARD

ASSUME OutboxAssumption ==
    /\ NoRow \notin Value
    /\ NoKey \notin Key
    /\ NoLocator \notin Locator
    /\ KeyOf \in [Index -> [Value -> Key \cup {NoKey}]]
    /\ MaxCursor \in Nat
    /\ MaxRetained \in Nat
    /\ IsFiniteSet(Index)

Cursor == 0..MaxCursor

Event == [index : Index,
          old   : Locator \cup {NoLocator},
          new   : Locator \cup {NoLocator},
          key   : Key \cup {NoKey}]

ASSUME NoEventAssumption == NoEvent \notin Event

VARIABLES
    rows,      \* rows[s][l]: the row at locator l of shard s, or NoRow
    events,    \* events[s][c]: the retained event at cursor c, or NoEvent
    last,      \* last[s]: last_cursor, the shard's high-water mark
    pruned,    \* pruned[s]: pruned_through
    consumer   \* consumer[s][i]: state and durable_cursor of index i's consumer row

outboxVars == <<rows, events, last, pruned, consumer>>

OutboxTypeOK ==
    /\ rows \in [Shard -> [Locator -> Value \cup {NoRow}]]
    /\ events \in [Shard -> [1..MaxCursor -> Event \cup {NoEvent}]]
    /\ last \in [Shard -> Cursor]
    /\ pruned \in [Shard -> Cursor]
    /\ consumer \in [Shard -> [Index -> [state : {"none", "active", "inactive"},
                                         cursor : Cursor]]]

OutboxInit ==
    /\ rows \in [Shard -> [Locator -> Value \cup {NoRow}]]
    /\ events = [s \in Shard |-> [c \in 1..MaxCursor |-> NoEvent]]
    /\ last = [s \in Shard |-> 0]
    /\ pruned = [s \in Shard |-> 0]
    /\ consumer = [s \in Shard |-> [i \in Index |-> [state |-> "none", cursor |-> 0]]]

--------------------------------------------------------------------------------
(* Row changes and the events they plan.                                   *)

\* The key of index i for row r, NoKey for a missing row or outside a partial index.
RowKey(i, r) == IF r = NoRow THEN NoKey ELSE KeyOf[i][r]

\* A change of one row: the row at old disappears, the row v appears at new.
\* Insert: old = NoLocator; delete: new = NoLocator; a primary-key update moves
\* the row, and its new locator must be free.
IsChange(s, old, new, v) ==
    /\ old # NoLocator \/ new # NoLocator
    /\ old # NoLocator => rows[s][old] # NoRow
    /\ new # NoLocator => v # NoRow /\ (new = old \/ rows[s][new] = NoRow)
    /\ new = NoLocator => v = NoRow

ChangedRows(s, old, new, v) ==
    [l \in Locator |-> IF l = new THEN v ELSE IF l = old THEN NoRow ELSE rows[s][l]]

OldKey(i, s, old) == IF old = NoLocator THEN NoKey ELSE RowKey(i, rows[s][old])

\* Mutant: a row that keeps its key plans nothing, even when it moves.
PlansEventByKey(i, s, old, new, v) == OldKey(i, s, old) # RowKey(i, v)

\* plan_global_nonunique_outbox_events: nothing for a row that stays outside
\* the index, nothing when key and owner are unchanged.
PlansEvent(i, s, old, new, v) ==
    /\ OldKey(i, s, old) # NoKey \/ RowKey(i, v) # NoKey
    /\ ~ (OldKey(i, s, old) = RowKey(i, v) /\ old = new)

\* Insert, update, delete and tombstone events differ in which side is present.
PlannedEvent(i, s, old, new, v) ==
    [index |-> i,
     old   |-> IF OldKey(i, s, old) = NoKey THEN NoLocator ELSE old,
     new   |-> IF RowKey(i, v) = NoKey THEN NoLocator ELSE new,
     key   |-> RowKey(i, v)]

\* An event e decides what locator l holds in the index, and what it decides.
Touches(e, l) == e.old = l \/ e.new = l
KeyAfter(e, l) == IF e.new = l THEN e.key ELSE NoKey

--------------------------------------------------------------------------------
(* The transactions of a shard file.                                       *)

Retained(s) == last[s] - pruned[s]

\* Mutant: the retention limit is compared before the new events are added.
HasRoomBefore(s, n) == Retained(s) < MaxRetained + n /\ last[s] + n <= MaxCursor

\* Mutant: no check for the end of the cursor space.
HasRoomUnchecked(s, n) == Retained(s) + n <= MaxRetained

\* append_events refuses (Busy, LimitExceeded) what would pass a limit.
HasRoom(s, n) == Retained(s) + n <= MaxRetained /\ last[s] + n <= MaxCursor

\* INSERT OR IGNORE of a consumer row for every index the batch mentions.
FirstSeen(s, captured) ==
    [i \in Index |->
        IF i \in captured /\ consumer[s][i].state = "none"
        THEN [state |-> "active", cursor |-> last[s]]
        ELSE consumer[s][i]]

\* One committed row transaction on shard s: the row change, and with it the
\* events of the captured indexes at the next cursors, in some order of the
\* indexes.  A transaction of several rows is a run of these with nothing between; the
\* limit on the events of one transaction, which refuses it whole, is left out.
CommitRow(s, old, new, v, captured) ==
    LET planned == {i \in captured : PlansEvent(i, s, old, new, v)}
        n == Cardinality(planned)
    IN  /\ IsChange(s, old, new, v)
        /\ n > 0 => HasRoom(s, n)
        /\ \E order \in [1..n -> planned] :
              /\ \A i \in planned : \E k \in 1..n : order[k] = i
              /\ events' = [events EXCEPT ![s] = [c \in 1..MaxCursor |->
                    IF c \in (last[s] + 1)..(last[s] + n)
                    THEN PlannedEvent(order[c - last[s]], s, old, new, v)
                    ELSE events[s][c]]]
        /\ rows' = [rows EXCEPT ![s] = ChangedRows(s, old, new, v)]
        /\ last' = [last EXCEPT ![s] = last[s] + n]
        /\ consumer' = [consumer EXCEPT ![s] = FirstSeen(s, planned)]
        /\ UNCHANGED pruned

IsActive(s, i) == consumer[s][i].state = "active"

\* advance_consumer: never backwards, never past the high-water mark.
CanAdvance(i, s, cursor) == IsActive(s, i) /\ cursor <= last[s]

\* Mutant: the acknowledgement covers everything allocated so far.
AdvanceConsumerToEnd(i, s, cursor) ==
    /\ CanAdvance(i, s, cursor)
    /\ consumer' = [consumer EXCEPT ![s][i].cursor = last[s]]
    /\ UNCHANGED <<rows, events, last, pruned>>

AdvanceConsumer(i, s, cursor) ==
    /\ CanAdvance(i, s, cursor)
    /\ consumer' = [consumer EXCEPT ![s][i].cursor =
                        IF @ <= cursor THEN cursor ELSE @]
    /\ UNCHANGED <<rows, events, last, pruned>>

\* Mutant: the fastest consumer decides instead of the slowest.
AckedThroughFastest(s, c) == \E i \in Index : IsActive(s, i) /\ c <= consumer[s][i].cursor

\* Mutant: the first event that is not acknowledged goes too.
AckedThroughNext(s, c) == \A i \in Index : IsActive(s, i) => c <= consumer[s][i].cursor + 1

\* Every active consumer acknowledged cursor c.
AckedThrough(s, c) == \A i \in Index : IsActive(s, i) => c <= consumer[s][i].cursor

CanPrune(s) == pruned[s] < last[s] /\ AckedThrough(s, pruned[s] + 1)

\* Mutant: the last event of the prefix is recorded as pruned and kept.
PruneKeepsLast(s, limit) ==
    /\ CanPrune(s)
    /\ \E through \in (pruned[s] + 1)..last[s] :
          /\ AckedThrough(s, through) /\ through <= pruned[s] + limit
          /\ pruned' = [pruned EXCEPT ![s] = through]
          /\ events' = [events EXCEPT ![s] = [c \in 1..MaxCursor |->
                IF c < through THEN NoEvent ELSE events[s][c]]]
    /\ UNCHANGED <<rows, last, consumer>>

\* prune: delete the longest acknowledged prefix of at most limit events.
Prune(s, limit) ==
    /\ CanPrune(s)
    /\ \E through \in (pruned[s] + 1)..last[s] :
          /\ AckedThrough(s, through)
          /\ through <= pruned[s] + limit
          /\ \/ through = pruned[s] + limit
             \/ through = last[s]
             \/ ~ AckedThrough(s, through + 1)
          /\ pruned' = [pruned EXCEPT ![s] = through]
          /\ events' = [events EXCEPT ![s] = [c \in 1..MaxCursor |->
                IF c <= through THEN NoEvent ELSE events[s][c]]]
    /\ UNCHANGED <<rows, last, consumer>>

\* activate_index on one shard: the snapshot must still be the high-water mark.
ActivateIndex(i, s, cursor) ==
    /\ last[s] = cursor
    /\ consumer' = [consumer EXCEPT ![s][i] = [state |-> "active", cursor |-> cursor]]
    /\ UNCHANGED <<rows, events, last, pruned>>

\* deactivate_index on one shard: a missing consumer row stays missing.
DeactivateIndex(i, s) ==
    /\ consumer' = [consumer EXCEPT ![s][i].state =
                        IF @ = "none" THEN "none" ELSE "inactive"]
    /\ UNCHANGED <<rows, events, last, pruned>>

--------------------------------------------------------------------------------
(* Reading the outbox.  read_batch runs two statements outside any         *)
(* transaction: first the state row, then the events.                      *)

\* Cursors of the index's events in (after, through] that are still stored.
StoredEvents(i, s, after, through) ==
    {c \in (after + 1)..through : events[s][c] # NoEvent /\ events[s][c].index = i}

\* B is what "ORDER BY cursor LIMIT n" returns from the cursors A.
IsLowest(B, A, n) ==
    /\ B \subseteq A
    /\ \A b \in B, a \in A \ B : b < a
    /\ \/ B = A /\ Cardinality(A) <= n
       \/ B # {} /\ Cardinality(B) = n

--------------------------------------------------------------------------------
(* What the outbox promises.                                               *)

\* The stored events are exactly the cursors in (pruned_through, last_cursor]:
\* "observe one gap-free commit order" (docs/GLOBAL_INDEX_AUTHORITY.md).
GapFree ==
    \A s \in Shard : \A c \in 1..MaxCursor :
        events[s][c] # NoEvent <=> c \in (pruned[s] + 1)..last[s]

\* Prefix deletion never crosses the slowest active consumer, and a consumer
\* never acknowledges a cursor that was not allocated (prune, advance_consumer).
ConsumerBounds ==
    \A s \in Shard, i \in Index :
        IsActive(s, i) => /\ pruned[s] <= consumer[s][i].cursor
                          /\ consumer[s][i].cursor <= last[s]

\* The hard retention limit of append_events.
RetentionBound == \A s \in Shard : pruned[s] <= last[s] /\ Retained(s) <= MaxRetained
================================================================================
