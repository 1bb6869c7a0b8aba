------------------------ MODULE GlobalIndexAsyncProofs -------------------------
(***************************************************************************)
(* Theorems about the shard outboxes and asynchronous index maintenance,   *)
(* for any number of indexes, shards, locators, workers, cursors and       *)
(* fences: every transaction of a shard file keeps its outbox well-formed, *)
(* and every step of every process is well-typed.                          *)
(***************************************************************************)
EXTENDS GlobalIndexAsync, FiniteSetTheorems, WellFoundedInduction, TLAPS

--------------------------------------------------------------------------------
(* The transactions of a shard file.                                       *)

\* The conjunction that each transaction preserves on its own.
OutboxInv == OutboxTypeOK /\ GapFree /\ ConsumerBounds /\ RetentionBound

\* plan_global_nonunique_outbox_events builds well-formed events.
LEMMA PlannedIsEvent ==
    ASSUME OutboxTypeOK,
           NEW i \in Index, NEW s \in Shard,
           NEW old \in Locator \cup {NoLocator}, NEW new \in Locator \cup {NoLocator},
           NEW v \in Value \cup {NoRow}
    PROVE  PlannedEvent(i, s, old, new, v) \in Event
  BY OutboxAssumption DEF OutboxTypeOK, PlannedEvent, Event, RowKey

\* A planned set of indexes has a size that can be added to a cursor.
LEMMA PlannedSize ==
    ASSUME NEW planned \in SUBSET Index
    PROVE  Cardinality(planned) \in Nat
  BY OutboxAssumption, FS_Subset, FS_CardinalityType

\* An empty outbox is well-formed.
LEMMA OutboxInitInv == OutboxInit => OutboxInv
  <1> SUFFICES ASSUME OutboxInit PROVE OutboxInv
    OBVIOUS
  <1>1. OutboxTypeOK
    BY OutboxAssumption DEF OutboxInit, OutboxTypeOK, Cursor
  <1>2. GapFree
    BY OutboxAssumption DEF OutboxInit, GapFree
  <1>3. ConsumerBounds
    BY DEF OutboxInit, ConsumerBounds, IsActive
  <1>4. RetentionBound
    BY OutboxAssumption DEF OutboxInit, RetentionBound, Retained
  <1> QED BY <1>1, <1>2, <1>3, <1>4 DEF OutboxInv

\* A step that leaves the shard files alone leaves them well-formed.
LEMMA OutboxUnchanged == ASSUME OutboxInv, UNCHANGED outboxVars PROVE OutboxInv'
  BY DEF OutboxInv, outboxVars, OutboxTypeOK, GapFree, ConsumerBounds, RetentionBound,
         Retained, IsActive

\* The row transaction: append_events allocates the next cursors and nothing else.
LEMMA CommitRowInv ==
    ASSUME OutboxInv,
           NEW s \in Shard,
           NEW old \in Locator \cup {NoLocator}, NEW new \in Locator \cup {NoLocator},
           NEW v \in Value \cup {NoRow}, NEW captured \in SUBSET Index,
           CommitRow(s, old, new, v, captured)
    PROVE  OutboxInv'
  <1> DEFINE planned == {i \in captured : PlansEvent(i, s, old, new, v)}
             n == Cardinality(planned)
  <1>1. n \in Nat
    <2>1. planned \in SUBSET Index
      OBVIOUS
    <2> QED BY <2>1, PlannedSize
  <1>2. n > 0 => HasRoom(s, n)
    BY DEF CommitRow
  <1>3. PICK order \in [1..n -> planned] :
           events' = [events EXCEPT ![s] = [c \in 1..MaxCursor |->
                         IF c \in (last[s] + 1)..(last[s] + n)
                         THEN PlannedEvent(order[c - last[s]], s, old, new, v)
                         ELSE events[s][c]]]
    BY DEF CommitRow
  <1>4. /\ rows' = [rows EXCEPT ![s] = ChangedRows(s, old, new, v)]
        /\ last' = [last EXCEPT ![s] = last[s] + n]
        /\ consumer' = [consumer EXCEPT ![s] = FirstSeen(s, planned)]
        /\ pruned' = pruned
        /\ IsChange(s, old, new, v)
    BY DEF CommitRow
  <1>5. OutboxTypeOK /\ GapFree /\ ConsumerBounds /\ RetentionBound
    BY DEF OutboxInv
  <1>6. last[s] + n \in Cursor /\ last[s] \in Nat /\ pruned[s] \in Nat
    BY <1>1, <1>2, <1>5, OutboxAssumption DEF OutboxTypeOK, Cursor, HasRoom
  <1>7. ASSUME NEW c \in (last[s] + 1)..(last[s] + n)
        PROVE  PlannedEvent(order[c - last[s]], s, old, new, v) \in Event
    <2>1. c - last[s] \in 1..n
      BY <1>1, <1>6
    <2>2. order[c - last[s]] \in Index
      BY <1>3, <2>1
    <2> QED BY <1>5, <2>2, PlannedIsEvent
  <1>8. OutboxTypeOK'
    <2>1. ChangedRows(s, old, new, v) \in [Locator -> Value \cup {NoRow}]
      BY <1>4, <1>5, OutboxAssumption DEF OutboxTypeOK, ChangedRows, IsChange
    <2>2. rows' \in [Shard -> [Locator -> Value \cup {NoRow}]]
      BY <1>4, <1>5, <2>1 DEF OutboxTypeOK
    <2>3. events' \in [Shard -> [1..MaxCursor -> Event \cup {NoEvent}]]
      BY <1>3, <1>5, <1>7 DEF OutboxTypeOK
    <2>4. last' \in [Shard -> Cursor] /\ pruned' \in [Shard -> Cursor]
      BY <1>4, <1>5, <1>6 DEF OutboxTypeOK
    <2>5. consumer' \in [Shard -> [Index -> [state : {"none", "active", "inactive"},
                                             cursor : Cursor]]]
      BY <1>4, <1>5 DEF OutboxTypeOK, FirstSeen
    <2> QED BY <2>2, <2>3, <2>4, <2>5 DEF OutboxTypeOK
  <1>9. GapFree'
    <2> SUFFICES ASSUME NEW t \in Shard, NEW c \in 1..MaxCursor
                 PROVE  events'[t][c] # NoEvent <=> c \in (pruned'[t] + 1)..last'[t]
      BY DEF GapFree
    <2>1. CASE t # s
      BY <1>3, <1>4, <1>5, <2>1 DEF GapFree, OutboxTypeOK
    <2>2. CASE t = s
      <3>1. last'[s] = last[s] + n /\ pruned'[s] = pruned[s]
        BY <1>4, <1>5 DEF OutboxTypeOK
      <3>2. pruned[s] <= last[s]
        BY <1>5 DEF RetentionBound
      <3>3. events[s][c] # NoEvent <=> c \in (pruned[s] + 1)..last[s]
        BY <1>5 DEF GapFree
      <3>4. CASE c \in (last[s] + 1)..(last[s] + n)
        <4>1. events'[s][c] \in Event
          BY <1>3, <1>5, <1>7, <3>4 DEF OutboxTypeOK
        <4>2. c \in (pruned[s] + 1)..(last[s] + n)
          BY <1>1, <1>6, <3>2, <3>4, OutboxAssumption
        <4> QED BY <2>2, <3>1, <4>1, <4>2, NoEventAssumption
      <3>5. CASE c \notin (last[s] + 1)..(last[s] + n)
        <4>1. events'[s][c] = events[s][c]
          BY <1>3, <1>5, <3>5 DEF OutboxTypeOK
        <4>2. c \in (pruned[s] + 1)..last[s] <=> c \in (pruned[s] + 1)..(last[s] + n)
          BY <1>1, <1>6, <3>2, <3>5, OutboxAssumption
        <4> QED BY <2>2, <3>1, <3>3, <4>1, <4>2
      <3> QED BY <3>4, <3>5
    <2> QED BY <2>1, <2>2
  <1>10. ConsumerBounds'
    <2> SUFFICES ASSUME NEW t \in Shard, NEW i \in Index, IsActive(t, i)'
                 PROVE  pruned'[t] <= consumer'[t][i].cursor
                        /\ consumer'[t][i].cursor <= last'[t]
      BY DEF ConsumerBounds
    <2>1. CASE t # s
      BY <1>4, <1>5, <2>1 DEF ConsumerBounds, OutboxTypeOK, IsActive
    <2>2. CASE t = s
      <3>1. consumer'[s][i] = IF i \in planned /\ consumer[s][i].state = "none"
                              THEN [state |-> "active", cursor |-> last[s]]
                              ELSE consumer[s][i]
        BY <1>4, <1>5 DEF OutboxTypeOK, FirstSeen
      <3>2. pruned[s] <= last[s] /\ last'[s] = last[s] + n /\ pruned'[s] = pruned[s]
        BY <1>4, <1>5 DEF RetentionBound, OutboxTypeOK
      <3>3. consumer[s][i].cursor \in Nat
        BY <1>5, OutboxAssumption DEF OutboxTypeOK, Cursor
      <3>4. CASE i \in planned /\ consumer[s][i].state = "none"
        BY <1>1, <1>6, <2>2, <3>1, <3>2, <3>4
      <3>5. CASE ~ (i \in planned /\ consumer[s][i].state = "none")
        <4>1. IsActive(s, i)
          BY <2>2, <3>1, <3>5 DEF IsActive
        <4> QED BY <1>1, <1>5, <1>6, <2>2, <3>1, <3>2, <3>3, <3>5, <4>1 DEF ConsumerBounds
      <3> QED BY <3>4, <3>5
    <2> QED BY <2>1, <2>2
  <1>11. RetentionBound'
    BY <1>1, <1>2, <1>4, <1>5, <1>6, OutboxAssumption
       DEF RetentionBound, OutboxTypeOK, Retained, HasRoom, Cursor
  <1> QED BY <1>8, <1>9, <1>10, <1>11 DEF OutboxInv

\* advance_consumer moves one cursor forward, never past last_cursor.
LEMMA AdvanceConsumerInv ==
    ASSUME OutboxInv, NEW i \in Index, NEW s \in Shard, NEW cursor \in Cursor,
           AdvanceConsumer(i, s, cursor)
    PROVE  OutboxInv'
  <1>1. OutboxTypeOK'
    <2>1. consumer[s][i] \in [state : {"none", "active", "inactive"}, cursor : Cursor]
      BY DEF OutboxInv, OutboxTypeOK
    <2> DEFINE moved == [consumer[s][i] EXCEPT !.cursor =
                            IF @ <= cursor THEN cursor ELSE @]
    <2>2. moved \in [state : {"none", "active", "inactive"}, cursor : Cursor]
      BY <2>1
    <2>3. consumer' = [consumer EXCEPT ![s] = [consumer[s] EXCEPT ![i] = moved]]
      BY DEF OutboxInv, OutboxTypeOK, AdvanceConsumer
    <2> QED BY <2>2, <2>3 DEF OutboxInv, OutboxTypeOK, AdvanceConsumer
  <1>2. GapFree' /\ RetentionBound'
    BY DEF OutboxInv, AdvanceConsumer, GapFree, RetentionBound, Retained
  <1>3. ConsumerBounds'
    BY OutboxAssumption DEF OutboxInv, OutboxTypeOK, AdvanceConsumer, CanAdvance,
       ConsumerBounds, IsActive, Cursor
  <1> QED BY <1>1, <1>2, <1>3 DEF OutboxInv

\* prune deletes a prefix that every active consumer acknowledged.
LEMMA PruneInv ==
    ASSUME OutboxInv, NEW s \in Shard, NEW limit \in Nat, Prune(s, limit)
    PROVE  OutboxInv'
  <1>1. PICK through \in (pruned[s] + 1)..last[s] :
          /\ AckedThrough(s, through)
          /\ pruned' = [pruned EXCEPT ![s] = through]
          /\ events' = [events EXCEPT ![s] = [c \in 1..MaxCursor |->
                IF c <= through THEN NoEvent ELSE events[s][c]]]
    BY DEF Prune
  <1>2. rows' = rows /\ last' = last /\ consumer' = consumer
    BY DEF Prune
  <1>3. OutboxTypeOK /\ GapFree /\ ConsumerBounds /\ RetentionBound
    BY DEF OutboxInv
  <1>4. last[s] \in Cursor /\ pruned[s] \in Cursor /\ through \in Cursor
    BY <1>3, OutboxAssumption DEF OutboxTypeOK, Cursor
  <1>5. OutboxTypeOK'
    BY <1>1, <1>2, <1>3, <1>4 DEF OutboxTypeOK
  <1>6. GapFree'
    BY <1>1, <1>2, <1>3, <1>4, OutboxAssumption DEF OutboxTypeOK, GapFree, Cursor
  <1>7. ConsumerBounds'
    BY <1>1, <1>2, <1>3 DEF ConsumerBounds, OutboxTypeOK, AckedThrough, IsActive
  <1>8. RetentionBound'
    BY <1>1, <1>2, <1>3, <1>4, OutboxAssumption
       DEF RetentionBound, OutboxTypeOK, Retained, Cursor
  <1> QED BY <1>5, <1>6, <1>7, <1>8 DEF OutboxInv

\* activate_index starts a consumer at the high-water mark.
LEMMA ActivateIndexInv ==
    ASSUME OutboxInv, NEW i \in Index, NEW s \in Shard, NEW cursor \in Cursor,
           ActivateIndex(i, s, cursor)
    PROVE  OutboxInv'
  <1>1. OutboxTypeOK'
    BY DEF OutboxInv, OutboxTypeOK, ActivateIndex
  <1>2. GapFree' /\ RetentionBound'
    BY DEF OutboxInv, ActivateIndex, GapFree, RetentionBound, Retained
  <1>3. ConsumerBounds'
    BY OutboxAssumption DEF OutboxInv, OutboxTypeOK, ActivateIndex, ConsumerBounds,
       RetentionBound, IsActive, Cursor
  <1> QED BY <1>1, <1>2, <1>3 DEF OutboxInv

\* deactivate_index takes a consumer out of the prune threshold.
LEMMA DeactivateIndexInv ==
    ASSUME OutboxInv, NEW i \in Index, NEW s \in Shard, DeactivateIndex(i, s)
    PROVE  OutboxInv'
  <1>1. OutboxTypeOK'
    BY DEF OutboxInv, OutboxTypeOK, DeactivateIndex
  <1>2. GapFree' /\ RetentionBound'
    BY DEF OutboxInv, DeactivateIndex, GapFree, RetentionBound, Retained
  <1>3. ConsumerBounds'
    BY DEF OutboxInv, OutboxTypeOK, DeactivateIndex, ConsumerBounds, IsActive
  <1> QED BY <1>1, <1>2, <1>3 DEF OutboxInv

--------------------------------------------------------------------------------
(* Types.                                                                  *)

\* The parts of AsyncTypeOK, by the file or the process that keeps them.
AuthorityTypeOK ==
    /\ built \in [Index -> BOOLEAN]
    /\ checkpoint \in [Index -> [Shard -> Image \cup {NoImage}]]
    /\ entries \in [Index -> [Shard -> Image]]
    /\ applied \in [Index -> [Shard -> Cursor]]
    /\ poisoned \in [Index -> SUBSET Shard]
    /\ rebuild \subseteq Index
    /\ paused \subseteq Index
    /\ lease \in [Index -> [Shard -> Lease]]
    /\ repairs \in [Index -> SUBSET Repair]

WorkerTypeOK ==
    /\ pc \in [Worker -> PC]
    /\ pass \in [Worker -> Pass]

ControlTypeOK ==
    /\ lifecycle \in [Index -> Lifecycle]
    /\ legacy \in {"idle", "fenced"}
    /\ maint \in [phase : Phase, index : Index, todo : SUBSET Shard]

TypeInv == OutboxInv /\ AuthorityTypeOK /\ WorkerTypeOK /\ ControlTypeOK

--------------------------------------------------------------------------------
(* Workers: every step leaves a well-formed program counter and pass.      *)

LEMMA NoPassType == NoPass \in Pass
  BY AsyncAssumption, OutboxAssumption DEF NoPass, Pass, Cursor, Batch, EmptyBatch

LEMMA GotoType ==
    ASSUME WorkerTypeOK, NEW w \in Worker, NEW label \in PC, NEW local \in Pass,
           Goto(w, label, local)
    PROVE  WorkerTypeOK'
  BY DEF WorkerTypeOK, Goto

LEMMA EndPassType == ASSUME WorkerTypeOK, NEW w \in Worker, EndPass(w) PROVE WorkerTypeOK'
  BY NoPassType, GotoType DEF EndPass, PC

LEMMA NextShardType == ASSUME WorkerTypeOK, NEW w \in Worker, NextShard(w) PROVE WorkerTypeOK'
  <1>1. pass[w] \in Pass
    BY DEF WorkerTypeOK
  <1>2. [pass[w] EXCEPT !.todo = @ \ {pass[w].shard}, !.after = 0,
                        !.fence = 0, !.high = 0, !.batch = EmptyBatch, !.through = 0] \in Pass
    <2>1. EmptyBatch \in Batch /\ 0 \in Cursor /\ 0 \in 0..MaxFence
      BY AsyncAssumption, OutboxAssumption DEF Cursor, Batch, EmptyBatch
    <2>2. pass[w].todo \ {pass[w].shard} \in SUBSET Shard
      BY <1>1 DEF Pass
    <2> QED BY <1>1, <2>1, <2>2 DEF Pass
  <1> QED BY <1>2, GotoType DEF NextShard, PC

LEMMA BeginPassType == ASSUME TypeInv, NEW w \in Worker, NEW i \in Index, BeginPass(w, i) PROVE WorkerTypeOK'
  <1>1. [NoPass EXCEPT !.index = i, !.todo = Shard] \in Pass
    BY NoPassType DEF Pass
  <1> QED BY <1>1, GotoType DEF BeginPass, PC, TypeInv

LEMMA SnapshotHighWaterType ==
    ASSUME TypeInv, NEW w \in Worker, NEW s \in Shard, SnapshotHighWater(w, s)
    PROVE  WorkerTypeOK'
  <1> DEFINE rest == pass[w].todo \ {s}
  <1>1. pass[w] \in Pass /\ last[s] \in Cursor
    BY DEF TypeInv, WorkerTypeOK, OutboxInv, OutboxTypeOK
  <1>2. [pass[w] EXCEPT !.todo = rest, !.hw[s] = last[s]] \in Pass
    BY <1>1 DEF Pass
  <1> QED BY <1>2, GotoType DEF SnapshotHighWater, PC, TypeInv

LEMMA ReadWatermarkType ==
    ASSUME TypeInv, NEW w \in Worker, NEW s \in Shard, ReadWatermark(w, s)
    PROVE  WorkerTypeOK'
  <1> DEFINE i == pass[w].index
             rest == pass[w].todo \ {s}
             bad == IF s \in poisoned[i] THEN pass[w].bad \cup {s} ELSE pass[w].bad
             todo == IF rest = {} THEN Shard ELSE rest
  <1>1. pass[w] \in Pass /\ applied[i][s] \in Cursor
    BY DEF TypeInv, WorkerTypeOK, AuthorityTypeOK, Pass
  <1>2. bad \in SUBSET Shard /\ todo \in SUBSET Shard
    BY <1>1 DEF Pass
  <1>3. [pass[w] EXCEPT !.todo = todo, !.wm[s] = applied[i][s], !.bad = bad] \in Pass
    BY <1>1, <1>2 DEF Pass
  <1>4. pass' = [pass EXCEPT ![w] = [pass[w] EXCEPT !.todo = todo,
                                     !.wm[s] = applied[i][s], !.bad = bad]]
    BY DEF ReadWatermark, Goto
  <1>5. pc' = [pc EXCEPT ![w] = "select"] \/ pc' = [pc EXCEPT ![w] = "watermarks"]
    BY DEF ReadWatermark, Goto
  <1> QED BY <1>3, <1>4, <1>5 DEF TypeInv, WorkerTypeOK, PC

LEMMA SelectShardType ==
    ASSUME TypeInv, NEW w \in Worker, NEW s \in Shard, SelectShard(w, s)
    PROVE  WorkerTypeOK'
  <1>1. pass[w] \in Pass
    BY DEF TypeInv, WorkerTypeOK
  <1>2. /\ [pass[w] EXCEPT !.todo = @ \ {s}] \in Pass
        /\ [pass[w] EXCEPT !.shard = s] \in Pass
        /\ [pass[w] EXCEPT !.shard = s, !.processed = @ \cup {s}] \in Pass
    BY <1>1 DEF Pass
  <1> QED BY <1>2, GotoType DEF SelectShard, PC, TypeInv

LEMMA CompareConsumerType ==
    ASSUME TypeInv, NEW w \in Worker, CompareConsumer(w)
    PROVE  WorkerTypeOK'
  <1> DEFINE s == pass[w].shard
  <1>1. pass[w] \in Pass /\ WorkerTypeOK
    BY DEF TypeInv, WorkerTypeOK
  <1>2. [pass[w] EXCEPT !.through = pass[w].wm[s], !.processed = @ \cup {s}] \in Pass
    BY <1>1 DEF Pass
  <1> QED BY <1>1, <1>2, GotoType, NextShardType DEF CompareConsumer, PC

LEMMA LoadWatermarkType ==
    ASSUME TypeInv, NEW w \in Worker, LoadWatermark(w)
    PROVE  WorkerTypeOK'
  <1> DEFINE cursor == applied[pass[w].index][pass[w].shard]
  <1>1. pass[w] \in Pass /\ WorkerTypeOK /\ cursor \in Cursor
    BY DEF TypeInv, WorkerTypeOK, AuthorityTypeOK, Pass
  <1>2. [pass[w] EXCEPT !.after = cursor] \in Pass
    BY <1>1 DEF Pass
  <1> QED BY <1>1, <1>2, GotoType, NextShardType DEF LoadWatermark, PC

LEMMA GrantedLeaseType ==
    ASSUME NEW w \in Worker, NEW held \in Lease, GrantedLease(w, held).fence <= MaxFence
    PROVE  GrantedLease(w, held) \in Lease
  <1>1. CASE held.owner = NoOwner
    BY <1>1, AsyncAssumption DEF GrantedLease, Lease
  <1>2. CASE held.owner = w
    <2>1. w # NoOwner
      BY AsyncAssumption
    <2>2. GrantedLease(w, held) = [held EXCEPT !.expired = FALSE]
      BY <1>2, <2>1 DEF GrantedLease
    <2> QED BY <2>2 DEF Lease
  <1>3. CASE held.owner \notin {NoOwner, w}
    <2>1. GrantedLease(w, held) = [owner |-> w, fence |-> held.fence + 1, expired |-> FALSE]
      BY <1>3 DEF GrantedLease
    <2> QED BY <2>1, AsyncAssumption DEF Lease
  <1> QED BY <1>1, <1>2, <1>3

LEMMA AcquireLeaseType ==
    ASSUME TypeInv, NEW w \in Worker, AcquireLease(w)
    PROVE  WorkerTypeOK' /\ AuthorityTypeOK'
  <1> DEFINE i == pass[w].index
             s == pass[w].shard
             granted == GrantedLease(w, lease[i][s])
  <1>1. /\ pass[w] \in Pass /\ WorkerTypeOK /\ AuthorityTypeOK
        /\ i \in Index /\ s \in Shard /\ lease[i][s] \in Lease
    BY DEF TypeInv, WorkerTypeOK, AuthorityTypeOK, Pass
  <1>2. CASE NextShard(w) /\ UNCHANGED lease
    BY <1>1, <1>2, NextShardType DEF AcquireLease, AuthorityTypeOK
  <1>3. CASE /\ granted.fence <= MaxFence
             /\ lease' = [lease EXCEPT ![i][s] = granted]
             /\ Goto(w, "read", [pass[w] EXCEPT !.fence = granted.fence])
    <2>1. granted \in Lease
      BY <1>1, <1>3, GrantedLeaseType
    <2>2. [pass[w] EXCEPT !.fence = granted.fence] \in Pass
      BY <1>1, <2>1 DEF Pass, Lease
    <2>3. lease' \in [Index -> [Shard -> Lease]]
      BY <1>1, <1>3, <2>1 DEF AuthorityTypeOK
    <2> QED BY <1>1, <1>3, <2>2, <2>3, GotoType DEF AcquireLease, AuthorityTypeOK, PC
  <1> QED BY <1>2, <1>3 DEF AcquireLease

LEMMA ReadStateType ==
    ASSUME TypeInv, NEW w \in Worker, ReadState(w)
    PROVE  WorkerTypeOK'
  <1> DEFINE s == pass[w].shard
  <1>1. pass[w] \in Pass /\ WorkerTypeOK /\ last[s] \in Cursor
    BY DEF TypeInv, WorkerTypeOK, OutboxInv, OutboxTypeOK, Pass
  <1>2. [pass[w] EXCEPT !.high = last[s]] \in Pass
    BY <1>1 DEF Pass
  <1> QED BY <1>1, <1>2, GotoType, EndPassType DEF ReadState, PC

LEMMA ReadEventsType ==
    ASSUME TypeInv, NEW w \in Worker, ReadEvents(w)
    PROVE  WorkerTypeOK'
  <1> DEFINE s == pass[w].shard
             picked(B) == [c \in 1..MaxCursor |-> IF c \in B THEN events[s][c] ELSE NoEvent]
  <1>1. pass[w] \in Pass /\ WorkerTypeOK /\ s \in Shard
    BY DEF TypeInv, WorkerTypeOK, Pass
  <1>2. PICK B : Goto(w, "apply", [pass[w] EXCEPT !.batch = picked(B)])
    BY DEF ReadEvents
  <1>3. picked(B) \in Batch
    <2>1. events[s] \in [1..MaxCursor -> Event \cup {NoEvent}]
      BY <1>1 DEF TypeInv, OutboxInv, OutboxTypeOK
    <2> QED BY <2>1 DEF Batch
  <1> HIDE DEF picked
  <1>4. [pass[w] EXCEPT !.batch = picked(B)] \in Pass
    BY <1>1, <1>3 DEF Pass
  <1> QED BY <1>1, <1>2, <1>4, GotoType DEF PC

\* A nonempty bounded set of numbers has a largest member, which Max names.
LEMMA MaxOfBounded ==
    ASSUME NEW n \in Nat, NEW S, S \subseteq 1..n, S # {}
    PROVE  Max(S) \in S /\ \A y \in S : y <= Max(S)
  <1> DEFINE T == {n - x : x \in S}
             R == OpToRel(<, Nat)
  <1>1. T \subseteq Nat /\ T # {}
    OBVIOUS
  <1>2. PICK m \in T : \A y \in T : ~ (<<y, m>> \in R)
    BY <1>1, NatLessThanWellFounded, WFMin
  <1>3. \A y \in T : ~ (y < m)
    BY <1>1, <1>2 DEF OpToRel
  <1>4. PICK x \in S : m = n - x
    BY <1>2
  <1>5. \A y \in S : x >= y
    BY <1>3, <1>4
  <1>6. \E z \in S : \A y \in S : z >= y
    BY <1>4, <1>5
  <1> QED BY <1>6 DEF Max

LEMMA MaxCursorOf ==
    ASSUME NEW S, S \subseteq 1..MaxCursor, S # {}
    PROVE  Max(S) \in S /\ \A y \in S : y <= Max(S)
  <1>1. MaxCursor \in Nat
    BY OutboxAssumption
  <1> QED BY <1>1, MaxOfBounded

\* Replaying a batch yields entries again, and a cursor that was read.
LEMMA ReplayType ==
    ASSUME NEW image \in Image, NEW batch \in Batch
    PROVE  ReplayedEntries(image, batch) \in Image
  <1> SUFFICES ASSUME NEW l \in Locator, Touching(batch, l) # {}
               PROVE  KeyAfter(batch[Max(Touching(batch, l))], l) \in Key \cup {NoKey}
    BY DEF ReplayedEntries, Image
  <1>1. Touching(batch, l) \subseteq BatchCursors(batch)
    BY DEF Touching
  <1>2. Max(Touching(batch, l)) \in BatchCursors(batch)
    BY <1>1, MaxCursorOf DEF BatchCursors
  <1>3. batch[Max(Touching(batch, l))] \in Event
    BY <1>2 DEF BatchCursors, Batch
  <1> QED BY <1>3 DEF KeyAfter, Event

LEMMA AppliedThroughBounds ==
    ASSUME NEW batch \in Batch, NEW high \in Cursor
    PROVE  \/ AppliedThrough(batch, high) = high
           \/ AppliedThrough(batch, high) \in BatchCursors(batch)
  <1>1. CASE BatchCursors(batch) = {}
    BY <1>1, FS_EmptySet, AsyncAssumption DEF AppliedThrough
  <1>2. CASE BatchCursors(batch) # {}
    <2>1. Max(BatchCursors(batch)) \in BatchCursors(batch)
      BY <1>2, MaxCursorOf DEF BatchCursors
    <2> QED BY <2>1 DEF AppliedThrough
  <1> QED BY <1>1, <1>2

LEMMA ApplyBatchType ==
    ASSUME TypeInv, NEW w \in Worker, ApplyBatch(w)
    PROVE  WorkerTypeOK' /\ AuthorityTypeOK'
  <1> DEFINE i == pass[w].index
             s == pass[w].shard
             batch == pass[w].batch
             through == AppliedThrough(batch, pass[w].high)
  <1>1. /\ pass[w] \in Pass /\ WorkerTypeOK /\ AuthorityTypeOK
        /\ i \in Index /\ s \in Shard /\ batch \in Batch /\ pass[w].high \in Cursor
    BY DEF TypeInv, WorkerTypeOK, Pass
  <1>2. through \in Cursor
    BY <1>1, AppliedThroughBounds, OutboxAssumption DEF BatchCursors, Cursor
  <1>3. entries' \in [Index -> [Shard -> Image]]
    <2>1. ReplayedEntries(entries[i][s], batch) \in Image
      BY <1>1, ReplayType DEF AuthorityTypeOK
    <2> QED BY <1>1, <2>1 DEF ApplyBatch, AuthorityTypeOK
  <1>4. repairs' \in [Index -> SUBSET Repair]
    <2>1. RepairsAfterReplay(i, s, batch) \in SUBSET Repair
      BY <1>1 DEF RepairsAfterReplay, AuthorityTypeOK
    <2> QED BY <1>1, <2>1 DEF ApplyBatch, AuthorityTypeOK
  <1>5. applied' \in [Index -> [Shard -> Cursor]]
    BY <1>1, <1>2 DEF ApplyBatch, AuthorityTypeOK
  <1>6. AuthorityTypeOK'
    BY <1>1, <1>3, <1>4, <1>5 DEF ApplyBatch, AuthorityTypeOK
  <1>7. [pass[w] EXCEPT !.through = through] \in Pass
    BY <1>1, <1>2 DEF Pass
  <1> QED BY <1>1, <1>6, <1>7, GotoType DEF ApplyBatch, PC

\* The steps that end a pass, reject a batch or come back to the shard loop.
LEMMA OtherWorkerType ==
    ASSUME TypeInv, NEW w \in Worker,
           \/ ReadControl(w) \/ MarkRebuildRequired(w) \/ ApplyFenced(w) \/ FailPass(w)
           \/ RejectBatch(w) \/ RecordPoison(w) \/ Acknowledge(w) \/ BeginPrune(w)
           \/ \E s \in Shard : PruneShard(w, s)
    PROVE  WorkerTypeOK'
  <1>1. pass[w] \in Pass /\ WorkerTypeOK
    BY DEF TypeInv, WorkerTypeOK
  <1>2. [pass[w] EXCEPT !.todo = Shard] \in Pass
    BY <1>1 DEF Pass
  <1>3. [NoPass EXCEPT !.index = pass[w].index, !.todo = pass[w].processed] \in Pass
    BY <1>1, NoPassType DEF Pass
  <1>4. \A s \in Shard : [pass[w] EXCEPT !.todo = pass[w].todo \ {s}] \in Pass
    BY <1>1 DEF Pass
  <1>5. CASE EndPass(w) \/ NextShard(w)
    BY <1>1, <1>5, EndPassType, NextShardType
  <1>6. CASE ReadControl(w)
    BY <1>1, <1>2, <1>5, <1>6, GotoType DEF ReadControl, PC
  <1>7. CASE RejectBatch(w)
    BY <1>1, <1>7, GotoType DEF RejectBatch, PC
  <1>8. CASE BeginPrune(w)
    BY <1>1, <1>3, <1>5, <1>8, GotoType DEF BeginPrune, PC
  <1>9. CASE \E s \in Shard : PruneShard(w, s)
    BY <1>1, <1>4, <1>5, <1>9, GotoType DEF PruneShard, PC
  <1> QED BY <1>5, <1>6, <1>7, <1>8, <1>9
          DEF MarkRebuildRequired, ApplyFenced, FailPass, RecordPoison, Acknowledge

--------------------------------------------------------------------------------
(* The authority file: deleting a build and completing one.                *)

LEMMA DiscardBuildType ==
    ASSUME AuthorityTypeOK, NEW i \in Index, DiscardBuild(i)
    PROVE  AuthorityTypeOK'
  <1>1. FreeLease \in Lease /\ EmptyImage \in Image /\ 0 \in Cursor
    BY AsyncAssumption, OutboxAssumption DEF FreeLease, Lease, EmptyImage, Image, Cursor
  <1>2. built' \in [Index -> BOOLEAN]
    BY DEF DiscardBuild, AuthorityTypeOK
  <1>3. checkpoint' \in [Index -> [Shard -> Image \cup {NoImage}]]
    BY DEF DiscardBuild, AuthorityTypeOK
  <1>4. entries' \in [Index -> [Shard -> Image]]
    BY <1>1 DEF DiscardBuild, AuthorityTypeOK
  <1>5. applied' \in [Index -> [Shard -> Cursor]]
    BY <1>1 DEF DiscardBuild, AuthorityTypeOK
  <1>6. lease' \in [Index -> [Shard -> Lease]]
    BY <1>1 DEF DiscardBuild, AuthorityTypeOK
  <1>7. /\ poisoned' \in [Index -> SUBSET Shard] /\ repairs' \in [Index -> SUBSET Repair]
        /\ rebuild' \subseteq Index /\ paused' \subseteq Index
    BY DEF DiscardBuild, AuthorityTypeOK
  <1> QED BY <1>2, <1>3, <1>4, <1>5, <1>6, <1>7 DEF AuthorityTypeOK

LEMMA SourceImageType ==
    ASSUME OutboxInv, NEW i \in Index, NEW s \in Shard
    PROVE  SourceImage(i, s) \in Image
  BY OutboxAssumption DEF OutboxInv, OutboxTypeOK, SourceImage, Image, RowKey

LEMMA InitializeIndexType ==
    ASSUME TypeInv, InitializeIndex
    PROVE  AuthorityTypeOK'
  <1> DEFINE i == maint.index
  <1>1. AuthorityTypeOK /\ i \in Index /\ last \in [Shard -> Cursor]
    BY DEF TypeInv, ControlTypeOK, OutboxInv, OutboxTypeOK
  <1>2. FreeLease \in Lease
    BY AsyncAssumption DEF FreeLease, Lease
  <1>3. applied' \in [Index -> [Shard -> Cursor]]
    BY <1>1 DEF InitializeIndex, AuthorityTypeOK
  <1>4. lease' \in [Index -> [Shard -> Lease]]
    BY <1>1, <1>2 DEF InitializeIndex, AuthorityTypeOK
  <1>5. /\ built' \in [Index -> BOOLEAN] /\ poisoned' \in [Index -> SUBSET Shard]
        /\ rebuild' \subseteq Index /\ paused' \subseteq Index
    BY <1>1 DEF InitializeIndex, AuthorityTypeOK
  <1> QED BY <1>1, <1>3, <1>4, <1>5 DEF InitializeIndex, AuthorityTypeOK

--------------------------------------------------------------------------------
(* Every step, by what it writes.                                          *)

\* What a worker's step leaves alone.
LEMMA WorkerFrame ==
    ASSUME NEW w \in Worker, WorkerStep(w)
    PROVE  /\ UNCHANGED <<lifecycle, legacy, maint>>
           /\ \/ UNCHANGED outboxVars
              \/ Acknowledge(w) \/ \E s \in Shard : PruneShard(w, s)
           /\ \/ UNCHANGED authorityVars
              \/ MarkRebuildRequired(w) \/ AcquireLease(w) \/ ApplyBatch(w)
  <1>1. CASE \E s \in Shard : SnapshotHighWater(w, s) \/ ReadWatermark(w, s) \/ SelectShard(w, s)
    BY <1>1 DEF SnapshotHighWater, ReadWatermark, SelectShard
  <1>2. CASE \E s \in Shard : PruneShard(w, s)
    BY <1>2 DEF PruneShard
  <1>3. CASE ReadControl(w) \/ CompareConsumer(w) \/ LoadWatermark(w) \/ ReadState(w)
    BY <1>3 DEF ReadControl, CompareConsumer, LoadWatermark, ReadState
  <1>4. CASE ReadEvents(w) \/ ApplyFenced(w) \/ BeginPrune(w) \/ Acknowledge(w)
    BY <1>4 DEF ReadEvents, ApplyFenced, BeginPrune, Acknowledge
  <1>5. CASE MarkRebuildRequired(w) \/ AcquireLease(w) \/ ApplyBatch(w)
    BY <1>5 DEF MarkRebuildRequired, AcquireLease, ApplyBatch
  <1> QED BY <1>1, <1>2, <1>3, <1>4, <1>5 DEF WorkerStep

\* The steps that write a shard file.
LEMMA OutboxWriters ==
    ASSUME Next
    PROVE  \/ UNCHANGED outboxVars
           \/ Write \/ LegacyWrite
           \/ \E w \in Worker : Acknowledge(w) \/ \E s \in Shard : PruneShard(w, s)
           \/ \E s \in Shard : PruneOutbox(s) \/ ActivateShard(s) \/ DeactivateShard(s)
  <1>1. CASE \E w \in Worker : WorkerStep(w)
    BY <1>1, WorkerFrame
  <1>2. CASE Passes \/ Workers \/ Rejections
    BY <1>1, <1>2 DEF Passes, Workers, Rejections, BeginPass, FailPass, RejectBatch, RecordPoison
  <1>3. CASE Writers \/ LegacyWriter \/ Operators \/ Expiry
    BY <1>3 DEF Writers, LegacyWriter, Operators, Expiry, LegacyFence, LegacyError,
       SetPaused, Expire
  <1>4. CASE BuildStep \/ RemoveStep
    BY <1>4 DEF BuildStep, RemoveStep, ScanShard, PrepareBuild, VerifyBuild,
       InitializeIndex, PublishReady, RemoveIndex
  <1>5. CASE Maintenance
    BY <1>4, <1>5 DEF Maintenance, TransitionIndex, BeginBuild, BeginRemove,
       AbandonMaintenance
  <1> QED BY <1>2, <1>3, <1>5 DEF Next, Online

LEMMA OutboxStep == ASSUME TypeInv, Next PROVE OutboxInv'
  <1>1. OutboxInv
    BY DEF TypeInv
  <1>2. CASE UNCHANGED outboxVars
    BY <1>1, <1>2, OutboxUnchanged
  <1>3. CASE Write \/ LegacyWrite
    <2>1. ReadyIndexes \in SUBSET Index /\ {} \in SUBSET Index
      BY DEF ReadyIndexes
    <2> QED BY <1>1, <1>3, <2>1, CommitRowInv DEF Write, LegacyWrite
  <1>4. CASE \E w \in Worker : Acknowledge(w)
    <2>1. PICK w \in Worker : Acknowledge(w)
      BY <1>4
    <2>2. pass[w].index \in Index /\ pass[w].shard \in Shard /\ pass[w].through \in Cursor
      BY DEF TypeInv, WorkerTypeOK, Pass
    <2> QED BY <1>1, <1>2, <2>1, <2>2, AdvanceConsumerInv DEF Acknowledge
  <1>5. CASE (\E w \in Worker, s \in Shard : PruneShard(w, s)) \/ (\E s \in Shard : PruneOutbox(s))
    <2>1. BatchLimit \in Nat
      BY AsyncAssumption
    <2> QED BY <1>1, <1>2, <1>5, <2>1, PruneInv DEF PruneShard, PruneOutbox
  <1>6. CASE \E s \in Shard : ActivateShard(s) \/ DeactivateShard(s)
    <2>1. maint.index \in Index /\ \A s \in Shard : last[s] \in Cursor
      BY DEF TypeInv, ControlTypeOK, OutboxInv, OutboxTypeOK
    <2> QED BY <1>1, <1>6, <2>1, ActivateIndexInv, DeactivateIndexInv
            DEF ActivateShard, DeactivateShard
  <1> QED BY <1>2, <1>3, <1>4, <1>5, <1>6, OutboxWriters

\* The steps of workers.
LEMMA WorkerTypeStep == ASSUME TypeInv, Next PROVE WorkerTypeOK'
  <1>1. WorkerTypeOK
    BY DEF TypeInv
  <1>2. CASE UNCHANGED workerVars
    BY <1>1, <1>2 DEF WorkerTypeOK, workerVars
  <1>3. CASE \E w \in Worker : WorkerStep(w)
    <2>1. PICK w \in Worker : WorkerStep(w)
      BY <1>3
    <2> QED BY <2>1, SnapshotHighWaterType, ReadWatermarkType, SelectShardType,
               CompareConsumerType, LoadWatermarkType, AcquireLeaseType, ReadStateType,
               ReadEventsType, ApplyBatchType, OtherWorkerType DEF WorkerStep
  <1>4. CASE Passes \/ Workers \/ Rejections
    BY <1>3, <1>4, BeginPassType, OtherWorkerType DEF Passes, Workers, Rejections
  <1>5. CASE Writers \/ LegacyWriter \/ Operators \/ Expiry
    BY <1>2, <1>5 DEF Writers, LegacyWriter, Operators, Expiry, Write, LegacyFence,
       LegacyWrite, LegacyError, SetPaused, PruneOutbox, Expire
  <1>6. CASE BuildStep \/ RemoveStep
    BY <1>2, <1>6 DEF BuildStep, RemoveStep, ScanShard, ActivateShard, PrepareBuild,
       VerifyBuild, InitializeIndex, PublishReady, DeactivateShard, RemoveIndex
  <1>7. CASE Maintenance
    BY <1>2, <1>6, <1>7 DEF Maintenance, TransitionIndex, BeginBuild, BeginRemove,
       AbandonMaintenance
  <1> QED BY <1>4, <1>5, <1>7 DEF Next, Online

\* The steps that write the authority file.
LEMMA AuthorityTypeStep == ASSUME TypeInv, Next PROVE AuthorityTypeOK'
  <1>1. AuthorityTypeOK
    BY DEF TypeInv
  <1>2. CASE UNCHANGED authorityVars
    BY <1>1, <1>2 DEF AuthorityTypeOK, authorityVars
  <1>3. ASSUME NEW w \in Worker, MarkRebuildRequired(w) PROVE AuthorityTypeOK'
    BY <1>1, <1>3 DEF MarkRebuildRequired, AuthorityTypeOK, TypeInv, WorkerTypeOK, Pass
  <1>4. CASE \E w \in Worker : WorkerStep(w)
    BY <1>2, <1>3, <1>4, WorkerFrame, AcquireLeaseType, ApplyBatchType
  <1>5. ASSUME NEW w \in Worker, RecordPoison(w) PROVE AuthorityTypeOK'
    <2>1. pass[w].index \in Index /\ pass[w].shard \in Shard
      BY DEF TypeInv, WorkerTypeOK, Pass
    <2> QED BY <1>1, <1>5, <2>1 DEF RecordPoison, AuthorityTypeOK
  <1>6. CASE Passes \/ Workers \/ Rejections
    BY <1>2, <1>4, <1>5, <1>6 DEF Passes, Workers, Rejections, BeginPass, FailPass, RejectBatch
  <1>7. ASSUME NEW i \in Index, NEW s \in Shard, Expire(i, s) PROVE AuthorityTypeOK'
    <2>1. [lease[i][s] EXCEPT !.expired = TRUE] \in Lease
      <3>1. lease[i][s] \in Lease
        BY <1>1 DEF AuthorityTypeOK
      <3> QED BY <3>1 DEF Lease
    <2>2. lease' = [lease EXCEPT ![i] = [lease[i] EXCEPT ![s] =
                       [lease[i][s] EXCEPT !.expired = TRUE]]]
      BY <1>1, <1>7 DEF Expire, AuthorityTypeOK
    <2>3. lease' \in [Index -> [Shard -> Lease]]
      BY <1>1, <2>1, <2>2 DEF AuthorityTypeOK
    <2> QED BY <1>1, <1>7, <2>3 DEF Expire, AuthorityTypeOK
  <1>8. CASE Writers \/ LegacyWriter \/ Operators \/ Expiry
    <2>1. CASE LegacyFence \/ \E i \in Index : SetPaused(i)
      BY <1>1, <2>1 DEF LegacyFence, SetPaused, AuthorityTypeOK, ReadyIndexes
    <2> QED BY <1>2, <1>7, <1>8, <2>1 DEF Writers, LegacyWriter, Operators, Expiry, Write,
               LegacyWrite, LegacyError, PruneOutbox
  <1>9. ASSUME NEW s \in Shard, ScanShard(s) PROVE AuthorityTypeOK'
    <2>1. maint.index \in Index /\ SourceImage(maint.index, s) \in Image
      BY SourceImageType DEF TypeInv, ControlTypeOK
    <2> QED BY <1>1, <1>9, <2>1 DEF ScanShard, AuthorityTypeOK
  <1>10. CASE BuildStep \/ RemoveStep
    <2>1. maint.index \in Index
      BY DEF TypeInv, ControlTypeOK
    <2> QED BY <1>1, <1>2, <1>9, <1>10, <2>1, DiscardBuildType, InitializeIndexType
            DEF BuildStep, RemoveStep, ActivateShard, PrepareBuild, VerifyBuild,
                PublishReady, DeactivateShard, RemoveIndex
  <1>11. CASE Maintenance
    BY <1>2, <1>10, <1>11 DEF Maintenance, TransitionIndex, BeginBuild, BeginRemove,
       AbandonMaintenance
  <1> QED BY <1>6, <1>8, <1>11 DEF Next, Online

\* The catalog, the legacy writer and the offline operation.
LEMMA ControlTypeStep == ASSUME TypeInv, Next PROVE ControlTypeOK'
  <1>1. ControlTypeOK
    BY DEF TypeInv
  <1>2. CASE UNCHANGED <<lifecycle, legacy, maint>>
    BY <1>1, <1>2 DEF ControlTypeOK
  <1>3. CASE Passes \/ Workers \/ Rejections
    BY <1>2, <1>3, WorkerFrame DEF Passes, Workers, Rejections, BeginPass, FailPass,
       RejectBatch, RecordPoison
  <1>4. CASE Writers \/ Operators \/ Expiry
    BY <1>2, <1>4 DEF Writers, Operators, Expiry, Write, SetPaused, PruneOutbox, Expire
  <1>5. CASE LegacyWriter
    BY <1>1, <1>5 DEF LegacyWriter, LegacyFence, LegacyWrite, LegacyError, ControlTypeOK
  <1>6. NoMaint \in [phase : Phase, index : Index, todo : SUBSET Shard]
    BY AsyncAssumption DEF NoMaint, Phase
  <1>7. ASSUME NEW i \in Index, NEW phase \in Phase, NEW todo \in SUBSET Shard,
               Maintain(i, phase, todo)
        PROVE  maint' \in [phase : Phase, index : Index, todo : SUBSET Shard]
    BY <1>7 DEF Maintain
  <1>8. maint.index \in Index /\ maint.todo \in SUBSET Shard
    BY <1>1 DEF ControlTypeOK
  <1>9. CASE \E s \in Shard : ScanShard(s) \/ ActivateShard(s) \/ DeactivateShard(s)
    BY <1>1, <1>7, <1>8, <1>9 DEF ScanShard, ActivateShard, DeactivateShard, ControlTypeOK, Phase
  <1>10. CASE PrepareBuild \/ VerifyBuild \/ InitializeIndex
    BY <1>1, <1>6, <1>7, <1>8, <1>10
       DEF PrepareBuild, VerifyBuild, InitializeIndex, ControlTypeOK, Phase
  <1>11. CASE PublishReady \/ RemoveIndex \/ AbandonMaintenance
    BY <1>1, <1>6, <1>8, <1>11
       DEF PublishReady, RemoveIndex, AbandonMaintenance, ControlTypeOK, Lifecycle
  <1>12. CASE \E i \in Index : TransitionIndex(i)
    BY <1>1, <1>12 DEF TransitionIndex, ControlTypeOK
  <1>13. CASE \E i \in Index : BeginBuild(i) \/ BeginRemove(i)
    BY <1>1, <1>7, <1>13 DEF BeginBuild, BeginRemove, ControlTypeOK, Phase, Lifecycle
  <1>14. CASE Maintenance
    BY <1>9, <1>10, <1>11, <1>12, <1>13, <1>14 DEF Maintenance, BuildStep, RemoveStep
  <1> QED BY <1>3, <1>4, <1>5, <1>14 DEF Next, Online

LEMMA TypeInit == AsyncInit => TypeInv
  <1> SUFFICES ASSUME AsyncInit PROVE TypeInv
    OBVIOUS
  <1>1. OutboxInv
    BY OutboxInitInv DEF AsyncInit
  <1>2. FreeLease \in Lease /\ EmptyImage \in Image /\ 0 \in Cursor
    BY AsyncAssumption, OutboxAssumption DEF FreeLease, Lease, EmptyImage, Image, Cursor
  <1>3. AuthorityTypeOK
    BY <1>2 DEF AsyncInit, AuthorityTypeOK
  <1>4. WorkerTypeOK
    BY NoPassType DEF AsyncInit, WorkerTypeOK, PC
  <1>5. NoMaint \in [phase : Phase, index : Index, todo : SUBSET Shard]
    BY AsyncAssumption DEF NoMaint, Phase
  <1>6. ControlTypeOK
    BY <1>5 DEF AsyncInit, ControlTypeOK, Lifecycle
  <1> QED BY <1>1, <1>3, <1>4, <1>6 DEF TypeInv

LEMMA TypeStep == ASSUME TypeInv, [Next]_vars PROVE TypeInv'
  <1>1. CASE Next
    BY <1>1, OutboxStep, WorkerTypeStep, AuthorityTypeStep, ControlTypeStep DEF TypeInv
  <1>2. CASE UNCHANGED vars
    <2>1. OutboxInv'
      BY <1>2, OutboxUnchanged DEF TypeInv, vars
    <2>2. WorkerTypeOK' /\ AuthorityTypeOK' /\ ControlTypeOK'
      BY <1>2 DEF TypeInv, vars, workerVars, authorityVars, WorkerTypeOK, AuthorityTypeOK,
         ControlTypeOK
    <2> QED BY <2>1, <2>2 DEF TypeInv
  <1> QED BY <1>1, <1>2

\* Every reachable state is well-typed: no cursor, fence token, event or pass
\* leaves its range, whatever the workers, operators and crashes do.
THEOREM TypeCorrect == Spec => []AsyncTypeOK
  <1>1. TypeInv => AsyncTypeOK
    BY DEF TypeInv, OutboxInv, AuthorityTypeOK, WorkerTypeOK, ControlTypeOK, AsyncTypeOK
  <1> QED BY <1>1, TypeInit, TypeStep, PTL DEF Spec

\* The outbox of every shard stays gap-free and inside its retention limit, and no
\* prune crosses an active consumer, with all transactions of all processes
\* interleaved (append_events, prune, advance_consumer, activate_index).
THEOREM OutboxSafe == Spec => [](GapFree /\ ConsumerBounds /\ RetentionBound)
  <1>1. TypeInv => GapFree /\ ConsumerBounds /\ RetentionBound
    BY DEF TypeInv, OutboxInv
  <1> QED BY <1>1, TypeInit, TypeStep, PTL DEF Spec

\* No prune passes an active consumer and no consumer passes the last cursor
\* (prune, advance_consumer, activate_index).
THEOREM ConsumersSafe == Spec => []ConsumerBounds
  <1>1. TypeInv => ConsumerBounds
    BY DEF TypeInv, OutboxInv
  <1> QED BY <1>1, TypeInit, TypeStep, PTL DEF Spec

\* An outbox never retains more events than its limit (append_events).
THEOREM RetentionSafe == Spec => []RetentionBound
  <1>1. TypeInv => RetentionBound
    BY DEF TypeInv, OutboxInv
  <1> QED BY <1>1, TypeInit, TypeStep, PTL DEF Spec
================================================================================
