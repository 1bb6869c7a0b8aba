------------------------ MODULE GlobalIndexReplayProofs ------------------------
(***************************************************************************)
(* Why an index in service tells the truth: MaintenanceInv is inductive,   *)
(* for any number of indexes, shards, rows, workers, cursors and fences.   *)
(***************************************************************************)
EXTENDS GlobalIndexAsyncProofs

\* The invariant of the indexes I: the argument follows every index on its own.
ReplayInv(I) == TypeInv /\ MaintenanceOf(I)

--------------------------------------------------------------------------------
(* Frames: what online and offline steps leave alone.                      *)

\* Row writers, operators and workers neither publish nor withdraw an index.
LEMMA OnlineFrame ==
    ASSUME Online
    PROVE  UNCHANGED <<lifecycle, maint>> /\ rebuild \subseteq rebuild'
  <1>1. ASSUME NEW w \in Worker, WorkerStep(w)
        PROVE  UNCHANGED <<lifecycle, maint>> /\ rebuild \subseteq rebuild'
    BY <1>1, WorkerFrame DEF authorityVars, MarkRebuildRequired, AcquireLease, ApplyBatch
  <1>2. CASE Passes \/ Workers \/ Rejections
    BY <1>1, <1>2 DEF Passes, Workers, Rejections, BeginPass, FailPass, RejectBatch,
       RecordPoison, authorityVars
  <1>3. CASE Writers \/ LegacyWriter \/ Operators \/ Expiry
    BY <1>3 DEF Writers, LegacyWriter, Operators, Expiry, Write, LegacyFence, LegacyWrite,
       LegacyError, SetPaused, PruneOutbox, Expire, authorityVars
  <1> QED BY <1>2, <1>3 DEF Online

\* A worker that takes a step is in the middle of a pass.
LEMMA WorkerBusy == ASSUME NEW w \in Worker, WorkerStep(w) PROVE pc[w] # "idle"
  <1>1. CASE \E s \in Shard : \/ SnapshotHighWater(w, s) \/ ReadWatermark(w, s)
                              \/ SelectShard(w, s) \/ PruneShard(w, s)
    BY <1>1 DEF SnapshotHighWater, ReadWatermark, SelectShard, PruneShard
  <1>2. CASE ReadControl(w) \/ CompareConsumer(w) \/ MarkRebuildRequired(w) \/ LoadWatermark(w)
    BY <1>2 DEF ReadControl, CompareConsumer, MarkRebuildRequired, LoadWatermark
  <1>3. CASE AcquireLease(w) \/ ReadState(w) \/ ReadEvents(w) \/ ApplyBatch(w)
    BY <1>3 DEF AcquireLease, ReadState, ReadEvents, ApplyBatch
  <1>4. CASE ApplyFenced(w) \/ Acknowledge(w) \/ BeginPrune(w)
    BY <1>4 DEF ApplyFenced, Acknowledge, BeginPrune
  <1> QED BY <1>1, <1>2, <1>3, <1>4 DEF WorkerStep

\* While an offline operation owns the gate, time may pass and a prune may run.
LEMMA OnlineWhileOffline ==
    ASSUME OfflineAlone, Online, maint.phase # "none"
    PROVE  UNCHANGED <<rows, last, consumer, applied, entries, workerVars, legacy>>
  <1>1. \A w \in Worker : pc[w] = "idle"
    BY DEF OfflineAlone
  <1>2. legacy = "idle"
    BY DEF OfflineAlone
  <1>3. CASE Passes \/ Workers \/ Rejections
    BY <1>1, <1>3, WorkerBusy DEF Passes, Workers, Rejections, BeginPass, GateOpen, FailPass,
       RejectBatch, RecordPoison
  <1>4. CASE Writers \/ LegacyWriter
    BY <1>2, <1>4 DEF Writers, LegacyWriter, Write, LegacyFence, LegacyWrite, LegacyError, GateOpen
  <1>5. CASE Operators \/ Expiry
    BY <1>5 DEF Operators, Expiry, SetPaused, PruneOutbox, Prune, Expire, GateOpen,
       outboxVars, authorityVars
  <1> QED BY <1>3, <1>4, <1>5 DEF Online

\* An offline step needs every worker idle, and touches no row and no event.
LEMMA MaintenanceFrame ==
    ASSUME OfflineAlone, Maintenance
    PROVE  /\ UNCHANGED <<workerVars, legacy, rows, events, last, pruned>>
           /\ legacy = "idle"
           /\ \A w \in Worker : pc[w] = "idle"
  <1>1. CASE \E i \in Index : TransitionIndex(i) \/ BeginBuild(i) \/ BeginRemove(i)
    BY <1>1 DEF TransitionIndex, BeginBuild, BeginRemove, Quiescent, outboxVars
  <1>2. CASE \E s \in Shard : ScanShard(s) \/ ActivateShard(s) \/ DeactivateShard(s)
    BY <1>2 DEF ScanShard, ActivateShard, DeactivateShard, ActivateIndex, DeactivateIndex,
       OfflineAlone, outboxVars
  <1>3. CASE PrepareBuild \/ VerifyBuild \/ InitializeIndex
    BY <1>3 DEF PrepareBuild, VerifyBuild, InitializeIndex, OfflineAlone, outboxVars
  <1>4. CASE PublishReady \/ RemoveIndex \/ AbandonMaintenance
    BY <1>4 DEF PublishReady, RemoveIndex, AbandonMaintenance, OfflineAlone, outboxVars
  <1> QED BY <1>1, <1>2, <1>3, <1>4 DEF Maintenance, BuildStep, RemoveStep

\* An index that is in service after an offline step was just published, or is
\* not the one the step works on and keeps all it has.
LEMMA MaintenanceReady ==
    ASSUME TypeInv, OfflineAlone, Maintenance, NEW i \in Index, lifecycle'[i] = "Ready"
    PROVE  \/ PublishReady /\ i = maint.index
           \/ /\ lifecycle[i] = "Ready"
              /\ entries'[i] = entries[i] /\ applied'[i] = applied[i]
              /\ i \in rebuild => i \in rebuild'
              /\ \A s \in Shard : consumer'[s][i] = consumer[s][i]
  <1> USE DEF TypeInv, ControlTypeOK, AuthorityTypeOK, OutboxInv, OutboxTypeOK
  <1>1. CASE \E j \in Index : TransitionIndex(j) \/ BeginBuild(j) \/ BeginRemove(j)
    BY <1>1 DEF TransitionIndex, CanTransition, BeginBuild, BeginRemove, outboxVars, authorityVars
  <1>2. CASE \E s \in Shard : ActivateShard(s) \/ DeactivateShard(s)
    <2>1. UNCHANGED <<lifecycle, authorityVars>> /\ maint.phase # "none"
      BY <1>2 DEF ActivateShard, DeactivateShard
    <2>2. i # maint.index
      BY <2>1 DEF OfflineAlone
    <2>3. \A s \in Shard : consumer'[s][i] = consumer[s][i]
      <3>1. PICK t \in Shard : ActivateIndex(maint.index, t, last[t]) \/ DeactivateIndex(maint.index, t)
        BY <1>2 DEF ActivateShard, DeactivateShard
      <3>2. PICK x : consumer' = [consumer EXCEPT ![t][maint.index] = x]
        BY <3>1, Zenon DEF ActivateIndex, DeactivateIndex
      <3> QED BY <2>2, <3>2
    <2> QED BY <2>1, <2>3 DEF authorityVars
  <1>3. CASE \/ \E s \in Shard : ScanShard(s)
             \/ PrepareBuild \/ VerifyBuild \/ InitializeIndex
    <2>1. UNCHANGED <<lifecycle, consumer>> /\ maint.phase # "none"
      BY <1>3 DEF ScanShard, PrepareBuild, VerifyBuild, InitializeIndex, outboxVars
    <2>2. i # maint.index
      BY <2>1 DEF OfflineAlone
    <2>3. CASE \E s \in Shard : ScanShard(s)
      BY <2>1, <2>2, <2>3 DEF ScanShard
    <2>4. CASE PrepareBuild
      BY <2>1, <2>2, <2>4 DEF PrepareBuild, DiscardBuild, authorityVars
    <2>5. CASE VerifyBuild \/ InitializeIndex
      BY <2>1, <2>2, <2>5 DEF VerifyBuild, InitializeIndex, authorityVars
    <2> QED BY <1>3, <2>3, <2>4, <2>5
  <1>4. CASE PublishReady \/ AbandonMaintenance
    BY <1>4 DEF PublishReady, AbandonMaintenance, outboxVars, authorityVars
  <1>5. CASE RemoveIndex
    BY <1>5 DEF RemoveIndex, DiscardBuild, outboxVars, authorityVars
  <1> QED BY <1>1, <1>2, <1>3, <1>4, <1>5 DEF Maintenance, BuildStep, RemoveStep

\* No offline step moves the watermarks of an index in service.
LEMMA MaintenanceKeeps ==
    ASSUME TypeInv, OfflineAlone, Maintenance, NEW i \in Index, lifecycle[i] = "Ready"
    PROVE  applied'[i] = applied[i]
  <1>1. CASE \E j \in Index : TransitionIndex(j) \/ BeginBuild(j) \/ BeginRemove(j)
    BY <1>1 DEF TransitionIndex, BeginBuild, BeginRemove, authorityVars
  <1>2. CASE \/ \E s \in Shard : ScanShard(s) \/ ActivateShard(s) \/ DeactivateShard(s)
             \/ VerifyBuild \/ PublishReady \/ AbandonMaintenance
    BY <1>2 DEF ScanShard, ActivateShard, DeactivateShard, VerifyBuild, PublishReady,
       AbandonMaintenance, authorityVars
  <1>3. CASE PrepareBuild \/ InitializeIndex \/ RemoveIndex
    <2>1. i # maint.index
      BY <1>3 DEF PrepareBuild, InitializeIndex, RemoveIndex, OfflineAlone
    <2> QED BY <1>3, <2>1 DEF PrepareBuild, InitializeIndex, RemoveIndex, DiscardBuild,
               authorityVars, TypeInv, AuthorityTypeOK
  <1> QED BY <1>1, <1>2, <1>3 DEF Maintenance, BuildStep, RemoveStep

--------------------------------------------------------------------------------
(* The offline operation.                                                  *)

LEMMA OfflineAloneStep == ASSUME TypeInv, OfflineAlone, Next PROVE OfflineAlone'
  <1>1. CASE Online
    <2>1. UNCHANGED <<lifecycle, maint>>
      BY <1>1, OnlineFrame
    <2>2. CASE maint.phase = "none"
      BY <2>1, <2>2 DEF OfflineAlone
    <2>3. CASE maint.phase # "none"
      <3>1. UNCHANGED <<workerVars, legacy>>
        BY <1>1, <2>3, OnlineWhileOffline
      <3> QED BY <2>1, <2>3, <3>1 DEF OfflineAlone, workerVars
    <2> QED BY <2>2, <2>3
  <1>2. CASE Maintenance
    <2>1. UNCHANGED <<pc, legacy>> /\ legacy = "idle" /\ \A w \in Worker : pc[w] = "idle"
      BY <1>2, MaintenanceFrame DEF workerVars
    <2>2. lifecycle'[maint'.index] # "Ready" \/ maint'.phase = "none"
      <3> USE DEF TypeInv, ControlTypeOK
      <3>1. CASE \E i \in Index : TransitionIndex(i) \/ BeginBuild(i) \/ BeginRemove(i)
        BY <3>1 DEF TransitionIndex, BeginBuild, BeginRemove, Maintain, Quiescent, GateOpen
      <3>2. CASE \E s \in Shard : ScanShard(s) \/ ActivateShard(s) \/ DeactivateShard(s)
        BY <3>2 DEF ScanShard, ActivateShard, DeactivateShard, Maintain, OfflineAlone
      <3>3. CASE PrepareBuild \/ VerifyBuild \/ InitializeIndex
        BY <3>3 DEF PrepareBuild, VerifyBuild, InitializeIndex, Maintain, OfflineAlone, NoMaint
      <3>4. CASE PublishReady \/ RemoveIndex \/ AbandonMaintenance
        BY <3>4 DEF PublishReady, RemoveIndex, AbandonMaintenance, NoMaint
      <3> QED BY <1>2, <3>1, <3>2, <3>3, <3>4 DEF Maintenance, BuildStep, RemoveStep
    <2> QED BY <2>1, <2>2 DEF OfflineAlone
  <1> QED BY <1>1, <1>2 DEF Next

\* A build publishes only what it scanned, activated and initialised.
LEMMA BuildStageStep == ASSUME NEW I \in SUBSET Index, ReplayInv(I), Next PROVE BuildStage'
  <1>1. TypeInv /\ OfflineAlone /\ BuildStage
    BY DEF ReplayInv, MaintenanceOf
  <1>2. CASE Online
    <2>1. UNCHANGED <<lifecycle, maint>>
      BY <1>2, OnlineFrame
    <2>2. CASE maint.phase = "none"
      BY <2>1, <2>2 DEF BuildStage
    <2>3. CASE maint.phase # "none"
      <3>1. UNCHANGED <<rows, last, consumer, applied, entries>>
        BY <1>1, <1>2, <2>3, OnlineWhileOffline
      <3> QED BY <1>1, <2>1, <3>1 DEF BuildStage, SourceImage, IsActive
    <2> QED BY <2>2, <2>3
  <1>3. CASE maint'.phase \notin {"activate", "publish"}
    BY <1>3 DEF BuildStage
  <1>4. maint.index \in Index /\ maint.todo \in SUBSET Shard
    BY <1>1 DEF TypeInv, ControlTypeOK
  <1>5. CASE VerifyBuild
    <2>1. CASE maint' = NoMaint
      BY <1>3, <2>1 DEF NoMaint
    <2>2. CASE Maintain(maint.index, "activate", Shard) /\ \A s \in Shard : ShardValid(maint.index, s)
      BY <1>5, <2>2 DEF VerifyBuild, Maintain, ShardValid, BuildStage, SourceImage, outboxVars,
         authorityVars
    <2> QED BY <1>5, <2>1, <2>2 DEF VerifyBuild
  <1>6. ASSUME NEW s \in Shard, ActivateShard(s) PROVE BuildStage'
    <2>1. /\ maint'.phase = "activate" /\ maint'.index = maint.index
          /\ maint'.todo = maint.todo \ {s} /\ maint.phase = "activate"
      BY <1>6 DEF ActivateShard, Maintain
    <2>2. UNCHANGED <<rows, last, entries>>
      BY <1>6 DEF ActivateShard, ActivateIndex, authorityVars
    <2>3. consumer' = [consumer EXCEPT ![s][maint.index] =
                          [state |-> "active", cursor |-> last[s]]]
      BY <1>6 DEF ActivateShard, ActivateIndex
    <2>4. ASSUME NEW t \in Shard \ maint'.todo
          PROVE  consumer'[t][maint.index].state = "active"
                 /\ consumer'[t][maint.index].cursor = last[t]
      <3>1. CASE t = s
        BY <1>1, <1>4, <2>3, <3>1 DEF TypeInv, OutboxInv, OutboxTypeOK
      <3>2. CASE t # s
        BY <1>1, <1>4, <2>1, <2>3, <2>4, <3>2 DEF TypeInv, OutboxInv, OutboxTypeOK, BuildStage, IsActive
      <3> QED BY <3>1, <3>2
    <2>5. \A t \in Shard : entries[maint.index][t] = SourceImage(maint.index, t)
      BY <1>1, <2>1 DEF BuildStage
    <2> QED BY <2>1, <2>2, <2>4, <2>5 DEF BuildStage, IsActive, SourceImage
  <1>7. CASE InitializeIndex
    <2>1. /\ maint'.phase = "publish" /\ maint'.index = maint.index
          /\ maint.todo = {} /\ maint.phase = "activate"
      BY <1>7 DEF InitializeIndex, Maintain
    <2>2. UNCHANGED <<rows, last, consumer, entries>>
      BY <1>7 DEF InitializeIndex, outboxVars
    <2>3. \A s \in Shard : applied'[maint.index][s] = last[s]
      BY <1>1, <1>4, <1>7 DEF InitializeIndex, TypeInv, AuthorityTypeOK
    <2> QED BY <1>1, <2>1, <2>2, <2>3 DEF BuildStage, IsActive, SourceImage
  <1>8. CASE \E i \in Index : TransitionIndex(i) \/ BeginBuild(i) \/ BeginRemove(i)
    BY <1>3, <1>8 DEF TransitionIndex, BeginBuild, BeginRemove, Maintain, Quiescent, GateOpen
  <1>9. CASE \E s \in Shard : ScanShard(s) \/ DeactivateShard(s)
    BY <1>3, <1>9 DEF ScanShard, DeactivateShard, Maintain
  <1>10. CASE PrepareBuild \/ PublishReady \/ RemoveIndex \/ AbandonMaintenance
    BY <1>3, <1>10 DEF PrepareBuild, PublishReady, RemoveIndex, AbandonMaintenance, Maintain, NoMaint
  <1> QED BY <1>2, <1>5, <1>6, <1>7, <1>8, <1>9, <1>10 DEF Next, Maintenance, BuildStep, RemoveStep

\* Between the fence of a legacy write and its row, no index comes into service.
LEMMA LegacyFencedStep == ASSUME NEW I \in SUBSET Index, ReplayInv(I), Next PROVE LegacyFenced'
  <1>1. OfflineAlone /\ LegacyFenced
    BY DEF ReplayInv, MaintenanceOf
  <1>2. CASE Maintenance
    BY <1>1, <1>2, MaintenanceFrame DEF LegacyFenced
  <1>3. CASE LegacyFence
    BY <1>3 DEF LegacyFence, LegacyFenced, ReadyIndexes
  <1>4. CASE Online /\ legacy = "fenced"
    <2>1. ReadyIndexes \subseteq rebuild
      BY <1>1, <1>4 DEF LegacyFenced
    <2>2. UNCHANGED lifecycle /\ rebuild \subseteq rebuild'
      BY <1>4, OnlineFrame
    <2> QED BY <2>1, <2>2 DEF LegacyFenced, ReadyIndexes
  <1>5. CASE Online /\ legacy # "fenced" /\ ~ LegacyFence
    <2> SUFFICES legacy' = legacy
      BY <1>5 DEF LegacyFenced
    <2>1. ASSUME NEW w \in Worker, WorkerStep(w) PROVE legacy' = legacy
      BY <2>1, WorkerFrame
    <2>2. CASE Passes \/ Workers \/ Rejections
      BY <2>1, <2>2 DEF Passes, Workers, Rejections, BeginPass, FailPass, RejectBatch, RecordPoison
    <2>3. CASE Writers \/ LegacyWriter \/ Operators \/ Expiry
      BY <1>5, <2>3 DEF Writers, LegacyWriter, Operators, Expiry, Write, LegacyWrite,
         LegacyError, SetPaused, PruneOutbox, Expire
    <2> QED BY <1>5, <2>2, <2>3 DEF Online
  <1> QED BY <1>2, <1>3, <1>4, <1>5 DEF Next

--------------------------------------------------------------------------------
(* Streams in service only move forward.                                   *)

\* The pass of a worker, its parts typed.
LEMMA PassType ==
    ASSUME TypeInv, NEW w \in Worker
    PROVE  /\ pass[w] \in Pass
           /\ pass[w].index \in Index /\ pass[w].shard \in Shard
           /\ pass[w].wm \in [Shard -> Cursor]
           /\ pass[w].batch \in Batch
           /\ pass[w].after \in Cursor /\ pass[w].high \in Cursor /\ pass[w].through \in Cursor
  BY DEF TypeInv, WorkerTypeOK, Pass

LEMMA CursorType ==
    ASSUME TypeInv, NEW i \in Index, NEW s \in Shard
    PROVE  /\ applied[i][s] \in Nat /\ last[s] \in Nat /\ pruned[s] \in Nat
           /\ consumer[s][i].cursor \in Nat
           /\ last[s] <= MaxCursor /\ MaxCursor \in Nat
  BY OutboxAssumption DEF TypeInv, AuthorityTypeOK, OutboxInv, OutboxTypeOK, Cursor

\* A batch takes the watermark at least to where it started, at most to the
\* high-water mark it was read under.
LEMMA ThroughBounds ==
    ASSUME TypeInv, NEW w \in Worker, PassBounds(w), pc[w] \in {"apply", "poison"}
    PROVE  /\ pass[w].after <= AppliedThrough(pass[w].batch, pass[w].high)
           /\ AppliedThrough(pass[w].batch, pass[w].high) <= pass[w].high
           /\ AppliedThrough(pass[w].batch, pass[w].high) \in Nat
  <1> DEFINE after == pass[w].after
             high == pass[w].high
             through == AppliedThrough(pass[w].batch, high)
  <1>1. after \in Nat /\ high \in Nat
    BY PassType, OutboxAssumption DEF Cursor
  <1>2. after <= high /\ BatchCursors(pass[w].batch) \subseteq (after + 1)..high
    BY DEF PassBounds
  <1>3. through = high \/ through \in BatchCursors(pass[w].batch)
    BY PassType, AppliedThroughBounds
  <1> QED BY <1>1, <1>2, <1>3

\* A row transaction appends after the high-water mark.
LEMMA CommitRowKeeps ==
    ASSUME OutboxInv, NEW t \in Shard,
           NEW old \in Locator \cup {NoLocator}, NEW new \in Locator \cup {NoLocator},
           NEW v \in Value \cup {NoRow}, NEW captured \in SUBSET Index,
           CommitRow(t, old, new, v, captured),
           NEW s \in Shard
    PROVE  /\ last[s] <= last'[s]
           /\ \A c \in 1..last[s] : events'[s][c] = events[s][c]
           /\ \A i \in Index : IsActive(s, i) => consumer'[s][i] = consumer[s][i]
  <1> DEFINE planned == {i \in captured : PlansEvent(i, t, old, new, v)}
             n == Cardinality(planned)
  <1>1. n \in Nat
    <2>1. planned \in SUBSET Index
      OBVIOUS
    <2> QED BY <2>1, PlannedSize
  <1>2. /\ last' = [last EXCEPT ![t] = last[t] + n]
        /\ consumer' = [consumer EXCEPT ![t] = FirstSeen(t, planned)]
    BY DEF CommitRow
  <1>3. PICK e : events' = [events EXCEPT ![t] = [c \in 1..MaxCursor |->
                    IF c \in (last[t] + 1)..(last[t] + n) THEN e[c] ELSE events[t][c]]]
    <2>1. PICK order \in [1..n -> planned] :
             events' = [events EXCEPT ![t] = [c \in 1..MaxCursor |->
                           IF c \in (last[t] + 1)..(last[t] + n)
                           THEN PlannedEvent(order[c - last[t]], t, old, new, v)
                           ELSE events[t][c]]]
      BY DEF CommitRow
    <2> DEFINE e == [c \in 1..MaxCursor |-> PlannedEvent(order[c - last[t]], t, old, new, v)]
    <2>2. \A c \in 1..MaxCursor : e[c] = PlannedEvent(order[c - last[t]], t, old, new, v)
      OBVIOUS
    <2>3. [c \in 1..MaxCursor |-> IF c \in (last[t] + 1)..(last[t] + n)
                                  THEN PlannedEvent(order[c - last[t]], t, old, new, v)
                                  ELSE events[t][c]]
          = [c \in 1..MaxCursor |-> IF c \in (last[t] + 1)..(last[t] + n)
                                    THEN e[c] ELSE events[t][c]]
      BY <2>2, Zenon
    <2> HIDE DEF e
    <2> QED BY <2>1, <2>3
  <1>4. last \in [Shard -> Cursor] /\ events \in [Shard -> [1..MaxCursor -> Event \cup {NoEvent}]]
        /\ consumer \in [Shard -> [Index -> [state : {"none", "active", "inactive"},
                                             cursor : Cursor]]]
    BY DEF OutboxInv, OutboxTypeOK
  <1>5. last[s] \in Nat /\ last[t] \in Nat /\ last[s] <= MaxCursor /\ MaxCursor \in Nat
    BY <1>4, OutboxAssumption DEF Cursor
  <1>6. last[s] <= last'[s]
    BY <1>1, <1>2, <1>4, <1>5
  <1>7. \A c \in 1..last[s] : events'[s][c] = events[s][c]
    BY <1>1, <1>3, <1>4, <1>5
  <1>8. \A i \in Index : IsActive(s, i) => consumer'[s][i] = consumer[s][i]
    BY <1>2, <1>4 DEF FirstSeen, IsActive
  <1> QED BY <1>6, <1>7, <1>8

\* A prune deletes no event past the watermark of an index in service.
LEMMA PruneKeeps ==
    ASSUME TypeInv, NEW t \in Shard, Prune(t, BatchLimit),
           NEW i \in Index, AckBehind(i), lifecycle[i] = "Ready", NEW s \in Shard
    PROVE  \A c \in (applied[i][s] + 1)..last[s] : events'[s][c] = events[s][c]
  <1>1. PICK through \in (pruned[t] + 1)..last[t] :
          /\ AckedThrough(t, through)
          /\ events' = [events EXCEPT ![t] = [c \in 1..MaxCursor |->
                IF c <= through THEN NoEvent ELSE events[t][c]]]
    BY DEF Prune
  <1>2. events \in [Shard -> [1..MaxCursor -> Event \cup {NoEvent}]]
    BY DEF TypeInv, OutboxInv, OutboxTypeOK
  <1>3. CASE s # t
    BY <1>1, <1>2, <1>3
  <1>4. CASE s = t
    <2>1. through <= applied[i][s]
      <3>1. through <= consumer[s][i].cursor /\ consumer[s][i].cursor <= applied[i][s]
        BY <1>1, <1>4 DEF AckBehind, AckedThrough
      <3> QED BY <1>1, <1>4, <3>1, CursorType
    <2>2. ASSUME NEW c \in (applied[i][s] + 1)..last[s] PROVE events'[s][c] = events[s][c]
      <3>1. c \in 1..MaxCursor /\ ~ (c <= through)
        BY <1>1, <1>4, <2>1, <2>2, CursorType
      <3> QED BY <1>1, <1>2, <1>4, <3>1
    <2> QED BY <2>2
  <1> QED BY <1>3, <1>4

\* The steps that write rows, events or high-water marks.
LEMMA OnlineOutbox ==
    ASSUME Online
    PROVE  \/ UNCHANGED <<rows, events, last, pruned>>
           \/ Write \/ LegacyWrite
           \/ \E s \in Shard : Prune(s, BatchLimit) /\ UNCHANGED authorityVars
  <1>1. ASSUME NEW w \in Worker, WorkerStep(w)
        PROVE  \/ UNCHANGED <<rows, events, last, pruned>>
               \/ \E s \in Shard : Prune(s, BatchLimit) /\ UNCHANGED authorityVars
    BY <1>1, WorkerFrame DEF Acknowledge, AdvanceConsumer, PruneShard, outboxVars
  <1>2. CASE Passes \/ Workers \/ Rejections
    BY <1>1, <1>2 DEF Passes, Workers, Rejections, BeginPass, FailPass, RejectBatch,
       RecordPoison, outboxVars
  <1>3. CASE Writers \/ LegacyWriter \/ Operators \/ Expiry
    BY <1>3 DEF Writers, LegacyWriter, Operators, Expiry, LegacyFence, LegacyError, SetPaused,
       PruneOutbox, Expire, outboxVars
  <1> QED BY <1>2, <1>3 DEF Online

\* The step that writes entries and watermarks.
LEMMA OnlineAuthority ==
    ASSUME Online
    PROVE  UNCHANGED <<entries, applied>> \/ \E w \in Worker : ApplyBatch(w)
  <1>1. ASSUME NEW w \in Worker, WorkerStep(w)
        PROVE  UNCHANGED <<entries, applied>> \/ ApplyBatch(w)
    BY <1>1, WorkerFrame DEF MarkRebuildRequired, AcquireLease, authorityVars
  <1>2. CASE Passes \/ Workers \/ Rejections
    BY <1>1, <1>2 DEF Passes, Workers, Rejections, BeginPass, FailPass, RejectBatch,
       RecordPoison, authorityVars
  <1>3. CASE Writers \/ LegacyWriter \/ Operators \/ Expiry
    BY <1>3 DEF Writers, LegacyWriter, Operators, Expiry, Write, LegacyFence, LegacyWrite,
       LegacyError, SetPaused, PruneOutbox, Expire, authorityVars
  <1> QED BY <1>2, <1>3 DEF Online

LEMMA ApplyBatchAdvances ==
    ASSUME NEW I \in SUBSET Index, ReplayInv(I), NEW w \in Worker, ApplyBatch(w), NEW i \in Index, NEW s \in Shard
    PROVE  applied[i][s] <= applied'[i][s]
  <1> DEFINE through == AppliedThrough(pass[w].batch, pass[w].high)
  <1>1. TypeInv /\ PassBounds(w)
    BY DEF ReplayInv, MaintenanceOf
  <1>2. /\ pc[w] = "apply" /\ applied[pass[w].index][pass[w].shard] = pass[w].after
        /\ applied' = [applied EXCEPT ![pass[w].index][pass[w].shard] = through]
    BY DEF ApplyBatch, WatermarkUnchanged
  <1>3. pass[w].after <= through /\ through \in Nat
    BY <1>1, <1>2, ThroughBounds
  <1>4. applied \in [Index -> [Shard -> Cursor]] /\ applied[i][s] \in Nat
    BY <1>1, CursorType DEF TypeInv, AuthorityTypeOK
  <1> QED BY <1>1, <1>2, <1>3, <1>4, PassType

\* No stream moves back online.
LEMMA StreamsAdvance ==
    ASSUME NEW I \in SUBSET Index, ReplayInv(I), Online, NEW i \in Index, NEW s \in Shard
    PROVE  applied[i][s] <= applied'[i][s] /\ last[s] <= last'[s]
  <1>1. TypeInv /\ OutboxInv
    BY DEF ReplayInv, TypeInv
  <1>2. applied[i][s] \in Nat /\ last[s] \in Nat
    BY <1>1, CursorType
  <1>3. applied[i][s] <= applied'[i][s]
    BY <1>2, OnlineAuthority, ApplyBatchAdvances
  <1>4. CASE UNCHANGED last
    BY <1>2, <1>3, <1>4
  <1>5. CASE Write \/ LegacyWrite
    <2>1. ReadyIndexes \in SUBSET Index /\ {} \in SUBSET Index
      BY DEF ReadyIndexes
    <2>2. last[s] <= last'[s]
      BY <1>1, <1>5, <2>1, CommitRowKeeps DEF Write, LegacyWrite
    <2> QED BY <1>3, <2>2
  <1>6. CASE \E t \in Shard : Prune(t, BatchLimit)
    BY <1>4, <1>6 DEF Prune
  <1> QED BY <1>4, <1>5, <1>6, OnlineOutbox

\* What an online step may do to a stream of an index in service.
LEMMA InService ==
    ASSUME NEW I \in SUBSET Index, ReplayInv(I), Online,
           NEW i \in I, lifecycle[i] = "Ready", NEW s \in Shard
    PROVE  /\ applied[i][s] <= applied'[i][s]
           /\ last[s] <= last'[s]
           /\ \A c \in (applied[i][s] + 1)..last[s] : events'[s][c] = events[s][c]
  <1>1. TypeInv /\ AckBehind(i) /\ OutboxInv /\ i \in Index
    BY DEF ReplayInv, MaintenanceOf, TypeInv
  <1>2. applied[i][s] \in Nat /\ last[s] \in Nat
    BY <1>1, CursorType
  <1>3. applied[i][s] <= applied'[i][s] /\ last[s] <= last'[s]
    BY <1>1, StreamsAdvance
  <1>4. CASE UNCHANGED <<rows, events, last, pruned>>
    BY <1>3, <1>4
  <1>5. CASE Write \/ LegacyWrite
    <2>1. ReadyIndexes \in SUBSET Index /\ {} \in SUBSET Index
      BY DEF ReadyIndexes
    <2>2. \A c \in 1..last[s] : events'[s][c] = events[s][c]
      BY <1>1, <1>5, <2>1, CommitRowKeeps DEF Write, LegacyWrite
    <2> QED BY <1>2, <1>3, <2>2
  <1>6. CASE \E t \in Shard : Prune(t, BatchLimit)
    BY <1>1, <1>3, <1>6, PruneKeeps
  <1> QED BY <1>4, <1>5, <1>6, OnlineOutbox

--------------------------------------------------------------------------------
(* Workers: what a pass remembers.                                         *)

PassInv(I, w) == PassBounds(w) /\ (pass[w].index \in I => BatchCurrent(w))

\* Labels where a pass only remembers its snapshot of watermarks.
LoopLabel == {"high_waters", "control", "watermarks", "select", "consumer", "load", "mark", "prune"}

LEMMA IdlePass == ASSUME NEW I, NEW w \in Worker, pc'[w] = "idle" PROVE PassInv(I, w)'
  BY DEF PassInv, PassBounds, BatchCurrent

LEMMA LoopPass ==
    ASSUME NEW I, NEW w \in Worker, pc'[w] \in LoopLabel,
           lifecycle'[pass'[w].index] = "Ready",
           \A t \in Shard : pass'[w].wm[t] <= applied'[pass'[w].index][t]
    PROVE  PassInv(I, w)'
  BY DEF PassInv, PassBounds, BatchCurrent, LoopLabel

\* A worker that does not move keeps what it knows: streams only move forward.
LEMMA OtherPass ==
    ASSUME NEW I \in SUBSET Index, ReplayInv(I), Online, NEW w \in Worker, pc'[w] = pc[w], pass'[w] = pass[w]
    PROVE  PassInv(I, w)'
  <1>1. TypeInv /\ PassBounds(w) /\ (pass[w].index \in I => BatchCurrent(w))
    BY DEF ReplayInv, MaintenanceOf
  <1>2. CASE pc[w] = "idle"
    BY <1>2, IdlePass
  <1>3. CASE pc[w] # "idle"
    <2> DEFINE i == pass[w].index
               s == pass[w].shard
               through == AppliedThrough(pass[w].batch, pass[w].high)
    <2>1. i \in Index /\ s \in Shard /\ pass[w].wm \in [Shard -> Cursor]
      BY <1>1, PassType
    <2>2. lifecycle[i] = "Ready" /\ lifecycle' = lifecycle
      BY <1>1, <1>3, OnlineFrame DEF PassBounds
    <2>3. \A t \in Shard : applied[i][t] <= applied'[i][t] /\ last[t] <= last'[t]
      BY <2>1, StreamsAdvance
    <2>4. i \in I => \A c \in (applied[i][s] + 1)..last[s] : events'[s][c] = events[s][c]
      BY <2>1, <2>2, InService
    <2>5. TypeInv'
      BY <1>1, TypeStep DEF Next
    <2>6. \A t \in Shard : /\ applied[i][t] \in Nat /\ applied'[i][t] \in Nat
                           /\ last[t] \in Nat /\ last'[t] \in Nat /\ pass[w].wm[t] \in Nat
      <3>1. \A t \in Shard : applied[i][t] \in Nat /\ last[t] \in Nat
        BY <1>1, <2>1, CursorType
      <3>2. \A t \in Shard : applied'[i][t] \in Nat /\ last'[t] \in Nat
        BY <2>1, <2>5, OutboxAssumption DEF TypeInv, AuthorityTypeOK, OutboxInv, OutboxTypeOK, Cursor
      <3>3. \A t \in Shard : pass[w].wm[t] \in Nat
        BY <2>1, OutboxAssumption DEF Cursor
      <3> QED BY <3>1, <3>2, <3>3
    <2>7. pass[w].after \in Nat /\ pass[w].high \in Nat /\ pass[w].through \in Nat
      BY <1>1, PassType, OutboxAssumption DEF Cursor
    <2>8. \A t \in Shard : pass[w].wm[t] <= applied'[i][t]
      BY <1>1, <1>3, <2>3, <2>6 DEF PassBounds
    <2>9. pc[w] = "acknowledge" => pass[w].through <= applied'[i][s]
      BY <1>1, <2>1, <2>3, <2>6, <2>7 DEF PassBounds
    <2>10. pc[w] \in {"lease", "read", "events", "apply", "poison"} => pass[w].after <= applied'[i][s]
      BY <1>1, <2>1, <2>3, <2>6, <2>7 DEF PassBounds
    <2>11. pc[w] \in {"events", "apply", "poison"} =>
              pass[w].after <= pass[w].high /\ pass[w].high <= last'[s]
      BY <1>1, <2>1, <2>3, <2>6, <2>7 DEF PassBounds
    <2>12. PassBounds(w)'
      BY <1>1, <2>2, <2>8, <2>9, <2>10, <2>11 DEF PassBounds
    <2>13. ASSUME i \in I, pc[w] \in {"apply", "poison"}, applied'[i][s] = pass[w].after,
                  NEW c \in (pass[w].after + 1)..through
           PROVE  pass[w].batch[c] = IF events'[s][c].index = i THEN events'[s][c] ELSE NoEvent
      <3>1. applied[i][s] = pass[w].after
        BY <1>1, <2>1, <2>3, <2>6, <2>7, <2>13 DEF PassBounds
      <3>2. through <= last[s] /\ through \in Nat
        BY <1>1, <2>1, <2>6, <2>7, <2>13, ThroughBounds DEF PassBounds
      <3>3. c \in (applied[i][s] + 1)..last[s]
        BY <2>1, <2>6, <2>7, <3>1, <3>2
      <3>4. pass[w].batch[c] = IF events[s][c].index = i THEN events[s][c] ELSE NoEvent
        BY <1>1, <2>13, <3>1 DEF BatchCurrent
      <3> QED BY <2>4, <2>13, <3>3, <3>4
    <2>14. i \in I => BatchCurrent(w)'
      BY <2>13 DEF BatchCurrent
    <2> QED BY <2>12, <2>14 DEF PassInv
  <1> QED BY <1>2, <1>3

\* What read_batch returns is complete up to the cursor the batch will claim, if
\* the watermark still stands where the pass read it: then nothing after it has
\* been acknowledged, so nothing after it has been pruned.
LEMMA ReadEventsPass ==
    ASSUME NEW I \in SUBSET Index, ReplayInv(I), NEW w \in Worker, ReadEvents(w)
    PROVE  PassInv(I, w)'
  <1>1. TypeInv /\ PassBounds(w) /\ \A i \in I : AckBehind(i)
    BY DEF ReplayInv, MaintenanceOf
  <1> SUFFICES ASSUME NEW i \in Index, NEW s \in Shard, i = pass[w].index, s = pass[w].shard,
                      NEW after \in Nat, NEW high \in Nat,
                      after = pass[w].after, high = pass[w].high
               PROVE  PassInv(I, w)'
    BY <1>1, PassType, OutboxAssumption DEF Cursor
  <1> DEFINE stored == StoredEvents(i, s, after, high)
  <1>2. PICK read \in SUBSET stored :
          /\ IsLowest(read, stored, BatchLimit)
          /\ Goto(w, "apply", [pass[w] EXCEPT !.batch =
                 [c \in 1..MaxCursor |-> IF c \in read THEN events[s][c] ELSE NoEvent]])
    BY DEF ReadEvents
  <1> DEFINE batch == [c \in 1..MaxCursor |-> IF c \in read THEN events[s][c] ELSE NoEvent]
  <1>3. /\ pc'[w] = "apply" /\ pass'[w] = [pass[w] EXCEPT !.batch = batch]
        /\ UNCHANGED <<lifecycle, applied, last, events>>
    BY <1>1, <1>2 DEF ReadEvents, Goto, TypeInv, WorkerTypeOK, outboxVars, authorityVars
  <1>4. /\ pass'[w].index = i /\ pass'[w].shard = s /\ pass'[w].after = after
        /\ pass'[w].high = high /\ pass'[w].wm = pass[w].wm /\ pass'[w].batch = batch
    BY <1>1, <1>3, PassType DEF Pass
  <1>5. /\ lifecycle[i] = "Ready" /\ \A t \in Shard : pass[w].wm[t] <= applied[i][t]
        /\ after <= applied[i][s] /\ after <= high /\ high <= last[s] /\ pc[w] = "events"
    BY <1>1 DEF PassBounds, ReadEvents
  <1>6. last[s] \in Nat /\ last[s] <= MaxCursor /\ MaxCursor \in Nat /\ applied[i][s] \in Nat
        /\ pruned[s] \in Nat /\ consumer[s][i].cursor \in Nat
    BY <1>1, CursorType
  <1>7. stored \subseteq (after + 1)..high /\ read \subseteq 1..MaxCursor
    BY <1>5, <1>6 DEF StoredEvents
  <1>8. BatchCursors(batch) = read
    BY <1>7 DEF BatchCursors, StoredEvents
  <1>9. PassBounds(w)'
    <2>1. BatchCursors(batch) \subseteq (after + 1)..high
      BY <1>7, <1>8
    <2> HIDE DEF batch
    <2> QED BY <1>3, <1>4, <1>5, <2>1 DEF PassBounds
  <1>10. ASSUME i \in I, applied[i][s] = after, NEW c \in (after + 1)..AppliedThrough(batch, high)
         PROVE  batch[c] = IF events[s][c].index = i THEN events[s][c] ELSE NoEvent
    <2>1. AppliedThrough(batch, high) = high \/ (read # {} /\ AppliedThrough(batch, high) = Max(read))
      <3>1. CASE Cardinality(read) < BatchLimit
        BY <1>8, <3>1 DEF AppliedThrough
      <3>2. CASE ~ (Cardinality(read) < BatchLimit)
        <4>1. Cardinality({}) = 0
          BY FS_EmptySet
        <4>2. BatchLimit \in Nat \ {0}
          BY AsyncAssumption
        <4>3. read # {}
          <5> SUFFICES ASSUME read = {} PROVE Cardinality(read) < BatchLimit
            BY <3>2
          <5>1. Cardinality(read) = 0
            BY <4>1
          <5> QED BY <4>2, <5>1
        <4> QED BY <1>8, <3>2, <4>3 DEF AppliedThrough
      <3> QED BY <3>1, <3>2
    <2>2. read # {} => Max(read) \in read
      BY <1>7, MaxCursorOf
    <2>3. AppliedThrough(batch, high) \in Nat /\ AppliedThrough(batch, high) <= high
      <3>1. read \subseteq (after + 1)..high
        BY <1>7
      <3>2. CASE AppliedThrough(batch, high) = high
        BY <3>2
      <3>3. CASE read # {} /\ AppliedThrough(batch, high) = Max(read)
        <4>1. AppliedThrough(batch, high) \in (after + 1)..high
          BY <2>2, <3>1, <3>3
        <4> HIDE DEF batch
        <4> QED BY <4>1
      <3> QED BY <2>1, <3>2, <3>3
    <2>4. c \in (after + 1)..high /\ c \in 1..MaxCursor
      BY <1>5, <1>6, <2>3
    <2>5. events[s][c] # NoEvent
      <3>1. pruned[s] <= consumer[s][i].cursor /\ consumer[s][i].cursor <= after
        BY <1>1, <1>5, <1>10 DEF TypeInv, OutboxInv, ConsumerBounds, AckBehind
      <3>2. c \in (pruned[s] + 1)..last[s]
        <4>1. /\ after \in Nat /\ high \in Nat /\ high <= last[s]
              /\ pruned[s] \in Nat /\ last[s] \in Nat /\ consumer[s][i].cursor \in Nat
          BY <1>5, <1>6
        <4> HIDE DEF batch, stored
        <4> QED BY <2>4, <3>1, <4>1
      <3> QED BY <1>1, <2>4, <3>2 DEF TypeInv, OutboxInv, GapFree
    <2>6. CASE events[s][c].index = i
      <3>1. c \in stored
        BY <2>4, <2>5, <2>6 DEF StoredEvents
      <3>2. c \in read
        <4>1. SUFFICES ASSUME c \notin read PROVE FALSE
          OBVIOUS
        <4>2. CASE read = stored
          BY <3>1, <4>1, <4>2
        <4>3. CASE read # stored
          <5>1. Cardinality(read) = BatchLimit /\ read # {}
            BY <1>2, <4>3 DEF IsLowest
          <5>2. AppliedThrough(batch, high) = Max(read)
            BY <1>8, <5>1, AsyncAssumption DEF AppliedThrough
          <5>3. Max(read) < c
            BY <1>2, <2>2, <3>1, <4>1, <5>1 DEF IsLowest
          <5> QED BY <1>6, <1>10, <2>3, <2>4, <5>2, <5>3
        <4> QED BY <4>2, <4>3
      <3> QED BY <2>4, <2>6, <3>2
    <2>7. CASE events[s][c].index # i
      BY <1>2, <2>4, <2>7 DEF StoredEvents
    <2> QED BY <2>6, <2>7
  <1>11. i \in I => BatchCurrent(w)'
    <2> HIDE DEF batch
    <2> QED BY <1>3, <1>4, <1>10 DEF BatchCurrent
  <1> QED BY <1>4, <1>9, <1>11 DEF PassInv

\* A step back to the loop, with the snapshot kept or completed.
LEMMA LoopStep ==
    ASSUME NEW I \in SUBSET Index, ReplayInv(I), Online, NEW w \in Worker, pc[w] # "idle", pc'[w] \in LoopLabel,
           pass'[w].index = pass[w].index,
           NEW wm \in [Shard -> Cursor], pass'[w].wm = wm,
           \A t \in Shard : wm[t] <= applied[pass[w].index][t]
    PROVE  PassInv(I, w)'
  <1> DEFINE i == pass[w].index
  <1>1. TypeInv /\ PassBounds(w)
    BY DEF ReplayInv, MaintenanceOf
  <1>2. i \in Index /\ lifecycle[i] = "Ready" /\ lifecycle' = lifecycle
    BY <1>1, PassType, OnlineFrame DEF PassBounds
  <1>3. ASSUME NEW t \in Shard PROVE wm[t] <= applied'[i][t]
    <2>1. wm[t] \in Nat /\ applied[i][t] \in Nat /\ wm[t] <= applied[i][t]
      BY <1>1, <1>2, CursorType, OutboxAssumption DEF Cursor
    <2>2. applied[i][t] <= applied'[i][t]
      BY <1>2, StreamsAdvance
    <2>3. applied'[i][t] \in Nat
      <3>1. TypeInv'
        BY <1>1, TypeStep DEF Next
      <3> QED BY <1>2, <3>1, OutboxAssumption DEF TypeInv, AuthorityTypeOK, Cursor
    <2> QED BY <2>1, <2>2, <2>3
  <1> QED BY <1>2, <1>3, LoopPass

LEMMA NextShardPass ==
    ASSUME NEW I \in SUBSET Index, ReplayInv(I), Online, NEW w \in Worker, pc[w] # "idle", NextShard(w)
    PROVE  PassInv(I, w)'
  <1>1. TypeInv /\ PassBounds(w) /\ WorkerTypeOK
    BY DEF ReplayInv, MaintenanceOf, TypeInv
  <1>2. pc'[w] = "select"
    BY <1>1 DEF NextShard, Goto, WorkerTypeOK
  <1>3. pass'[w] = [pass[w] EXCEPT !.todo = @ \ {pass[w].shard}, !.after = 0,
                       !.fence = 0, !.high = 0, !.batch = EmptyBatch, !.through = 0]
    BY <1>1 DEF NextShard, Goto, WorkerTypeOK
  <1>4. pass'[w].index = pass[w].index /\ pass'[w].wm = pass[w].wm
    BY <1>1, <1>3, PassType DEF Pass
  <1>5. \A t \in Shard : pass[w].wm[t] <= applied[pass[w].index][t]
    BY <1>1 DEF PassBounds
  <1> QED BY <1>1, <1>2, <1>4, <1>5, LoopStep, PassType DEF LoopLabel

LEMMA EndPassPass ==
    ASSUME NEW I, TypeInv, NEW w \in Worker, EndPass(w)
    PROVE  PassInv(I, w)'
  BY IdlePass DEF EndPass, Goto, TypeInv, WorkerTypeOK

\* Taking the snapshot, walking through the shards, and pruning.
LEMMA SnapshotPass ==
    ASSUME NEW I \in SUBSET Index, ReplayInv(I), Online, NEW w \in Worker,
           \/ \E s \in Shard : \/ SnapshotHighWater(w, s) \/ ReadWatermark(w, s)
                               \/ SelectShard(w, s) \/ PruneShard(w, s)
           \/ ReadControl(w) \/ BeginPrune(w)
    PROVE  PassInv(I, w)'
  <1>1. TypeInv /\ PassBounds(w) /\ WorkerTypeOK
    BY DEF ReplayInv, MaintenanceOf, TypeInv
  <1>2. pass[w] \in Pass /\ pass[w].wm \in [Shard -> Cursor] /\ pass[w].index \in Index
    BY <1>1, PassType
  <1>3. CASE EndPass(w)
    BY <1>1, <1>3, EndPassPass
  <1>4. ASSUME pc[w] # "idle", NEW label \in LoopLabel, NEW local, Goto(w, label, local),
               local.index = pass[w].index, local.wm = pass[w].wm
        PROVE  PassInv(I, w)'
    <2>1. pc'[w] = label /\ pass'[w] = local
      BY <1>1, <1>4 DEF Goto, WorkerTypeOK
    <2>2. \A t \in Shard : pass[w].wm[t] <= applied[pass[w].index][t]
      BY <1>1, <1>4 DEF PassBounds
    <2> QED BY <1>2, <1>4, <2>1, <2>2, LoopStep
  <1>5. ASSUME NEW s \in Shard, SnapshotHighWater(w, s) PROVE PassInv(I, w)'
    <2> DEFINE rest == pass[w].todo \ {s}
               label == IF rest = {} THEN "control" ELSE "high_waters"
               local == [pass[w] EXCEPT !.todo = rest, !.hw[s] = last[s]]
    <2>1. pc[w] # "idle" /\ Goto(w, label, local) /\ label \in LoopLabel
      BY <1>5 DEF SnapshotHighWater, LoopLabel
    <2>2. local.index = pass[w].index /\ local.wm = pass[w].wm
      BY <1>2 DEF Pass
    <2> HIDE DEF label, local
    <2> QED BY <1>4, <2>1, <2>2
  <1>6. ASSUME NEW s \in Shard, SelectShard(w, s) PROVE PassInv(I, w)'
    <2>1. /\ [pass[w] EXCEPT !.todo = @ \ {s}].index = pass[w].index
          /\ [pass[w] EXCEPT !.todo = @ \ {s}].wm = pass[w].wm
          /\ [pass[w] EXCEPT !.shard = s].index = pass[w].index
          /\ [pass[w] EXCEPT !.shard = s].wm = pass[w].wm
          /\ [pass[w] EXCEPT !.shard = s, !.processed = @ \cup {s}].index = pass[w].index
          /\ [pass[w] EXCEPT !.shard = s, !.processed = @ \cup {s}].wm = pass[w].wm
      BY <1>2 DEF Pass
    <2>2. pc[w] # "idle"
      BY <1>6 DEF SelectShard
    <2>3. CASE Goto(w, "select", [pass[w] EXCEPT !.todo = @ \ {s}])
      BY <1>4, <2>1, <2>2, <2>3 DEF LoopLabel
    <2>4. CASE Goto(w, "consumer", [pass[w] EXCEPT !.shard = s])
      BY <1>4, <2>1, <2>2, <2>4 DEF LoopLabel
    <2>5. CASE Goto(w, "load", [pass[w] EXCEPT !.shard = s, !.processed = @ \cup {s}])
      BY <1>4, <2>1, <2>2, <2>5 DEF LoopLabel
    <2> QED BY <1>6, <2>3, <2>4, <2>5 DEF SelectShard
  <1>7. ASSUME NEW s \in Shard, PruneShard(w, s) PROVE PassInv(I, w)'
    <2> DEFINE local == [pass[w] EXCEPT !.todo = pass[w].todo \ {s}]
    <2>1. local.index = pass[w].index /\ local.wm = pass[w].wm
      BY <1>2 DEF Pass
    <2>2. pc[w] # "idle" /\ (EndPass(w) \/ Goto(w, "prune", local))
      BY <1>7 DEF PruneShard
    <2>3. "prune" \in LoopLabel
      BY DEF LoopLabel
    <2> HIDE DEF local
    <2> QED BY <1>3, <1>4, <2>1, <2>2, <2>3
  <1>8. CASE ReadControl(w)
    <2> DEFINE local == [pass[w] EXCEPT !.todo = Shard]
    <2>1. local.index = pass[w].index /\ local.wm = pass[w].wm
      BY <1>2 DEF Pass
    <2>2. pc[w] # "idle" /\ (EndPass(w) \/ Goto(w, "watermarks", local))
      BY <1>8 DEF ReadControl
    <2>3. "watermarks" \in LoopLabel
      BY DEF LoopLabel
    <2> HIDE DEF local
    <2> QED BY <1>3, <1>4, <2>1, <2>2, <2>3
  <1>9. CASE BeginPrune(w)
    <2> DEFINE local == [NoPass EXCEPT !.index = pass[w].index, !.todo = pass[w].processed]
               zero == [t \in Shard |-> 0]
    <2>1. local.index = pass[w].index /\ local.wm = zero
      BY DEF NoPass
    <2>2. pc[w] # "idle" /\ (EndPass(w) \/ Goto(w, "prune", local))
      BY <1>9 DEF BeginPrune
    <2>3. zero \in [Shard -> Cursor] /\ \A t \in Shard : zero[t] <= applied[pass[w].index][t]
      <3>1. \A t \in Shard : applied[pass[w].index][t] \in Nat
        BY <1>1, <1>2, CursorType
      <3> QED BY <3>1, OutboxAssumption DEF Cursor
    <2> HIDE DEF local, zero
    <2>4. CASE Goto(w, "prune", local)
      <3>1. pc'[w] = "prune" /\ pass'[w] = local
        BY <1>1, <2>4 DEF Goto, WorkerTypeOK
      <3> QED BY <2>1, <2>2, <2>3, <3>1, LoopStep DEF LoopLabel
    <2> QED BY <1>3, <2>2, <2>4
  <1>10. ASSUME NEW s \in Shard, ReadWatermark(w, s) PROVE PassInv(I, w)'
    <2> DEFINE i == pass[w].index
               rest == pass[w].todo \ {s}
               todo == IF rest = {} THEN Shard ELSE rest
               bad == IF s \in poisoned[i] THEN pass[w].bad \cup {s} ELSE pass[w].bad
               wm == [pass[w].wm EXCEPT ![s] = applied[i][s]]
               local == [pass[w] EXCEPT !.todo = todo, !.wm[s] = applied[i][s], !.bad = bad]
    <2>1. pc[w] # "idle"
      BY <1>10 DEF ReadWatermark
    <2>2. pass' = [pass EXCEPT ![w] = local] /\ pc'[w] \in LoopLabel
      BY <1>1, <1>10 DEF ReadWatermark, Goto, LoopLabel, WorkerTypeOK
    <2>3. local.index = i /\ local.wm = wm
      BY <1>2 DEF Pass
    <2>4. pass'[w] = local
      BY <1>1, <2>2 DEF WorkerTypeOK
    <2>5. wm \in [Shard -> Cursor] /\ \A t \in Shard : wm[t] <= applied[i][t]
      <3>1. applied[i] \in [Shard -> Cursor] /\ applied[i][s] \in Nat
        BY <1>1, <1>2, CursorType DEF TypeInv, AuthorityTypeOK
      <3>2. \A t \in Shard : pass[w].wm[t] <= applied[i][t]
        BY <1>1, <2>1 DEF PassBounds
      <3> QED BY <1>2, <3>1, <3>2
    <2> HIDE DEF local, wm
    <2> QED BY <2>1, <2>2, <2>3, <2>4, <2>5, LoopStep
  <1> QED BY <1>5, <1>6, <1>7, <1>8, <1>9, <1>10

\* Draining one shard up to the batch.
LEMMA DrainPass ==
    ASSUME NEW I \in SUBSET Index, ReplayInv(I), Online, NEW w \in Worker,
           CompareConsumer(w) \/ LoadWatermark(w) \/ AcquireLease(w) \/ ReadState(w)
    PROVE  PassInv(I, w)'
  <1>1. TypeInv /\ PassBounds(w) /\ WorkerTypeOK
    BY DEF ReplayInv, MaintenanceOf, TypeInv
  <1> SUFFICES ASSUME NEW i \in Index, NEW s \in Shard, i = pass[w].index, s = pass[w].shard
               PROVE  PassInv(I, w)'
    BY <1>1, PassType
  <1>2. /\ pass[w] \in Pass /\ pass[w].wm \in [Shard -> Cursor]
        /\ applied[i][s] \in Nat /\ last[s] \in Nat
        /\ pc[w] # "idle"
    BY <1>1, PassType, CursorType DEF CompareConsumer, LoadWatermark, AcquireLease, ReadState
  <1>3. UNCHANGED <<lifecycle, applied, last>>
    BY DEF CompareConsumer, LoadWatermark, AcquireLease, ReadState, authorityVars, outboxVars
  <1>4. lifecycle[i] = "Ready" /\ \A t \in Shard : pass[w].wm[t] <= applied[i][t]
    BY <1>1, <1>2 DEF PassBounds
  <1>5. CASE NextShard(w) \/ EndPass(w)
    BY <1>1, <1>2, <1>5, NextShardPass, EndPassPass
  <1>6. CASE Goto(w, "mark", pass[w])
    <2>1. pc'[w] = "mark" /\ pass'[w] = pass[w]
      BY <1>1, <1>6 DEF Goto, WorkerTypeOK
    <2> QED BY <1>2, <1>4, <2>1, LoopStep DEF LoopLabel
  <1>7. CASE CompareConsumer(w)
    <2> DEFINE local == [pass[w] EXCEPT !.through = pass[w].wm[s], !.processed = @ \cup {s}]
    <2>1. CASE Goto(w, "acknowledge", local)
      <3>1. pc'[w] = "acknowledge" /\ pass'[w] = local
        BY <1>1, <2>1 DEF Goto, WorkerTypeOK
      <3>2. local.index = i /\ local.shard = s /\ local.wm = pass[w].wm /\ local.through = pass[w].wm[s]
        BY <1>2 DEF Pass
      <3> HIDE DEF local
      <3> QED BY <1>3, <1>4, <3>1, <3>2 DEF PassInv, PassBounds, BatchCurrent
    <2> QED BY <1>5, <1>6, <1>7, <2>1 DEF CompareConsumer
  <1>8. CASE LoadWatermark(w)
    <2> DEFINE local == [pass[w] EXCEPT !.after = applied[i][s]]
    <2>1. CASE Goto(w, "lease", local)
      <3>1. pc'[w] = "lease" /\ pass'[w] = local
        BY <1>1, <2>1 DEF Goto, WorkerTypeOK
      <3>2. local.index = i /\ local.shard = s /\ local.wm = pass[w].wm /\ local.after = applied[i][s]
        BY <1>2 DEF Pass
      <3> HIDE DEF local
      <3> QED BY <1>2, <1>3, <1>4, <3>1, <3>2 DEF PassInv, PassBounds, BatchCurrent
    <2> QED BY <1>5, <1>8, <2>1 DEF LoadWatermark
  <1>9. CASE AcquireLease(w)
    <2> DEFINE fence == GrantedLease(w, lease[i][s]).fence
               local == [pass[w] EXCEPT !.fence = fence]
    <2>1. CASE Goto(w, "read", local)
      <3> HIDE DEF fence
      <3>1. pc'[w] = "read" /\ pass'[w] = local
        BY <1>1, <2>1 DEF Goto, WorkerTypeOK
      <3>2. local.index = i /\ local.shard = s /\ local.wm = pass[w].wm /\ local.after = pass[w].after
        BY <1>2 DEF Pass
      <3>3. pass[w].after <= applied[i][s]
        BY <1>1, <1>9 DEF AcquireLease, PassBounds
      <3> HIDE DEF local
      <3> QED BY <1>3, <1>4, <3>1, <3>2, <3>3 DEF PassInv, PassBounds, BatchCurrent
    <2> QED BY <1>5, <1>9, <2>1 DEF AcquireLease
  <1>10. CASE ReadState(w)
    <2> DEFINE local == [pass[w] EXCEPT !.high = last[s]]
    <2>1. CASE pass[w].after \in pruned[s]..last[s] /\ Goto(w, "events", local)
      <3>1. pc'[w] = "events" /\ pass'[w] = local
        BY <1>1, <2>1 DEF Goto, WorkerTypeOK
      <3>2. /\ local.index = i /\ local.shard = s /\ local.wm = pass[w].wm
            /\ local.after = pass[w].after /\ local.high = last[s]
        BY <1>2 DEF Pass
      <3>3. pass[w].after <= applied[i][s] /\ pass[w].after <= last[s]
        BY <1>1, <1>10, <2>1 DEF ReadState, PassBounds
      <3> HIDE DEF local
      <3> QED BY <1>2, <1>3, <1>4, <3>1, <3>2, <3>3 DEF PassInv, PassBounds, BatchCurrent
    <2> QED BY <1>5, <1>6, <1>10, <2>1 DEF ReadState
  <1> QED BY <1>7, <1>8, <1>9, <1>10

\* Applying, rejecting and acknowledging the batch, and the ways out of a pass.
LEMMA FinishPass ==
    ASSUME NEW I \in SUBSET Index, ReplayInv(I), Online, NEW w \in Worker,
           \/ ApplyBatch(w) \/ ApplyFenced(w) \/ RejectBatch(w) \/ RecordPoison(w)
           \/ Acknowledge(w) \/ MarkRebuildRequired(w) \/ FailPass(w)
    PROVE  PassInv(I, w)'
  <1>1. /\ TypeInv /\ PassBounds(w) /\ WorkerTypeOK
        /\ pass[w].index \in I => BatchCurrent(w)
    BY DEF ReplayInv, MaintenanceOf, TypeInv
  <1>2. CASE EndPass(w)
    BY <1>1, <1>2, EndPassPass
  <1>3. CASE pc[w] # "idle" /\ NextShard(w)
    BY <1>3, NextShardPass
  <1>4. CASE ApplyFenced(w) \/ FailPass(w)
    BY <1>2, <1>4 DEF ApplyFenced, FailPass
  <1>5. CASE RecordPoison(w) \/ MarkRebuildRequired(w) \/ Acknowledge(w)
    BY <1>2, <1>3, <1>5 DEF RecordPoison, MarkRebuildRequired, Acknowledge
  <1>6. CASE RejectBatch(w)
    <2>1. /\ pc[w] = "apply" /\ pc'[w] = "poison" /\ pass'[w] = pass[w]
          /\ UNCHANGED <<lifecycle, applied, last, events>>
      BY <1>1, <1>6 DEF RejectBatch, Goto, WorkerTypeOK, outboxVars, authorityVars
    <2> QED BY <1>1, <2>1 DEF PassInv, PassBounds, BatchCurrent
  <1>7. CASE ApplyBatch(w)
    <2> SUFFICES ASSUME NEW i \in Index, NEW s \in Shard, i = pass[w].index, s = pass[w].shard
                 PROVE  PassInv(I, w)'
      BY <1>1, PassType
    <2> DEFINE through == AppliedThrough(pass[w].batch, pass[w].high)
               local == [pass[w] EXCEPT !.through = through]
    <2>1. /\ pc[w] = "apply" /\ applied' = [applied EXCEPT ![i][s] = through]
          /\ Goto(w, "acknowledge", local) /\ lifecycle' = lifecycle
      BY <1>7 DEF ApplyBatch
    <2>2. through \in Nat
      BY <1>1, <2>1, ThroughBounds
    <2> HIDE DEF through
    <2>3. pc'[w] = "acknowledge" /\ pass'[w] = local
      BY <1>1, <2>1 DEF Goto, WorkerTypeOK
    <2>4. local.index = i /\ local.shard = s /\ local.wm = pass[w].wm /\ local.through = through
      BY <1>1, PassType DEF Pass
    <2> HIDE DEF local
    <2>5. applied'[i][s] = through
      BY <1>1, <2>1 DEF TypeInv, AuthorityTypeOK
    <2>6. lifecycle[i] = "Ready" /\ \A t \in Shard : pass[w].wm[t] <= applied[i][t]
      BY <1>1, <2>1 DEF PassBounds
    <2>7. ASSUME NEW t \in Shard PROVE pass[w].wm[t] <= applied'[i][t]
      <3>1. pass[w].wm[t] <= applied[i][t] /\ applied[i][t] <= applied'[i][t]
        BY <1>7, <2>6, ApplyBatchAdvances
      <3>2. pass[w].wm[t] \in Nat /\ applied[i][t] \in Nat
        BY <1>1, PassType, CursorType, OutboxAssumption DEF Cursor
      <3>3. applied'[i][t] \in Nat
        BY <1>1, <2>1, <2>2, <3>2 DEF TypeInv, AuthorityTypeOK
      <3> QED BY <3>1, <3>2, <3>3
    <2> QED BY <2>1, <2>2, <2>3, <2>4, <2>5, <2>6, <2>7 DEF PassInv, PassBounds, BatchCurrent
  <1> QED BY <1>4, <1>5, <1>6, <1>7

LEMMA BeginPassPass ==
    ASSUME NEW I, TypeInv, NEW w \in Worker, NEW i \in Index, BeginPass(w, i)
    PROVE  PassInv(I, w)'
  <1> DEFINE local == [NoPass EXCEPT !.index = i, !.todo = Shard]
             zero == [t \in Shard |-> 0]
  <1>1. /\ Goto(w, "high_waters", local) /\ lifecycle[i] = "Ready"
        /\ UNCHANGED <<lifecycle, applied>>
    BY DEF BeginPass, authorityVars
  <1>2. local.index = i /\ local.wm = zero
    BY DEF NoPass
  <1> HIDE DEF local
  <1>3. pc'[w] = "high_waters" /\ pass'[w] = local
    BY <1>1 DEF TypeInv, WorkerTypeOK, Goto
  <1>4. \A t \in Shard : zero[t] <= applied'[i][t]
    BY <1>1, CursorType
  <1> HIDE DEF zero
  <1> QED BY <1>1, <1>2, <1>3, <1>4, LoopPass DEF LoopLabel

\* A worker's step moves no other worker.
LEMMA OneWorker ==
    ASSUME TypeInv, NEW v \in Worker,
           \/ WorkerStep(v) \/ FailPass(v) \/ RejectBatch(v) \/ RecordPoison(v)
           \/ \E i \in Index : BeginPass(v, i),
           NEW w \in Worker, w # v
    PROVE  pc'[w] = pc[w] /\ pass'[w] = pass[w]
  <1>1. ASSUME NEW label, NEW local, Goto(v, label, local)
        PROVE  pc'[w] = pc[w] /\ pass'[w] = pass[w]
    BY <1>1 DEF Goto, TypeInv, WorkerTypeOK
  <1>2. CASE EndPass(v) \/ NextShard(v)
    BY <1>1, <1>2 DEF EndPass, NextShard
  <1>3. CASE \E s \in Shard : \/ SnapshotHighWater(v, s) \/ ReadWatermark(v, s)
                              \/ SelectShard(v, s) \/ PruneShard(v, s)
    BY <1>1, <1>2, <1>3, Zenon DEF SnapshotHighWater, ReadWatermark, SelectShard, PruneShard
  <1>4. CASE ReadControl(v) \/ CompareConsumer(v) \/ MarkRebuildRequired(v) \/ LoadWatermark(v)
    BY <1>1, <1>2, <1>4, Zenon DEF ReadControl, CompareConsumer, MarkRebuildRequired, LoadWatermark
  <1>5. CASE AcquireLease(v) \/ ReadState(v) \/ ReadEvents(v) \/ ApplyBatch(v)
    BY <1>1, <1>2, <1>5, Zenon DEF AcquireLease, ReadState, ReadEvents, ApplyBatch
  <1>6. CASE ApplyFenced(v) \/ Acknowledge(v) \/ BeginPrune(v)
    BY <1>1, <1>2, <1>6, Zenon DEF ApplyFenced, Acknowledge, BeginPrune
  <1>7. CASE FailPass(v) \/ RejectBatch(v) \/ RecordPoison(v) \/ \E i \in Index : BeginPass(v, i)
    BY <1>1, <1>2, <1>7, Zenon DEF FailPass, RejectBatch, RecordPoison, BeginPass
  <1> QED BY <1>3, <1>4, <1>5, <1>6, <1>7 DEF WorkerStep

LEMMA PassStep == ASSUME NEW I \in SUBSET Index, ReplayInv(I), Next, NEW w \in Worker PROVE PassInv(I, w)'
  <1>1. TypeInv /\ OfflineAlone
    BY DEF ReplayInv, MaintenanceOf
  <1>2. CASE Maintenance
    <2>1. pc'[w] = "idle"
      BY <1>1, <1>2, MaintenanceFrame DEF workerVars
    <2> QED BY <2>1, IdlePass
  <1>3. CASE Online /\ UNCHANGED workerVars
    BY <1>3, OtherPass DEF workerVars
  <1>4. ASSUME Online, NEW v \in Worker,
               \/ WorkerStep(v) \/ FailPass(v) \/ RejectBatch(v) \/ RecordPoison(v)
               \/ \E i \in Index : BeginPass(v, i)
        PROVE  PassInv(I, w)'
    <2>1. CASE w # v
      BY <1>1, <1>4, <2>1, OneWorker, OtherPass
    <2>2. CASE w = v
      BY <1>1, <1>4, <2>2, SnapshotPass, DrainPass, ReadEventsPass, FinishPass, BeginPassPass
         DEF WorkerStep
    <2> QED BY <2>1, <2>2
  <1>5. CASE Passes \/ Workers \/ Rejections
    BY <1>4, <1>5 DEF Passes, Workers, Rejections, Online
  <1>6. CASE Writers \/ LegacyWriter \/ Operators \/ Expiry
    <2>1. UNCHANGED workerVars
      BY <1>6 DEF Writers, LegacyWriter, Operators, Expiry, Write, LegacyFence, LegacyWrite,
         LegacyError, SetPaused, PruneOutbox, Expire
    <2> QED BY <1>3, <1>6, <2>1 DEF Online
  <1> QED BY <1>2, <1>5, <1>6 DEF Next, Online

--------------------------------------------------------------------------------
(* Acknowledgements stay behind watermarks.                                *)

\* The consumer of an index in service changes only when it is advanced, and
\* then to a cursor the authority has already applied.
LEMMA OnlineConsumer ==
    ASSUME NEW I \in SUBSET Index, ReplayInv(I), Online, NEW i \in I, NEW s \in Shard, lifecycle[i] = "Ready"
    PROVE  /\ consumer'[s][i].state = "active"
           /\ consumer'[s][i].cursor <= applied[i][s]
  <1>1. TypeInv /\ AckBehind(i) /\ OutboxInv /\ i \in Index
    BY DEF ReplayInv, MaintenanceOf, TypeInv
  <1>2. consumer[s][i].state = "active" /\ consumer[s][i].cursor <= applied[i][s]
    BY <1>1 DEF AckBehind, IsActive
  <1>3. CASE UNCHANGED outboxVars
    BY <1>2, <1>3 DEF outboxVars
  <1>4. CASE Write \/ LegacyWrite
    <2>1. ReadyIndexes \in SUBSET Index /\ {} \in SUBSET Index
      BY DEF ReadyIndexes
    <2>2. IsActive(s, i) => consumer'[s][i] = consumer[s][i]
      BY <1>1, <1>4, <2>1, CommitRowKeeps DEF Write, LegacyWrite
    <2> QED BY <1>2, <2>2 DEF IsActive
  <1>5. ASSUME NEW w \in Worker, Acknowledge(w)
        PROVE  consumer'[s][i].state = "active" /\ consumer'[s][i].cursor <= applied[i][s]
    <2> DEFINE j == pass[w].index
               t == pass[w].shard
               through == pass[w].through
    <2>1. j \in Index /\ t \in Shard /\ through \in Cursor
      BY <1>1, PassType
    <2>2. through <= applied[j][t]
      BY <1>5 DEF Acknowledge, ReplayInv, MaintenanceOf, PassBounds
    <2>3. CASE AdvanceConsumer(j, t, through)
      <3> DEFINE cursor == IF consumer[t][j].cursor <= through THEN through
                           ELSE consumer[t][j].cursor
      <3>1. consumer' = [consumer EXCEPT ![t] = [consumer[t] EXCEPT ![j] =
                            [consumer[t][j] EXCEPT !.cursor = cursor]]]
        BY <1>1, <2>1, <2>3 DEF AdvanceConsumer, OutboxInv, OutboxTypeOK
      <3>2. consumer \in [Shard -> [Index -> [state : {"none", "active", "inactive"},
                                              cursor : Cursor]]]
        BY <1>1 DEF OutboxInv, OutboxTypeOK
      <3>3. CASE s = t /\ i = j
        <4>1. consumer'[s][i] = [consumer[s][i] EXCEPT !.cursor = cursor]
          BY <2>1, <3>1, <3>2, <3>3
        <4>2. cursor <= applied[i][s]
          BY <1>2, <2>2, <3>3
        <4>3. consumer[s][i] \in [state : {"none", "active", "inactive"}, cursor : Cursor]
          BY <3>2
        <4> HIDE DEF cursor
        <4> QED BY <1>2, <4>1, <4>2, <4>3
      <3>4. CASE ~ (s = t /\ i = j)
        <4>1. consumer'[s][i] = consumer[s][i]
          BY <2>1, <3>1, <3>2, <3>4
        <4> QED BY <1>2, <4>1
      <3> QED BY <3>3, <3>4
    <2>4. CASE UNCHANGED outboxVars
      BY <1>2, <2>4 DEF outboxVars
    <2> QED BY <1>5, <2>3, <2>4 DEF Acknowledge
  <1>6. CASE \E t \in Shard : (\E w \in Worker : PruneShard(w, t)) \/ PruneOutbox(t)
    <2>1. consumer' = consumer
      BY <1>6 DEF PruneShard, PruneOutbox, Prune, outboxVars
    <2> QED BY <1>2, <2>1
  <1>7. ASSUME NEW w \in Worker, WorkerStep(w)
        PROVE  consumer'[s][i].state = "active" /\ consumer'[s][i].cursor <= applied[i][s]
    BY <1>3, <1>5, <1>6, <1>7, WorkerFrame
  <1>8. CASE Passes \/ Workers \/ Rejections
    BY <1>3, <1>7, <1>8 DEF Passes, Workers, Rejections, BeginPass, FailPass, RejectBatch, RecordPoison
  <1>9. CASE Writers \/ LegacyWriter \/ Operators \/ Expiry
    BY <1>3, <1>4, <1>6, <1>9 DEF Writers, LegacyWriter, Operators, Expiry, LegacyFence,
       LegacyError, SetPaused, Expire
  <1> QED BY <1>8, <1>9 DEF Online

\* A watermark never passes the high-water mark.
LEMMA OnlineApplied ==
    ASSUME NEW I \in SUBSET Index, ReplayInv(I), Online, NEW i \in I, NEW s \in Shard, lifecycle[i] = "Ready"
    PROVE  applied'[i][s] <= last'[s]
  <1>1. TypeInv /\ AckBehind(i) /\ i \in Index
    BY DEF ReplayInv, MaintenanceOf
  <1>2. applied[i][s] \in Nat /\ last[s] \in Nat /\ applied[i][s] <= last[s]
    BY <1>1, CursorType DEF AckBehind
  <1>3. last'[s] \in Nat /\ applied'[i][s] \in Nat
    <2>1. TypeInv'
      BY <1>1, TypeStep DEF Next
    <2> QED BY <1>1, <2>1, OutboxAssumption DEF TypeInv, OutboxInv, OutboxTypeOK, AuthorityTypeOK, Cursor
  <1>4. last[s] <= last'[s]
    BY InService
  <1>5. CASE UNCHANGED applied
    BY <1>2, <1>3, <1>4, <1>5
  <1>6. ASSUME NEW w \in Worker, ApplyBatch(w) PROVE applied'[i][s] <= last'[s]
    <2> DEFINE through == AppliedThrough(pass[w].batch, pass[w].high)
    <2>1. /\ pc[w] = "apply" /\ last' = last
          /\ applied' = [applied EXCEPT ![pass[w].index][pass[w].shard] = through]
      BY <1>6 DEF ApplyBatch, outboxVars
    <2>2. PassBounds(w)
      BY DEF ReplayInv, MaintenanceOf
    <2>3. through <= pass[w].high /\ through \in Nat
      BY <1>1, <2>1, <2>2, ThroughBounds
    <2>4. pass[w].high <= last[pass[w].shard] /\ pass[w].high \in Nat
      BY <1>1, <2>1, <2>2, PassType, OutboxAssumption DEF PassBounds, Cursor
    <2>5. applied \in [Index -> [Shard -> Cursor]]
      BY <1>1 DEF TypeInv, AuthorityTypeOK
    <2> HIDE DEF through
    <2>6. CASE i = pass[w].index /\ s = pass[w].shard
      BY <1>2, <2>1, <2>3, <2>4, <2>5, <2>6
    <2>7. CASE ~ (i = pass[w].index /\ s = pass[w].shard)
      <3>1. applied'[i][s] = applied[i][s]
        BY <1>1, <2>1, <2>5, <2>7, PassType
      <3> QED BY <1>2, <2>1, <3>1
    <2> QED BY <2>6, <2>7
  <1> QED BY <1>5, <1>6, OnlineAuthority

LEMMA AckStep == ASSUME NEW I \in SUBSET Index, ReplayInv(I), Next PROVE \A i \in I : AckBehind(i)'
  <1> SUFFICES ASSUME NEW i \in I, NEW s \in Shard, lifecycle'[i] = "Ready"
               PROVE  /\ consumer'[s][i].state = "active"
                      /\ consumer'[s][i].cursor <= applied'[i][s]
                      /\ applied'[i][s] <= last'[s]
    BY DEF AckBehind, IsActive
  <1>1. TypeInv /\ OfflineAlone /\ BuildStage /\ AckBehind(i) /\ i \in Index
    BY DEF ReplayInv, MaintenanceOf
  <1>2. CASE Online
    <2>1. lifecycle[i] = "Ready"
      BY <1>2, OnlineFrame
    <2>2. consumer'[s][i].state = "active" /\ consumer'[s][i].cursor <= applied[i][s]
      BY <1>2, <2>1, OnlineConsumer
    <2>3. applied[i][s] <= applied'[i][s] /\ applied'[i][s] <= last'[s]
      BY <1>2, <2>1, InService, OnlineApplied
    <2>4. applied[i][s] \in Nat /\ applied'[i][s] \in Nat /\ consumer'[s][i].cursor \in Nat
      <3>1. TypeInv'
        BY <1>1, <1>2, TypeStep DEF Next
      <3>2. applied'[i][s] \in Nat /\ consumer'[s][i].cursor \in Nat
        BY <1>1, <3>1, OutboxAssumption DEF TypeInv, OutboxInv, OutboxTypeOK, AuthorityTypeOK, Cursor
      <3> QED BY <1>1, <3>2, CursorType
    <2> QED BY <2>2, <2>3, <2>4
  <1>3. CASE Maintenance
    <2>1. last' = last
      BY <1>1, <1>3, MaintenanceFrame
    <2>2. CASE PublishReady /\ i = maint.index
      <3>1. consumer[s][i].state = "active" /\ consumer[s][i].cursor = last[s] /\ applied[i][s] = last[s]
        BY <1>1, <2>2 DEF PublishReady, BuildStage, IsActive
      <3>2. UNCHANGED <<consumer, applied>>
        BY <2>2 DEF PublishReady, outboxVars, authorityVars
      <3> QED BY <1>1, <2>1, <3>1, <3>2, CursorType
    <2>3. CASE /\ lifecycle[i] = "Ready" /\ applied'[i] = applied[i]
               /\ consumer'[s][i] = consumer[s][i]
      BY <1>1, <2>1, <2>3 DEF AckBehind, IsActive
    <2> QED BY <1>1, <1>3, <2>2, <2>3, MaintenanceReady
  <1> QED BY <1>2, <1>3 DEF Next

--------------------------------------------------------------------------------
(* Replaying what is pending on top of the entries gives the source rows.  *)

PendingTo(i, s, l, c) ==
    {d \in StoredEvents(i, s, applied[i][s], c) : Touches(events[s][d], l)}

\* What the index says of l once the events up to c are replayed.
ReplayedTo(i, s, l, c) ==
    IF PendingTo(i, s, l, c) = {} THEN entries[i][s][l]
    ELSE KeyAfter(events[s][Max(PendingTo(i, s, l, c))], l)

Replayed(i, s, l) ==
    IF Pending(i, s, l) = {} THEN entries[i][s][l]
    ELSE KeyAfter(events[s][Max(Pending(i, s, l))], l)

LEMMA PendingMax ==
    ASSUME TypeInv, NEW i \in Index, NEW s \in Shard, NEW l, Pending(i, s, l) # {}
    PROVE  /\ Max(Pending(i, s, l)) \in Pending(i, s, l)
           /\ \A c \in Pending(i, s, l) : c <= Max(Pending(i, s, l))
  <1>1. Pending(i, s, l) \subseteq 1..MaxCursor
    BY CursorType DEF Pending, StoredEvents
  <1> QED BY <1>1, MaxCursorOf

LEMMA PendingToMax ==
    ASSUME TypeInv, NEW i \in Index, NEW s \in Shard, NEW l, NEW c \in Nat, c <= last[s],
           PendingTo(i, s, l, c) # {}
    PROVE  /\ Max(PendingTo(i, s, l, c)) \in PendingTo(i, s, l, c)
           /\ \A d \in PendingTo(i, s, l, c) : d <= Max(PendingTo(i, s, l, c))
  <1>1. PendingTo(i, s, l, c) \subseteq 1..MaxCursor
    BY CursorType DEF PendingTo, StoredEvents
  <1> QED BY <1>1, MaxCursorOf

\* What is pending after a step decides as before if it is the same.
LEMMA SamePending ==
    ASSUME TypeInv, NEW i \in Index, NEW s \in Shard, NEW l \in Locator,
           Pending(i, s, l)' = Pending(i, s, l),
           entries'[i][s][l] = entries[i][s][l],
           \A c \in Pending(i, s, l) : events'[s][c] = events[s][c]
    PROVE  Replayed(i, s, l)' = Replayed(i, s, l)
  <1>1. CASE Pending(i, s, l) = {}
    BY <1>1 DEF Replayed
  <1>2. CASE Pending(i, s, l) # {}
    <2>1. events'[s][Max(Pending(i, s, l))] = events[s][Max(Pending(i, s, l))]
      BY <1>2, PendingMax
    <2> QED BY <1>2, <2>1 DEF Replayed
  <1> QED BY <1>1, <1>2

\* A prune removes nothing that is pending for an index in service.
LEMMA PruneTruth ==
    ASSUME NEW I \in SUBSET Index, ReplayInv(I), NEW t \in Shard, Prune(t, BatchLimit), UNCHANGED authorityVars,
           NEW i \in I, lifecycle[i] = "Ready", NEW s \in Shard, NEW l \in Locator
    PROVE  Replayed(i, s, l)' = Replayed(i, s, l)
  <1>1. TypeInv /\ AckBehind(i) /\ i \in Index
    BY DEF ReplayInv, MaintenanceOf
  <1>2. last' = last /\ applied' = applied /\ entries' = entries
    BY DEF Prune, authorityVars
  <1>3. \A c \in (applied[i][s] + 1)..last[s] : events'[s][c] = events[s][c]
    BY <1>1, PruneKeeps
  <1>4. Pending(i, s, l)' = Pending(i, s, l)
    BY <1>2, <1>3 DEF Pending, StoredEvents
  <1>5. \A c \in Pending(i, s, l) : events'[s][c] = events[s][c]
    BY <1>3 DEF Pending, StoredEvents
  <1> QED BY <1>1, <1>2, <1>4, <1>5, SamePending

\* A batch holds nothing past the cursor it claims.
LEMMA BatchWithin ==
    ASSUME TypeInv, NEW w \in Worker, PassBounds(w), pc[w] = "apply",
           NEW c \in BatchCursors(pass[w].batch)
    PROVE  c <= AppliedThrough(pass[w].batch, pass[w].high)
  <1>1. BatchCursors(pass[w].batch) \subseteq (pass[w].after + 1)..pass[w].high
    BY DEF PassBounds
  <1>2. \A d \in BatchCursors(pass[w].batch) : d <= Max(BatchCursors(pass[w].batch))
    BY MaxCursorOf DEF BatchCursors
  <1> QED BY <1>1, <1>2 DEF AppliedThrough

\* apply_batch moves a prefix of the pending events into the entries: from the cursor it
\* claims on, the index says what it said.
LEMMA ApplyBatchTo ==
    ASSUME NEW I \in SUBSET Index, ReplayInv(I), NEW w \in Worker, ApplyBatch(w),
           NEW i \in I, NEW s \in Shard, NEW l \in Locator,
           i = pass[w].index, s = pass[w].shard,
           NEW z \in Nat, applied'[i][s] <= z, z <= last[s]
    PROVE  ReplayedTo(i, s, l, z)' = ReplayedTo(i, s, l, z)
  <1> DEFINE batch == pass[w].batch
             through == AppliedThrough(batch, pass[w].high)
             after == pass[w].after
  <1>1. TypeInv /\ PassBounds(w) /\ BatchCurrent(w) /\ AckBehind(i) /\ i \in Index /\ pc[w] = "apply"
    BY DEF ReplayInv, MaintenanceOf, ApplyBatch
  <1>2. /\ applied[i][s] = after /\ UNCHANGED <<events, last>>
        /\ applied' = [applied EXCEPT ![i][s] = through]
        /\ entries' = [entries EXCEPT ![i][s] = ReplayedEntries(@, batch)]
    BY DEF ApplyBatch, WatermarkUnchanged, outboxVars
  <1>3. applied'[i][s] = through
    BY <1>1, <1>2 DEF TypeInv, AuthorityTypeOK
  <1>4. entries'[i][s][l] = IF Touching(batch, l) = {} THEN entries[i][s][l]
                            ELSE KeyAfter(batch[Max(Touching(batch, l))], l)
    <2>1. entries'[i][s] = ReplayedEntries(entries[i][s], batch)
      BY <1>1, <1>2 DEF TypeInv, AuthorityTypeOK
    <2> QED BY <2>1 DEF ReplayedEntries
  <1>5. after <= through /\ through <= z /\ through \in Nat /\ after \in Nat /\ last[s] \in Nat
        /\ z <= last[s] /\ last[s] <= MaxCursor /\ MaxCursor \in Nat
    <2>1. after <= through /\ through <= pass[w].high /\ through \in Nat
      BY <1>1, ThroughBounds
    <2>2. pass[w].high <= last[s] /\ pass[w].high \in Nat /\ after \in Nat
      BY <1>1, PassType, OutboxAssumption DEF PassBounds, Cursor
    <2> QED BY <1>1, <1>3, <2>1, <2>2, CursorType
  <1>6. ASSUME NEW c \in (after + 1)..z PROVE events[s][c] # NoEvent
    <2>1. pruned[s] <= consumer[s][i].cursor /\ consumer[s][i].cursor <= after
      BY <1>1, <1>2 DEF TypeInv, OutboxInv, ConsumerBounds, AckBehind, PassBounds
    <2>2. c \in (pruned[s] + 1)..last[s] /\ c \in 1..MaxCursor
      BY <1>1, <1>5, <1>6, <2>1, CursorType
    <2> QED BY <1>1, <2>2 DEF TypeInv, OutboxInv, GapFree
  <1>7. \A c \in (after + 1)..through :
            batch[c] = IF events[s][c].index = i THEN events[s][c] ELSE NoEvent
    BY <1>1, <1>2 DEF BatchCurrent
  <1>8. \A c \in BatchCursors(batch) : c \in (after + 1)..through
    <2> SUFFICES ASSUME NEW c \in BatchCursors(batch) PROVE c \in (after + 1)..through
      OBVIOUS
    <2>1. c <= through
      BY <1>1, BatchWithin
    <2>2. c \in (after + 1)..pass[w].high
      BY <1>1 DEF PassBounds
    <2>3. pass[w].high \in Nat
      BY <1>1, PassType, OutboxAssumption DEF Cursor
    <2> QED BY <1>5, <2>1, <2>2, <2>3
  <1> HIDE DEF through
  <1>9. PendingTo(i, s, l, z) = {c \in (after + 1)..z : events[s][c].index = i /\ Touches(events[s][c], l)}
    BY <1>2, <1>6 DEF PendingTo, StoredEvents
  <1>10. PendingTo(i, s, l, z)' = {c \in PendingTo(i, s, l, z) : c > through}
    <2>1. PendingTo(i, s, l, z)' = {c \in (through + 1)..z :
                                  events[s][c] # NoEvent /\ events[s][c].index = i /\ Touches(events[s][c], l)}
      BY <1>2, <1>3 DEF PendingTo, StoredEvents
    <2>2. \A c : c \in (through + 1)..z <=> c \in (after + 1)..z /\ c > through
      BY <1>5
    <2> QED BY <1>6, <1>9, <2>1, <2>2
  <1>11. Touching(batch, l) = {c \in PendingTo(i, s, l, z) : c <= through}
    <2>1. ASSUME NEW c \in Touching(batch, l) PROVE c \in PendingTo(i, s, l, z) /\ c <= through
      <3>1. c \in (after + 1)..through /\ batch[c] # NoEvent /\ Touches(batch[c], l)
        BY <1>8 DEF Touching, BatchCursors
      <3>2. events[s][c].index = i /\ batch[c] = events[s][c]
        BY <1>7, <3>1
      <3>3. c \in (after + 1)..z /\ c <= through
        BY <1>5, <3>1
      <3> QED BY <1>9, <3>1, <3>2, <3>3
    <2>2. ASSUME NEW c \in PendingTo(i, s, l, z), c <= through PROVE c \in Touching(batch, l)
      <3>1. c \in (after + 1)..z /\ events[s][c].index = i /\ Touches(events[s][c], l)
        BY <1>9
      <3>2. c \in (after + 1)..through /\ c \in 1..MaxCursor
        BY <1>5, <2>2, <3>1
      <3>3. batch[c] = events[s][c] /\ batch[c] # NoEvent
        BY <1>6, <1>7, <3>1, <3>2
      <3> QED BY <3>1, <3>2, <3>3 DEF Touching, BatchCursors
    <2> QED BY <2>1, <2>2
  <1>12. CASE PendingTo(i, s, l, z) = {}
    <2>1. PendingTo(i, s, l, z)' = {} /\ Touching(batch, l) = {}
      BY <1>10, <1>11, <1>12
    <2> QED BY <1>4, <1>12, <2>1 DEF ReplayedTo
  <1>13. CASE PendingTo(i, s, l, z) # {} /\ PendingTo(i, s, l, z)' = {}
    <2>1. PendingTo(i, s, l, z) \subseteq (after + 1)..z
      BY <1>9
    <2>2. Touching(batch, l) = PendingTo(i, s, l, z)
      <3>1. \A c \in PendingTo(i, s, l, z) : ~ (c > through)
        BY <1>10, <1>13
      <3>2. \A c \in PendingTo(i, s, l, z) : c <= through
        BY <1>5, <2>1, <3>1
      <3> QED BY <1>11, <3>2
    <2>3. Max(PendingTo(i, s, l, z)) \in Touching(batch, l)
      BY <1>1, <1>13, <2>2, PendingToMax
    <2>4. batch[Max(PendingTo(i, s, l, z))] = events[s][Max(PendingTo(i, s, l, z))]
      BY <1>7, <1>8, <2>3 DEF Touching, BatchCursors
    <2> QED BY <1>4, <1>13, <2>2, <2>4 DEF ReplayedTo
  <1>14. CASE PendingTo(i, s, l, z)' # {}
    <2> DEFINE P == PendingTo(i, s, l, z)
               Q == {c \in P : c > through}
    <2>1. P # {} /\ Q # {} /\ Q \subseteq P /\ P \subseteq (after + 1)..z
      BY <1>9, <1>10, <1>14
    <2>2. Max(P) \in P /\ \A c \in P : c <= Max(P)
      BY <1>1, <2>1, PendingToMax
    <2>3. Q \subseteq 1..MaxCursor /\ P \subseteq 1..MaxCursor
      BY <1>5, <2>1
    <2>4. Max(Q) \in Q /\ \A c \in Q : c <= Max(Q)
      BY <2>1, <2>3, MaxCursorOf
    <2>5. Max(P) = Max(Q)
      <3>1. Max(Q) <= Max(P) /\ Max(Q) \in Nat /\ Max(P) \in Nat /\ Max(Q) > through
        BY <2>2, <2>3, <2>4
      <3>2. Max(P) \in Q
        BY <1>5, <2>2, <3>1
      <3>3. Max(P) <= Max(Q)
        BY <2>4, <3>2
      <3> QED BY <3>1, <3>3
    <2>6. ReplayedTo(i, s, l, z)' = KeyAfter(events[s][Max(Q)], l)
      BY <1>2, <1>10, <1>14 DEF ReplayedTo
    <2> QED BY <2>1, <2>5, <2>6 DEF ReplayedTo
  <1> QED BY <1>12, <1>13, <1>14


LEMMA ApplyBatchTruth ==
    ASSUME NEW I \in SUBSET Index, ReplayInv(I), NEW w \in Worker, ApplyBatch(w),
           NEW i \in I, NEW s \in Shard, NEW l \in Locator,
           i = pass[w].index, s = pass[w].shard
    PROVE  Replayed(i, s, l)' = Replayed(i, s, l)
  <1>1. PICK z \in Nat : z = last[s]
    BY CursorType DEF ReplayInv
  <1>2. last'[s] = z /\ applied'[i][s] <= z
    <2>1. TypeInv /\ PassBounds(w) /\ pc[w] = "apply" /\ last' = last
      BY DEF ReplayInv, MaintenanceOf, ApplyBatch, outboxVars
    <2>2. applied'[i][s] = AppliedThrough(pass[w].batch, pass[w].high)
      BY <2>1 DEF ApplyBatch, TypeInv, AuthorityTypeOK
    <2>3. pass[w].high <= last[s] /\ pass[w].high \in Nat
      BY <2>1, PassType, OutboxAssumption DEF PassBounds, Cursor
    <2> QED BY <1>1, <2>1, <2>2, <2>3, ThroughBounds
  <1>3. ReplayedTo(i, s, l, z)' = ReplayedTo(i, s, l, z)
    BY <1>1, <1>2, ApplyBatchTo
  <1> QED BY <1>1, <1>2, <1>3 DEF Replayed, Pending, ReplayedTo, PendingTo

\* A row change that plans no event for i changes no key of i; one that plans an
\* event e changes the keys of the locators e touches, to what e says.
LEMMA PlanTruth ==
    ASSUME OutboxTypeOK, NEW s \in Shard, NEW i \in Index, NEW l \in Locator,
           NEW old \in Locator \cup {NoLocator}, NEW new \in Locator \cup {NoLocator},
           NEW v \in Value \cup {NoRow}, IsChange(s, old, new, v)
    PROVE  LET e == PlannedEvent(i, s, old, new, v)
               before == RowKey(i, rows[s][l])
               after == RowKey(i, ChangedRows(s, old, new, v)[l])
           IN  /\ ~ PlansEvent(i, s, old, new, v) => after = before
               /\ PlansEvent(i, s, old, new, v) /\ ~ Touches(e, l) => after = before
               /\ Touches(e, l) => after = KeyAfter(e, l)
  <1> DEFINE e == PlannedEvent(i, s, old, new, v)
             after == RowKey(i, ChangedRows(s, old, new, v)[l])
  <1>1. l # NoLocator
    BY OutboxAssumption
  <1>2. after = IF l = new THEN RowKey(i, v) ELSE IF l = old THEN NoKey ELSE RowKey(i, rows[s][l])
    BY DEF ChangedRows, RowKey
  <1>3. e.old = (IF OldKey(i, s, old) = NoKey THEN NoLocator ELSE old)
        /\ e.new = (IF RowKey(i, v) = NoKey THEN NoLocator ELSE new) /\ e.key = RowKey(i, v)
    BY DEF PlannedEvent
  <1>4. l = old => OldKey(i, s, old) = RowKey(i, rows[s][l])
    BY <1>1 DEF OldKey
  <1>5. l = new /\ l # old => RowKey(i, rows[s][l]) = NoKey
    BY <1>1 DEF IsChange, RowKey
  <1>6. ~ PlansEvent(i, s, old, new, v) => after = RowKey(i, rows[s][l])
    BY <1>2, <1>4, <1>5 DEF PlansEvent
  <1>7. ~ Touches(e, l) => after = RowKey(i, rows[s][l])
    BY <1>1, <1>2, <1>3, <1>4, <1>5 DEF Touches
  <1>8. Touches(e, l) => after = KeyAfter(e, l)
    BY <1>1, <1>2, <1>3, <1>4, <1>5 DEF Touches, KeyAfter
  <1> QED BY <1>6, <1>7, <1>8

\* A row transaction has appended its event for i by cursor z.
Told(i, s, z) == \E d \in (last[s] + 1)..z : events'[s][d].index = i

\* The replay up to cursor z of a row transaction tells the old row until the event for
\* i, and the new row from then on.
TellsRow(i, s, l, z) ==
    /\ z = last'[s] => ReplayedTo(i, s, l, z)' = RowKey(i, rows'[s][l])
    /\ Told(i, s, z) => ReplayedTo(i, s, l, z)' = RowKey(i, rows'[s][l])
    /\ ~ Told(i, s, z) => ReplayedTo(i, s, l, z)' = RowKey(i, rows[s][l])

\* The row transaction: row and events commit together.  Between the old and the new
\* high-water mark, the index tells the old row until its own event, and the new row
\* from then on.
LEMMA CommitRowTo ==
    ASSUME NEW I \in SUBSET Index, ReplayInv(I), NEW t \in Shard,
           NEW old \in Locator \cup {NoLocator}, NEW new \in Locator \cup {NoLocator},
           NEW v \in Value \cup {NoRow}, NEW captured \in SUBSET Index,
           CommitRow(t, old, new, v, captured), UNCHANGED <<applied, entries>>,
           NEW i \in captured, i \in I, NEW s \in Shard, NEW l \in Locator, lifecycle[i] = "Ready",
           RowKey(i, rows[s][l]) = Replayed(i, s, l),
           NEW z \in Nat, last[s] <= z, z <= last'[s]
    PROVE  TellsRow(i, s, l, z)
  <1> DEFINE planned == {j \in captured : PlansEvent(j, t, old, new, v)}
             n == Cardinality(planned)
             e == PlannedEvent(i, t, old, new, v)
             told == \E d \in (last[s] + 1)..z : events'[s][d].index = i
  <1> SUFFICES /\ told \/ z = last'[s] => ReplayedTo(i, s, l, z)' = RowKey(i, rows'[s][l])
               /\ ~ told => ReplayedTo(i, s, l, z)' = RowKey(i, rows[s][l])
    BY DEF TellsRow, Told
  <1>1. TypeInv /\ OutboxInv /\ OutboxTypeOK /\ AckBehind(i) /\ i \in Index
    BY DEF ReplayInv, MaintenanceOf, TypeInv, OutboxInv
  <1>2. PICK order \in [1..n -> planned] :
           /\ \A j \in planned : \E k \in 1..n : order[k] = j
           /\ events' = [events EXCEPT ![t] = [c \in 1..MaxCursor |->
                 IF c \in (last[t] + 1)..(last[t] + n)
                 THEN PlannedEvent(order[c - last[t]], t, old, new, v)
                 ELSE events[t][c]]]
    BY DEF CommitRow
  <1>3. /\ rows' = [rows EXCEPT ![t] = ChangedRows(t, old, new, v)]
        /\ last' = [last EXCEPT ![t] = last[t] + n]
        /\ IsChange(t, old, new, v)
        /\ n > 0 => HasRoom(t, n)
    BY DEF CommitRow
  <1>4. n \in Nat
    <2>1. planned \in SUBSET Index
      OBVIOUS
    <2> QED BY <2>1, PlannedSize
  <1>5. /\ last[s] \in Nat /\ last[t] \in Nat /\ last[s] <= MaxCursor /\ MaxCursor \in Nat
        /\ applied[i][s] \in Nat /\ applied[i][s] <= last[s] /\ last[t] + n <= MaxCursor
    <2>1. last[t] <= MaxCursor /\ last[t] \in Nat /\ MaxCursor \in Nat
      BY <1>1, CursorType
    <2> QED BY <1>1, <1>3, <1>4, <2>1, CursorType DEF AckBehind, HasRoom
  <1>6. PendingTo(i, s, l, z)' = {c \in (applied[i][s] + 1)..z :
              events'[s][c] # NoEvent /\ events'[s][c].index = i /\ Touches(events'[s][c], l)}
    BY DEF PendingTo, StoredEvents
  <1>7. \A c \in 1..last[s] : events'[s][c] = events[s][c]
    BY <1>1, CommitRowKeeps
  <1>8. \A c \in Pending(i, s, l) : c \in 1..last[s] /\ events'[s][c] = events[s][c]
    BY <1>5, <1>7 DEF Pending, StoredEvents
  <1>9. ASSUME \A c \in (last[s] + 1)..z : events'[s][c].index = i => ~ Touches(events'[s][c], l)
        PROVE  ReplayedTo(i, s, l, z)' = RowKey(i, rows[s][l])
    <2>1. ASSUME NEW c \in PendingTo(i, s, l, z)' PROVE c \in Pending(i, s, l)
      <3>1. c \in (applied[i][s] + 1)..z /\ events'[s][c] # NoEvent
            /\ events'[s][c].index = i /\ Touches(events'[s][c], l)
        BY <1>6, <2>1
      <3>2. c \notin (last[s] + 1)..z
        BY <1>9, <3>1
      <3>3. c \in (applied[i][s] + 1)..last[s] /\ c \in 1..last[s]
        BY <1>5, <3>1, <3>2
      <3> QED BY <1>7, <3>1, <3>3 DEF Pending, StoredEvents
    <2>2. ASSUME NEW c \in Pending(i, s, l) PROVE c \in PendingTo(i, s, l, z)'
      <3>1. c \in (applied[i][s] + 1)..last[s] /\ events[s][c] # NoEvent
            /\ events[s][c].index = i /\ Touches(events[s][c], l)
        BY <2>2 DEF Pending, StoredEvents
      <3>2. c \in (applied[i][s] + 1)..z
        BY <1>5, <3>1
      <3> QED BY <1>6, <1>8, <2>2, <3>1, <3>2
    <2>3. PendingTo(i, s, l, z)' = Pending(i, s, l)
      BY <2>1, <2>2
    <2>4. CASE Pending(i, s, l) = {}
      BY <2>3, <2>4 DEF ReplayedTo, Replayed
    <2>5. CASE Pending(i, s, l) # {}
      <3>1. events'[s][Max(Pending(i, s, l))] = events[s][Max(Pending(i, s, l))]
        BY <1>1, <1>8, <2>5, PendingMax
      <3> QED BY <2>3, <2>5, <3>1 DEF ReplayedTo, Replayed
    <2> QED BY <2>4, <2>5
  <1>10. CASE s # t
    <2>1. rows'[s] = rows[s] /\ last'[s] = last[s]
      BY <1>1, <1>3, <1>10 DEF OutboxTypeOK
    <2>2. \A c \in (last[s] + 1)..z : FALSE
      BY <1>5, <2>1
    <2> QED BY <1>9, <2>1, <2>2
  <1>11. CASE s = t
    <2>1. rows'[s][l] = ChangedRows(s, old, new, v)[l] /\ last'[s] = last[s] + n
      BY <1>1, <1>3, <1>11 DEF OutboxTypeOK
    <2>2. ASSUME NEW c \in 1..MaxCursor
          PROVE  events'[s][c] = IF c \in (last[s] + 1)..(last[s] + n)
                                 THEN PlannedEvent(order[c - last[s]], s, old, new, v)
                                 ELSE events[s][c]
      BY <1>1, <1>2, <1>11, <2>2 DEF OutboxTypeOK
    <2>3. ASSUME NEW c \in (last[s] + 1)..(last[s] + n)
          PROVE  /\ order[c - last[s]] \in planned
                 /\ events'[s][c].index = order[c - last[s]]
                 /\ order[c - last[s]] = i => events'[s][c] = e
      <3>1. c \in 1..MaxCursor /\ c - last[s] \in 1..n
        BY <1>4, <1>5, <1>11
      <3>2. events'[s][c] = PlannedEvent(order[c - last[s]], s, old, new, v)
        BY <2>2, <2>3, <3>1
      <3>3. order[c - last[s]] \in planned
        BY <1>2, <3>1
      <3>4. PlannedEvent(order[c - last[s]], s, old, new, v).index = order[c - last[s]]
        BY DEF PlannedEvent
      <3>5. order[c - last[s]] = i => events'[s][c] = e
        BY <1>11, <3>2
      <3> QED BY <3>2, <3>3, <3>4, <3>5
    <2>4. /\ ~ PlansEvent(i, s, old, new, v) => RowKey(i, rows'[s][l]) = RowKey(i, rows[s][l])
          /\ PlansEvent(i, s, old, new, v) /\ ~ Touches(e, l) =>
                RowKey(i, rows'[s][l]) = RowKey(i, rows[s][l])
          /\ Touches(e, l) => RowKey(i, rows'[s][l]) = KeyAfter(e, l)
      <3>1. IsChange(s, old, new, v) /\ e = PlannedEvent(i, s, old, new, v)
            /\ OutboxTypeOK /\ i \in Index
        BY <1>1, <1>3, <1>11
      <3> HIDE DEF e, n, planned, told
      <3>2. LET f == PlannedEvent(i, s, old, new, v)
                before == RowKey(i, rows[s][l])
                after == RowKey(i, ChangedRows(s, old, new, v)[l])
            IN  /\ ~ PlansEvent(i, s, old, new, v) => after = before
                /\ PlansEvent(i, s, old, new, v) /\ ~ Touches(f, l) => after = before
                /\ Touches(f, l) => after = KeyAfter(f, l)
        BY <3>1, PlanTruth, Zenon
      <3> QED BY <2>1, <3>1, <3>2
    <2>5. e # NoEvent
      BY <1>1, <1>11, PlannedIsEvent, NoEventAssumption
    <2>6. i \in planned => \E d \in (last[s] + 1)..(last[s] + n) : events'[s][d].index = i
      <3> SUFFICES ASSUME i \in planned
                   PROVE  \E d \in (last[s] + 1)..(last[s] + n) : events'[s][d].index = i
        OBVIOUS
      <3>1. PICK k \in 1..n : order[k] = i
        BY <1>2
      <3>2. last[s] + k \in (last[s] + 1)..(last[s] + n) /\ (last[s] + k) - last[s] = k
        BY <1>4, <1>5, <3>1
      <3> QED BY <2>3, <3>1, <3>2
    <2>7. \A d \in (last[s] + 1)..z : d \in (last[s] + 1)..(last[s] + n)
      BY <1>4, <1>5, <2>1
    <2>8. i \notin planned <=> ~ PlansEvent(i, s, old, new, v)
      BY <1>11
    <2> HIDE DEF e, n, planned
    <2>9. CASE ~ told \/ ~ Touches(e, l)
      <3>1. ReplayedTo(i, s, l, z)' = RowKey(i, rows[s][l])
        <4>1. ASSUME NEW c \in (last[s] + 1)..z, events'[s][c].index = i
              PROVE  ~ Touches(events'[s][c], l)
          BY <2>3, <2>7, <2>9, <4>1
        <4> QED BY <1>9, <4>1
      <3>2. told \/ z = last'[s] => RowKey(i, rows'[s][l]) = RowKey(i, rows[s][l])
        BY <2>1, <2>3, <2>4, <2>6, <2>7, <2>8, <2>9
      <3> QED BY <3>1, <3>2
    <2>10. CASE told /\ Touches(e, l)
      <3>1. PICK d \in (last[s] + 1)..z : events'[s][d].index = i
        BY <2>10
      <3>2. events'[s][d] = e
        BY <2>3, <2>7, <3>1
      <3>3. d \in PendingTo(i, s, l, z)'
        <4>1. d \in (applied[i][s] + 1)..z
          BY <1>5, <3>1
        <4> QED BY <1>6, <2>5, <2>10, <3>1, <3>2, <4>1
      <3>4. PendingTo(i, s, l, z)' \subseteq 1..MaxCursor
        BY <1>4, <1>5, <1>6, <1>11, <2>1
      <3> DEFINE P == PendingTo(i, s, l, z)'
                 m == Max(P)
      <3>5. m \in P /\ d <= m
        <4> HIDE DEF P
        <4> QED BY <3>3, <3>4, MaxCursorOf DEF P
      <3>6. m \in (last[s] + 1)..z /\ events'[s][m].index = i
        <4>1. m \in (applied[i][s] + 1)..z /\ events'[s][m].index = i
          BY <1>6, <3>5
        <4> HIDE DEF m
        <4> QED BY <1>5, <3>1, <3>5, <4>1
      <3>7. events'[s][m] = e
        <4> HIDE DEF m
        <4> QED BY <2>3, <2>7, <3>6
      <3>8. ReplayedTo(i, s, l, z)' = KeyAfter(e, l)
        BY <3>3, <3>7 DEF ReplayedTo
      <3> QED BY <2>4, <2>10, <3>8
    <2> QED BY <2>9, <2>10
  <1> QED BY <1>10, <1>11

LEMMA CommitRowTruth ==
    ASSUME NEW I \in SUBSET Index, ReplayInv(I), NEW t \in Shard,
           NEW old \in Locator \cup {NoLocator}, NEW new \in Locator \cup {NoLocator},
           NEW v \in Value \cup {NoRow}, NEW captured \in SUBSET Index,
           CommitRow(t, old, new, v, captured), UNCHANGED <<applied, entries>>,
           NEW i \in captured, i \in I, NEW s \in Shard, NEW l \in Locator, lifecycle[i] = "Ready",
           RowKey(i, rows[s][l]) = Replayed(i, s, l)
    PROVE  RowKey(i, rows'[s][l]) = Replayed(i, s, l)'
  <1>1. OutboxInv /\ OutboxInv'
    BY CommitRowInv DEF ReplayInv, TypeInv
  <1>2. last'[s] \in Nat /\ last[s] <= last'[s]
    <2>1. last' \in [Shard -> Cursor]
      BY <1>1 DEF OutboxInv, OutboxTypeOK
    <2>2. last[s] <= last'[s]
      BY <1>1, CommitRowKeeps
    <2> QED BY <2>1, <2>2, OutboxAssumption DEF Cursor
  <1>3. PICK z \in Nat : z = last'[s]
    BY <1>2, Zenon
  <1>4. ReplayedTo(i, s, l, z)' = RowKey(i, rows'[s][l])
    <2>1. last[s] <= z /\ z <= last'[s]
      BY <1>2, <1>3
    <2>2. TellsRow(i, s, l, z)
      BY <2>1, CommitRowTo
    <2> QED BY <1>3, <2>2 DEF TellsRow
  <1> QED BY <1>3, <1>4 DEF Replayed, Pending, ReplayedTo, PendingTo

\* Replays with its two cases named.
LEMMA ReplaysForm ==
    ASSUME NEW i \in Index
    PROVE  Replays(i) <=>
              (Trusted(i) => \A s \in Shard, l \in Locator : RowKey(i, rows[s][l]) = Replayed(i, s, l))
  BY DEF Replays, Replayed

LEMMA ReplayTruthStep ==
    ASSUME NEW I \in SUBSET Index, ReplayInv(I), Next
    PROVE  \A i \in I : Replays(i)'
  <1> SUFFICES ASSUME NEW i \in I, lifecycle'[i] = "Ready", i \notin rebuild',
                      NEW s \in Shard, NEW l \in Locator
               PROVE  RowKey(i, rows'[s][l]) = Replayed(i, s, l)'
    BY DEF Trusted, Replays, Replayed
  <1>1. /\ TypeInv /\ OfflineAlone /\ BuildStage /\ LegacyFenced /\ i \in Index
        /\ Trusted(i) => RowKey(i, rows[s][l]) = Replayed(i, s, l)
    BY ReplaysForm DEF ReplayInv, MaintenanceOf
  <1>2. CASE Online
    <2>1. lifecycle[i] = "Ready" /\ i \notin rebuild
      BY <1>2, OnlineFrame
    <2>2. RowKey(i, rows[s][l]) = Replayed(i, s, l)
      BY <1>1, <2>1 DEF Trusted
    <2>3. CASE UNCHANGED <<rows, events, last, entries, applied>>
      BY <2>2, <2>3 DEF Replayed, Pending, StoredEvents
    <2>4. CASE Write
      <3>1. PICK t \in Shard, old \in Locator \cup {NoLocator}, new \in Locator \cup {NoLocator},
                 v \in Value \cup {NoRow} : CommitRow(t, old, new, v, ReadyIndexes)
        BY <2>4 DEF Write
      <3>2. i \in ReadyIndexes /\ i \in I /\ ReadyIndexes \in SUBSET Index /\ UNCHANGED <<applied, entries>>
        BY <1>1, <2>1, <2>4 DEF ReadyIndexes, Write, authorityVars
      <3> QED BY <2>1, <2>2, <3>1, <3>2, CommitRowTruth
    <2>5. CASE LegacyWrite
      BY <1>1, <2>1, <2>5 DEF LegacyWrite, LegacyFenced, ReadyIndexes
    <2>6. CASE \E t \in Shard : Prune(t, BatchLimit) /\ UNCHANGED authorityVars
      <3>1. rows' = rows
        BY <2>6 DEF Prune
      <3> QED BY <2>1, <2>2, <2>6, <3>1, PruneTruth
    <2>7. ASSUME NEW w \in Worker, ApplyBatch(w)
          PROVE  RowKey(i, rows'[s][l]) = Replayed(i, s, l)'
      <3>1. UNCHANGED <<rows, events, last>>
        BY <2>7 DEF ApplyBatch, outboxVars
      <3>2. CASE i = pass[w].index /\ s = pass[w].shard
        BY <2>2, <2>7, <3>1, <3>2, ApplyBatchTruth
      <3>3. CASE ~ (i = pass[w].index /\ s = pass[w].shard)
        <4>1. pass[w].index \in Index /\ pass[w].shard \in Shard
          BY <1>1, PassType
        <4>2. applied'[i][s] = applied[i][s]
          BY <1>1, <2>7, <3>3, <4>1 DEF ApplyBatch, TypeInv, AuthorityTypeOK
        <4>3. entries'[i][s] = entries[i][s]
          BY <1>1, <2>7, <3>3, <4>1 DEF ApplyBatch, TypeInv, AuthorityTypeOK
        <4> QED BY <2>2, <3>1, <4>2, <4>3 DEF Replayed, Pending, StoredEvents
      <3> QED BY <3>2, <3>3
    <2>8. CASE UNCHANGED <<rows, events, last, pruned>>
      BY <1>2, <2>3, <2>7, <2>8, OnlineAuthority
    <2> QED BY <1>2, <2>4, <2>5, <2>6, <2>8, OnlineOutbox
  <1>3. CASE Maintenance
    <2>1. UNCHANGED <<rows, events, last>>
      BY <1>1, <1>3, MaintenanceFrame
    <2>2. CASE PublishReady /\ i = maint.index
      <3>1. entries[i][s] = SourceImage(i, s) /\ applied[i][s] = last[s]
        BY <1>1, <2>2 DEF PublishReady, BuildStage
      <3>2. UNCHANGED <<entries, applied>>
        BY <2>2 DEF PublishReady, authorityVars
      <3>3. Pending(i, s, l)' = {}
        <4>1. last[s] \in Nat
          BY <1>1, CursorType
        <4> QED BY <2>1, <3>1, <3>2, <4>1 DEF Pending, StoredEvents
      <3> QED BY <2>1, <3>1, <3>2, <3>3 DEF Replayed, SourceImage
    <2>3. CASE /\ lifecycle[i] = "Ready" /\ i \notin rebuild
               /\ entries'[i] = entries[i] /\ applied'[i] = applied[i]
      <3>1. RowKey(i, rows[s][l]) = Replayed(i, s, l)
        BY <1>1, <2>3 DEF Trusted
      <3> QED BY <2>1, <2>3, <3>1 DEF Replayed, Pending, StoredEvents
    <2> QED BY <1>1, <1>3, <2>2, <2>3, MaintenanceReady
  <1> QED BY <1>2, <1>3 DEF Next

--------------------------------------------------------------------------------
(* The theorems.                                                           *)

LEMMA ReplayInit == ASSUME AsyncInit, NEW I \in SUBSET Index PROVE ReplayInv(I)
  <1>1. TypeInv
    BY TypeInit
  <1>2. \A i \in Index : lifecycle[i] # "Ready"
    BY DEF AsyncInit
  <1>3. \A i \in I : AckBehind(i) /\ Replays(i)
    BY <1>2 DEF AckBehind, Replays, Trusted
  <1>4. maint.phase = "none" /\ legacy = "idle" /\ \A w \in Worker : pc[w] = "idle"
    BY DEF AsyncInit, NoMaint
  <1>5. OfflineAlone /\ BuildStage /\ LegacyFenced
    BY <1>4 DEF OfflineAlone, BuildStage, LegacyFenced
  <1>6. \A w \in Worker : PassBounds(w) /\ BatchCurrent(w)
    BY <1>4 DEF PassBounds, BatchCurrent
  <1> QED BY <1>1, <1>3, <1>5, <1>6 DEF ReplayInv, MaintenanceOf

LEMMA ReplayStep ==
    ASSUME NEW I \in SUBSET Index, ReplayInv(I), [Next]_vars
    PROVE  ReplayInv(I)'
  <1>1. TypeInv'
    BY TypeStep DEF ReplayInv
  <1>2. CASE Next
    <2>1. OfflineAlone' /\ BuildStage' /\ LegacyFenced'
      BY <1>2, OfflineAloneStep, BuildStageStep, LegacyFencedStep DEF ReplayInv, MaintenanceOf
    <2>2. \A w \in Worker : PassBounds(w)' /\ (pass'[w].index \in I => BatchCurrent(w)')
      BY <1>2, PassStep DEF PassInv
    <2>3. \A i \in I : AckBehind(i)' /\ Replays(i)'
      BY <1>2, AckStep, ReplayTruthStep
    <2> QED BY <1>1, <2>1, <2>2, <2>3 DEF ReplayInv, MaintenanceOf
  <1>3. CASE UNCHANGED vars
    <2> USE <1>3 DEF vars, outboxVars, authorityVars, workerVars
    <2>1. OfflineAlone' /\ BuildStage' /\ LegacyFenced'
      BY DEF ReplayInv, MaintenanceOf, OfflineAlone, BuildStage, LegacyFenced, IsActive, SourceImage,
         ReadyIndexes
    <2>2. ASSUME NEW w \in Worker PROVE PassBounds(w)' /\ (pass'[w].index \in I => BatchCurrent(w)')
      <3>1. PassBounds(w) /\ (pass[w].index \in I => BatchCurrent(w))
        BY DEF ReplayInv, MaintenanceOf
      <3>2. PassBounds(w)'
        BY <3>1 DEF PassBounds
      <3>3. pass'[w].index \in I => BatchCurrent(w)'
        BY <3>1 DEF BatchCurrent
      <3> QED BY <3>2, <3>3
    <2>3. \A i \in I : AckBehind(i)'
      BY DEF ReplayInv, MaintenanceOf, AckBehind, IsActive
    <2>4. ASSUME NEW i \in I PROVE Replays(i)'
      <3>1. Replays(i)
        BY DEF ReplayInv, MaintenanceOf
      <3> QED BY <3>1 DEF Replays, Trusted, Pending, StoredEvents
    <2> QED BY <1>1, <2>1, <2>2, <2>3, <2>4 DEF ReplayInv, MaintenanceOf
  <1> QED BY <1>2, <1>3

LEMMA AllIndexesInit == AsyncInit => ReplayInv(Index)
  BY ReplayInit

LEMMA AllIndexesStep == ReplayInv(Index) /\ [Next]_vars => ReplayInv(Index)'
  BY ReplayStep

\* The inductive invariant of asynchronous maintenance (global_index_async.rs).
THEOREM MaintenanceSafe == Spec => []MaintenanceInv
  <1>1. ReplayInv(Index) => MaintenanceInv
    BY DEF ReplayInv, MaintenanceInv
  <1> QED BY <1>1, AllIndexesInit, AllIndexesStep, PTL DEF Spec

\* An index in service tells the truth once its pending events are replayed:
\* whatever workers, crashes, takeovers, prunes, rebuilds and legacy writes do,
\* no event of a trusted index is lost, skipped or applied out of order.
THEOREM ReplayCorrect == Spec => []ReplayTruth
  <1>1. ReplayInv(Index) => ReplayTruth
    BY DEF ReplayInv, MaintenanceOf, ReplayTruth
  <1> QED BY <1>1, AllIndexesInit, AllIndexesStep, PTL DEF Spec

\* No acknowledgement of an index in service passes its watermark
\* (advance_consumer runs after the authority commit of apply_batch).
THEOREM AckSafe == Spec => []AckBehindWatermark
  <1>1. ReplayInv(Index) => AckBehindWatermark
    BY DEF ReplayInv, MaintenanceOf, AckBehindWatermark
  <1> QED BY <1>1, AllIndexesInit, AllIndexesStep, PTL DEF Spec

\* The watermark of an index in service never moves back, however many workers
\* drain its streams (apply_batch compares it inside its transaction).
THEOREM WatermarkSafe == Spec => WatermarkMonotone
  <1> DEFINE Forward == \A i \in Index, s \in Shard :
                            lifecycle[i] = "Ready" => applied'[i][s] >= applied[i][s]
  <1>1. ASSUME ReplayInv(Index), [Next]_vars PROVE [Forward]_vars
    <2> SUFFICES ASSUME Next, NEW i \in Index, NEW s \in Shard, lifecycle[i] = "Ready"
                 PROVE  applied'[i][s] >= applied[i][s]
      BY <1>1
    <2>1. TypeInv /\ OfflineAlone
      BY <1>1 DEF ReplayInv, MaintenanceOf
    <2>2. applied[i][s] \in Nat
      BY <2>1, CursorType
    <2>3. applied'[i][s] \in Nat
      <3>1. TypeInv'
        BY <2>1, TypeStep
      <3> QED BY <3>1, OutboxAssumption DEF TypeInv, AuthorityTypeOK, Cursor
    <2>4. CASE Online
      <3>1. applied[i][s] <= applied'[i][s]
        BY <1>1, <2>4, InService
      <3> QED BY <2>2, <2>3, <3>1
    <2>5. CASE Maintenance
      <3>1. applied'[i] = applied[i]
        BY <2>1, <2>5, MaintenanceKeeps
      <3> QED BY <2>2, <3>1
    <2> QED BY <2>4, <2>5 DEF Next
  <1> QED BY <1>1, AllIndexesInit, AllIndexesStep, PTL DEF Spec, WatermarkMonotone

--------------------------------------------------------------------------------
(* Leases: a fence token has one holder.                                   *)

\* A worker that drains a stream carries a token that was granted: an older one, or
\* the current one, and then the lease is its own.
TokenInv(w) ==
    LET held == lease[pass[w].index][pass[w].shard]
    IN  MidDrain(w) => /\ held.owner # NoOwner
                       /\ pass[w].fence <= held.fence
                       /\ pass[w].fence = held.fence => held.owner = w

FenceInv == FencesDistinct /\ \A w \in Worker : TokenInv(w)

\* A step that leaves a worker at its drain leaves it its stream and its token.
LEMMA DrainKeeps ==
    ASSUME TypeInv, NEW v \in Worker,
           \/ WorkerStep(v) /\ ~ AcquireLease(v)
           \/ FailPass(v) \/ RejectBatch(v) \/ RecordPoison(v)
           \/ \E i \in Index : BeginPass(v, i),
           MidDrain(v)'
    PROVE  /\ MidDrain(v)
           /\ pass'[v].index = pass[v].index /\ pass'[v].shard = pass[v].shard
           /\ pass'[v].fence = pass[v].fence
  <1>1. ASSUME NEW label, NEW local, Goto(v, label, local)
        PROVE  pc'[v] = label /\ pass'[v] = local
    BY <1>1 DEF Goto, TypeInv, WorkerTypeOK
  <1>2. ~ EndPass(v) /\ ~ NextShard(v)
    BY <1>1 DEF EndPass, NextShard, MidDrain
  <1>3. \A label, local : Goto(v, label, local) => label \in {"read", "events", "apply", "poison"}
    BY <1>1 DEF MidDrain
  <1>4. pass[v] \in Pass
    BY PassType
  <1>5. CASE \E s \in Shard : \/ SnapshotHighWater(v, s) \/ ReadWatermark(v, s)
                              \/ SelectShard(v, s) \/ PruneShard(v, s)
    <2>1. \E label \in {"high_waters", "control", "watermarks", "select", "consumer", "load", "prune"} :
             \E local : Goto(v, label, local)
      BY <1>2, <1>5, Zenon DEF SnapshotHighWater, ReadWatermark, SelectShard, PruneShard
    <2> QED BY <1>3, <2>1
  <1>6. CASE ReadControl(v) \/ CompareConsumer(v) \/ MarkRebuildRequired(v) \/ LoadWatermark(v)
    <2>1. \E label \in {"watermarks", "acknowledge", "mark", "lease"} :
             \E local : Goto(v, label, local)
      BY <1>2, <1>6, Zenon DEF ReadControl, CompareConsumer, MarkRebuildRequired, LoadWatermark
    <2> QED BY <1>3, <2>1
  <1>7. CASE ApplyBatch(v) \/ ApplyFenced(v) \/ Acknowledge(v) \/ BeginPrune(v)
    <2>1. \E label \in {"acknowledge", "prune"} : \E local : Goto(v, label, local)
      BY <1>2, <1>7, Zenon DEF ApplyBatch, ApplyFenced, Acknowledge, BeginPrune
    <2> QED BY <1>3, <2>1
  <1>8. CASE FailPass(v) \/ RecordPoison(v) \/ \E i \in Index : BeginPass(v, i)
    <2>1. \E local : Goto(v, "high_waters", local)
      BY <1>2, <1>8, Zenon DEF FailPass, RecordPoison, BeginPass
    <2> QED BY <1>3, <2>1
  <1>9. CASE ReadState(v)
    <2>1. pc[v] = "read" /\ Goto(v, "events", [pass[v] EXCEPT !.high = last[pass[v].shard]])
      <3>1. ~ Goto(v, "mark", pass[v])
        BY <1>3
      <3> QED BY <1>2, <1>9, <3>1 DEF ReadState
    <2> QED BY <1>1, <1>4, <2>1 DEF MidDrain, Pass
  <1>10. CASE ReadEvents(v)
    <2>1. PICK b : pc[v] = "events" /\ Goto(v, "apply", [pass[v] EXCEPT !.batch = b])
      BY <1>10 DEF ReadEvents
    <2> QED BY <1>1, <1>4, <2>1 DEF MidDrain, Pass
  <1>11. CASE RejectBatch(v)
    <2>1. pc[v] = "apply" /\ Goto(v, "poison", pass[v])
      BY <1>11 DEF RejectBatch
    <2> QED BY <1>1, <2>1 DEF MidDrain
  <1> QED BY <1>5, <1>6, <1>7, <1>8, <1>9, <1>10, <1>11 DEF WorkerStep

\* Drains that go on, or end, under the same leases.
LEMMA SameTokens ==
    ASSUME FenceInv,
           \A i \in Index, s \in Shard : /\ lease'[i][s].owner = lease[i][s].owner
                                         /\ lease'[i][s].fence = lease[i][s].fence,
           \A w \in Worker : MidDrain(w)' =>
              /\ MidDrain(w)
              /\ pass'[w].index = pass[w].index /\ pass'[w].shard = pass[w].shard
              /\ pass'[w].fence = pass[w].fence
              /\ pass[w].index \in Index /\ pass[w].shard \in Shard
    PROVE  FenceInv'
  <1>1. FencesDistinct'
    BY DEF FenceInv, FencesDistinct
  <1>2. ASSUME NEW w \in Worker PROVE TokenInv(w)'
    BY DEF FenceInv, TokenInv
  <1> QED BY <1>1, <1>2 DEF FenceInv

\* A grant goes to a stream without a holder, to its holder, or under a token that is
\* larger than every token in use (acquire_lease).
LEMMA AcquireTokens == ASSUME TypeInv, FenceInv, NEW v \in Worker, AcquireLease(v) PROVE FenceInv'
  <1> DEFINE i == pass[v].index
             s == pass[v].shard
             held == lease[i][s]
             granted == GrantedLease(v, held)
  <1>1. i \in Index /\ s \in Shard /\ pass[v] \in Pass /\ held \in Lease
    BY PassType DEF TypeInv, AuthorityTypeOK
  <1>2. \A w \in Worker : w # v => pc'[w] = pc[w] /\ pass'[w] = pass[w]
    BY OneWorker DEF WorkerStep
  <1>3. \A w \in Worker : pass[w].index \in Index /\ pass[w].shard \in Shard /\ pass[w].fence \in Nat
    BY PassType, AsyncAssumption DEF Pass
  <1>4. CASE LeaseRefused(v, i, s)
    <2>1. NextShard(v) /\ lease' = lease
      BY <1>4 DEF AcquireLease
    <2>2. pc'[v] = "select"
      BY <2>1 DEF NextShard, Goto, TypeInv, WorkerTypeOK
    <2> QED BY <1>2, <1>3, <2>1, <2>2, SameTokens DEF MidDrain
  <1>5. CASE ~ LeaseRefused(v, i, s)
    <2>1. /\ lease' = [lease EXCEPT ![i][s] = granted] /\ granted.fence <= MaxFence
          /\ Goto(v, "read", [pass[v] EXCEPT !.fence = granted.fence])
      BY <1>5 DEF AcquireLease
    <2>2. pass'[v] = [pass[v] EXCEPT !.fence = granted.fence]
      BY <2>1 DEF Goto, TypeInv, WorkerTypeOK
    <2>3. pass'[v].index = i /\ pass'[v].shard = s /\ pass'[v].fence = granted.fence
      BY <1>1, <2>2 DEF Pass
    <2>4. granted \in Lease /\ granted.owner = v /\ v # NoOwner
      <3>1. granted \in Lease
        BY <1>1, <2>1, GrantedLeaseType
      <3>2. v # NoOwner
        BY AsyncAssumption
      <3>3. CASE held.owner = v
        <4>1. granted = [held EXCEPT !.expired = FALSE]
          BY <3>2, <3>3 DEF GrantedLease
        <4> QED BY <1>1, <3>1, <3>2, <3>3, <4>1 DEF Lease
      <3>4. CASE held.owner # v
        BY <3>1, <3>2, <3>4 DEF GrantedLease
      <3> QED BY <3>3, <3>4
    <2>5. lease'[i][s] = granted
      BY <1>1, <2>1 DEF TypeInv, AuthorityTypeOK
    <2>6. granted.fence \in Nat /\ held.fence \in Nat
      BY <1>1, <2>4, AsyncAssumption DEF Lease
    <2>7. ASSUME NEW w \in Worker, w # v, MidDrain(w), pass[w].index = i, pass[w].shard = s
          PROVE  pass[w].fence < granted.fence
      <3>1. /\ held.owner # NoOwner /\ pass[w].fence <= held.fence
            /\ pass[w].fence = held.fence => held.owner = w
        BY <2>7 DEF FenceInv, TokenInv
      <3>2. CASE held.owner = v
        <4>1. granted = [held EXCEPT !.expired = FALSE]
          BY <3>1, <3>2 DEF GrantedLease
        <4>2. granted.fence = held.fence
          BY <1>1, <4>1 DEF Lease
        <4> QED BY <1>3, <2>6, <2>7, <3>1, <3>2, <4>2
      <3>3. CASE held.owner # v
        <4>1. granted = [owner |-> v, fence |-> held.fence + 1, expired |-> FALSE]
          BY <3>1, <3>3 DEF GrantedLease
        <4>2. granted.fence = held.fence + 1
          BY <4>1
        <4> QED BY <1>3, <2>6, <3>1, <4>2
      <3> QED BY <3>2, <3>3
    <2> HIDE DEF granted, held
    <2>8. ASSUME NEW w \in Worker, w # v, MidDrain(w)', pass'[w].index = i, pass'[w].shard = s
          PROVE  pass'[w].fence < granted.fence
      <3>1. MidDrain(w) /\ pass'[w] = pass[w]
        BY <1>2, <2>8 DEF MidDrain
      <3> QED BY <2>7, <2>8, <3>1
    <2>9. \A w \in Worker : pass'[w].fence \in Nat
      BY <1>2, <1>3, <2>3, <2>6
    <2>10. FencesDistinct'
      <3> SUFFICES ASSUME NEW w \in Worker, NEW u \in Worker, w # u, MidDrain(w)', MidDrain(u)',
                          pass'[w].index = pass'[u].index, pass'[w].shard = pass'[u].shard
                   PROVE  pass'[w].fence # pass'[u].fence
        BY DEF FencesDistinct
      <3>1. CASE w # v /\ u # v
        <4>1. MidDrain(w) /\ MidDrain(u) /\ pass'[w] = pass[w] /\ pass'[u] = pass[u]
          BY <1>2, <3>1 DEF MidDrain
        <4> QED BY <4>1 DEF FenceInv, FencesDistinct
      <3>2. CASE w = v
        <4>1. pass'[u].fence < granted.fence
          BY <2>3, <2>8, <3>2
        <4> QED BY <2>3, <2>6, <2>9, <3>2, <4>1
      <3>3. CASE u = v
        <4>1. pass'[w].fence < granted.fence
          BY <2>3, <2>8, <3>3
        <4> QED BY <2>3, <2>6, <2>9, <3>3, <4>1
      <3> QED BY <3>1, <3>2, <3>3
    <2>11. ASSUME NEW w \in Worker PROVE TokenInv(w)'
      <3>1. CASE w = v
        BY <2>3, <2>4, <2>5, <2>6, <3>1 DEF TokenInv
      <3>2. CASE w # v /\ pass[w].index = i /\ pass[w].shard = s
        <4>1. pass'[w] = pass[w]
          BY <1>2, <3>2
        <4>2. MidDrain(w)' => pass[w].fence < granted.fence
          BY <2>8, <3>2, <4>1
        <4> QED BY <1>3, <2>4, <2>5, <2>6, <3>2, <4>1, <4>2 DEF TokenInv
      <3>3. CASE w # v /\ ~ (pass[w].index = i /\ pass[w].shard = s)
        <4>1. pass'[w] = pass[w] /\ (MidDrain(w)' => MidDrain(w))
          BY <1>2, <3>3 DEF MidDrain
        <4>2. lease'[pass[w].index][pass[w].shard] = lease[pass[w].index][pass[w].shard]
          BY <1>3, <2>1, <3>3 DEF TypeInv, AuthorityTypeOK
        <4> QED BY <4>1, <4>2 DEF FenceInv, TokenInv
      <3> QED BY <3>1, <3>2, <3>3
    <2> QED BY <2>10, <2>11 DEF FenceInv
  <1> QED BY <1>4, <1>5

\* No step gives two drains of a stream the same token: a lease is reset only offline,
\* when no worker drains (initialize_index, reset_build).
LEMMA FenceStep == ASSUME TypeInv, OfflineAlone, FenceInv, Next PROVE FenceInv'
  <1>1. \A w \in Worker : pass[w].index \in Index /\ pass[w].shard \in Shard
    BY PassType
  <1>2. CASE Maintenance
    <2>1. \A w \in Worker : pc'[w] = "idle"
      BY <1>2, MaintenanceFrame DEF workerVars
    <2> QED BY <2>1 DEF FenceInv, FencesDistinct, TokenInv, MidDrain
  <1>3. ASSUME NEW v \in Worker, WorkerStep(v) \/ FailPass(v) \/ RejectBatch(v) \/ RecordPoison(v)
                                 \/ \E i \in Index : BeginPass(v, i)
        PROVE  FenceInv'
    <2>1. CASE AcquireLease(v)
      BY <2>1, AcquireTokens
    <2>2. CASE ~ AcquireLease(v)
      <3>1. lease' = lease
        <4>1. CASE WorkerStep(v)
          BY <2>2, <4>1, WorkerFrame DEF authorityVars, MarkRebuildRequired, ApplyBatch
        <4> QED BY <1>3, <4>1 DEF FailPass, RejectBatch, RecordPoison, BeginPass, authorityVars
      <3>2. \A w \in Worker : MidDrain(w)' =>
              /\ MidDrain(w)
              /\ pass'[w].index = pass[w].index /\ pass'[w].shard = pass[w].shard
              /\ pass'[w].fence = pass[w].fence
        <4> SUFFICES ASSUME NEW w \in Worker, MidDrain(w)'
                     PROVE  /\ MidDrain(w)
                            /\ pass'[w].index = pass[w].index /\ pass'[w].shard = pass[w].shard
                            /\ pass'[w].fence = pass[w].fence
          OBVIOUS
        <4>1. CASE w = v
          BY <1>3, <2>2, <4>1, DrainKeeps
        <4>2. CASE w # v
          <5>1. pc'[w] = pc[w] /\ pass'[w] = pass[w]
            BY <1>3, <4>2, OneWorker
          <5> QED BY <5>1 DEF MidDrain
        <4> QED BY <4>1, <4>2
      <3> QED BY <1>1, <3>1, <3>2, SameTokens
    <2> QED BY <2>1, <2>2
  <1>4. CASE Passes \/ Workers \/ Rejections
    BY <1>3, <1>4 DEF Passes, Workers, Rejections
  <1>5. CASE Writers \/ LegacyWriter \/ Operators \/ Expiry
    <2>1. UNCHANGED workerVars
      BY <1>5 DEF Writers, LegacyWriter, Operators, Expiry, Write, LegacyFence, LegacyWrite,
         LegacyError, SetPaused, PruneOutbox, Expire
    <2>2. \A i \in Index, s \in Shard : /\ lease'[i][s].owner = lease[i][s].owner
                                        /\ lease'[i][s].fence = lease[i][s].fence
      <3>1. CASE Writers \/ LegacyWriter \/ Operators
        BY <3>1 DEF Writers, LegacyWriter, Operators, Write, LegacyFence, LegacyWrite,
           LegacyError, SetPaused, PruneOutbox, authorityVars
      <3>2. CASE Expiry
        <4>1. PICK j \in Index, t \in Shard : lease' = [lease EXCEPT ![j][t].expired = TRUE]
          BY <3>2 DEF Expiry, Expire
        <4> QED BY <4>1 DEF TypeInv, AuthorityTypeOK, Lease
      <3> QED BY <1>5, <3>1, <3>2
    <2> QED BY <1>1, <2>1, <2>2, SameTokens DEF workerVars, MidDrain
  <1> QED BY <1>2, <1>4, <1>5 DEF Next, Online

\* A fence token identifies one holder: two workers that drain the same stream never
\* carry the same token, across any number of expiries, takeovers, deaths and rebuilds
\* (acquire_lease, validate_lease).
THEOREM FencesSafe == Spec => []FencesDistinct
  <1>1. AsyncInit => FenceInv
    BY DEF AsyncInit, FenceInv, FencesDistinct, TokenInv, MidDrain
  <1>2. ASSUME ReplayInv(Index), FenceInv, [Next]_vars PROVE FenceInv'
    <2>1. CASE Next
      BY <1>2, <2>1, FenceStep DEF ReplayInv, MaintenanceOf
    <2>2. CASE UNCHANGED vars
      BY <1>2, <2>2 DEF vars, workerVars, authorityVars, FenceInv, FencesDistinct, TokenInv, MidDrain
    <2> QED BY <1>2, <2>1, <2>2
  <1>3. FenceInv => FencesDistinct
    BY DEF FenceInv
  <1> QED BY <1>1, <1>2, <1>3, AllIndexesInit, AllIndexesStep, PTL DEF Spec

\* A poisoned stream stands still until an offline operation resets it, whatever leases,
\* batches and takeovers are under way (record_poison, apply_batch).
THEOREM PoisonSafe == Spec => PoisonStops
  <1> DEFINE Still == \A i \in Index, s \in Shard :
                          s \in poisoned[i] /\ maint.phase = "none" =>
                              /\ applied'[i][s] = applied[i][s]
                              /\ entries'[i][s] = entries[i][s]
                              /\ s \in poisoned'[i]
  <1>1. ASSUME TypeInv, Next PROVE Still
    <2> SUFFICES ASSUME NEW i \in Index, NEW s \in Shard, s \in poisoned[i], maint.phase = "none"
                 PROVE  /\ applied'[i][s] = applied[i][s]
                        /\ entries'[i][s] = entries[i][s]
                        /\ s \in poisoned'[i]
      OBVIOUS
    <2>1. CASE Maintenance
      BY <2>1 DEF Maintenance, BuildStep, RemoveStep, TransitionIndex, BeginBuild, BeginRemove,
         ScanShard, ActivateShard, PrepareBuild, VerifyBuild, InitializeIndex, PublishReady,
         DeactivateShard, RemoveIndex, AbandonMaintenance, authorityVars
    <2>2. CASE Online
      <3>1. ASSUME NEW w \in Worker, ApplyBatch(w)
            PROVE  applied'[i][s] = applied[i][s] /\ entries'[i][s] = entries[i][s]
        <4>1. ~ (pass[w].index = i /\ pass[w].shard = s)
          BY <3>1 DEF ApplyBatch, WatermarkUnchanged
        <4>2. PICK x, y : /\ applied' = [applied EXCEPT ![pass[w].index][pass[w].shard] = x]
                          /\ entries' = [entries EXCEPT ![pass[w].index][pass[w].shard] = y]
          BY <3>1 DEF ApplyBatch
        <4> QED BY <1>1, <4>1, <4>2 DEF TypeInv, AuthorityTypeOK
      <3>2. applied'[i][s] = applied[i][s] /\ entries'[i][s] = entries[i][s]
        BY <2>2, <3>1, OnlineAuthority
      <3>3. poisoned' = poisoned \/ \E w \in Worker : RecordPoison(w)
        <4>1. ASSUME NEW w \in Worker, WorkerStep(w) PROVE poisoned' = poisoned
          BY <4>1, WorkerFrame DEF MarkRebuildRequired, AcquireLease, ApplyBatch, authorityVars
        <4>2. CASE Passes \/ Workers \/ Rejections
          BY <4>1, <4>2 DEF Passes, Workers, Rejections, BeginPass, FailPass, RejectBatch,
             authorityVars
        <4>3. CASE Writers \/ LegacyWriter \/ Operators \/ Expiry
          BY <4>3 DEF Writers, LegacyWriter, Operators, Expiry, Write, LegacyFence, LegacyWrite,
             LegacyError, SetPaused, PruneOutbox, Expire, authorityVars
        <4> QED BY <2>2, <4>2, <4>3 DEF Online
      <3>4. s \in poisoned'[i]
        <4>1. poisoned \in [Index -> SUBSET Shard]
          BY <1>1 DEF TypeInv, AuthorityTypeOK
        <4>2. ASSUME NEW w \in Worker, RecordPoison(w) PROVE s \in poisoned'[i]
          <5>1. poisoned' = [poisoned EXCEPT ![pass[w].index] = @ \cup {pass[w].shard}]
            BY <4>2 DEF RecordPoison
          <5> QED BY <4>1, <5>1
        <4> QED BY <3>3, <4>2
      <3> QED BY <3>2, <3>4
    <2> QED BY <1>1, <2>1, <2>2 DEF Next
  <1>2. TypeInv /\ [Next]_vars => [Still]_vars
    BY <1>1
  <1> QED BY <1>2, TypeInit, TypeStep, PTL DEF Spec, PoisonStops
================================================================================
