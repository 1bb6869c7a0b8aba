----------------------- MODULE GlobalIndexServiceProofs ------------------------
(***************************************************************************)
(* What an index in service gives its queries, for any number of indexes,  *)
(* shards, rows, workers and queries: a plan misses no shard that held a   *)
(* matching row while it was made, and an index whose watermarks cover the *)
(* outbox is complete, after offline validations and repairs too, unless a *)
(* validation put it back into service with events still to replay.        *)
(***************************************************************************)
EXTENDS GlobalIndexRead, GlobalIndexRecovery, GlobalIndexReplayProofs

--------------------------------------------------------------------------------
(* The invariant of a query.                                               *)

\* From the requirement of a captured shard on, whatever prefix of its stream the
\* index has replayed, some entry of the shard has the key.
CaptureInv(r) ==
    LET i == read[r].index
    IN  \A s \in read[r].must \ read[r].todo :
            /\ read[r].need[s] <= last[s]
            /\ Trusted(i) => \A c \in read[r].need[s]..last[s] :
                  applied[i][s] <= c => \E l \in Locator : ReplayedTo(i, s, l, c) = read[r].key

QueryInv(r) ==
    /\ read[r].step # "idle" =>
          /\ lifecycle[read[r].index] = "Ready" /\ read[r].key \in Key
          /\ read[r].must \subseteq Holding(rows, read[r].index, read[r].key)
    /\ read[r].step \in {"require", "authority"} => CaptureInv(r)
    /\ read[r].step = "authority" => read[r].todo = {}
    /\ read[r].step = "verify" =>
          read[r].must \subseteq {c[1] : c \in read[r].candidates} \cup TargetShards(r)
    /\ read[r].step = "apply" => read[r].stale # {}
    /\ read[r].step = "done" => read[r].must \subseteq TargetShards(r)

ReadInv == /\ ReplayInv(Index)
           /\ read \in [Reader -> Read]
           /\ \A r \in Reader : QueryInv(r)

--------------------------------------------------------------------------------
(* Types and frames.                                                       *)

LEMMA NoReadType == NoRead \in Read
  BY AsyncAssumption, OutboxAssumption DEF NoRead, Read, Cursor

\* The fields of a query.
LEMMA ReadFields ==
    ASSUME read \in [Reader -> Read], NEW r \in Reader
    PROVE  /\ read[r] \in Read /\ read[r].index \in Index /\ read[r].key \in Key \cup {NoKey}
           /\ read[r].must \subseteq Shard /\ read[r].todo \subseteq Shard
           /\ read[r].need \in [Shard -> Cursor] /\ read[r].uncertain \subseteq Shard
           /\ read[r].candidates \subseteq Candidate /\ read[r].owners \subseteq Shard
           /\ read[r].stale \subseteq Candidate
  BY DEF Read

\* A step of one query moves no other query.
LEMMA BecomeEffect ==
    ASSUME read \in [Reader -> Read], NEW r \in Reader, NEW local \in Read, Become(r, local)
    PROVE  /\ read' \in [Reader -> Read] /\ read'[r] = local
           /\ \A q \in Reader : q # r => read'[q] = read[q]
  BY DEF Become

\* Tombstones decide nothing in the replay of a stream.
LEMMA RepairsKeep ==
    ASSUME ReplayInv(Index), repairs' \in [Index -> SUBSET Repair],
           UNCHANGED <<outboxVars, lifecycle, built, checkpoint, entries, applied, poisoned,
                       rebuild, paused, lease, workerVars, legacy, maint>>
    PROVE  ReplayInv(Index)'
  <1>1. /\ rows' = rows /\ events' = events /\ last' = last /\ pruned' = pruned
        /\ consumer' = consumer /\ lifecycle' = lifecycle /\ entries' = entries
        /\ applied' = applied /\ rebuild' = rebuild /\ pc' = pc /\ pass' = pass
        /\ legacy' = legacy /\ maint' = maint
    BY DEF outboxVars, workerVars
  <1>2. TypeInv'
    <2>1. OutboxInv'
      BY OutboxUnchanged DEF ReplayInv, TypeInv
    <2>2. WorkerTypeOK' /\ ControlTypeOK'
      BY <1>1 DEF ReplayInv, TypeInv, WorkerTypeOK, ControlTypeOK
    <2>3. AuthorityTypeOK'
      BY DEF ReplayInv, TypeInv, AuthorityTypeOK
    <2> QED BY <2>1, <2>2, <2>3 DEF TypeInv
  <1>3. OfflineAlone' /\ LegacyFenced' /\ BuildStage'
    BY <1>1 DEF ReplayInv, MaintenanceOf, OfflineAlone, LegacyFenced, ReadyIndexes, BuildStage,
       SourceImage, IsActive
  <1>4. ASSUME NEW w \in Worker PROVE PassBounds(w)' /\ (pass'[w].index \in Index => BatchCurrent(w)')
    BY <1>1 DEF ReplayInv, MaintenanceOf, PassBounds, BatchCurrent
  <1>5. ASSUME NEW i \in Index PROVE AckBehind(i)' /\ Replays(i)'
    <2>1. AckBehind(i)'
      BY <1>1 DEF ReplayInv, MaintenanceOf, AckBehind, IsActive
    <2>2. Replays(i)
      BY DEF ReplayInv, MaintenanceOf
    <2>3. Replays(i)'
      BY <1>1, <2>2 DEF Replays, Trusted, Pending, StoredEvents
    <2> QED BY <2>1, <2>3
  <1> QED BY <1>2, <1>3, <1>4, <1>5 DEF ReplayInv, MaintenanceOf

\* What the invariant says of one index.
LEMMA InStep ==
    ASSUME ReplayInv(Index), NEW i \in Index
    PROVE  /\ AckBehind(i)
           /\ Trusted(i) => \A s \in Shard, l \in Locator : RowKey(i, rows[s][l]) = Replayed(i, s, l)
  BY ReplaysForm DEF ReplayInv, MaintenanceOf

\* A query that stands still keeps its invariant while only tombstones change.
LEMMA OtherQuery ==
    ASSUME NEW q \in Reader, QueryInv(q), read'[q] = read[q],
           UNCHANGED <<rows, events, last, lifecycle, rebuild, applied, entries>>
    PROVE  QueryInv(q)'
  <1>1. CaptureInv(q)' = CaptureInv(q)
    <2>1. \A i, s, l, c : ReplayedTo(i, s, l, c)' = ReplayedTo(i, s, l, c)
      BY DEF ReplayedTo, PendingTo, StoredEvents
    <2> QED BY <2>1 DEF CaptureInv, Trusted
  <1>2. TargetShards(q)' = TargetShards(q)
    BY DEF TargetShards
  <1> QED BY <1>1, <1>2 DEF QueryInv

--------------------------------------------------------------------------------
(* The stream of a shard goes on telling the key.                          *)

\* What the index says at a cursor stays if the events up to it stay.
LEMMA SameTo ==
    ASSUME TypeInv, NEW i \in Index, NEW s \in Shard, NEW l \in Locator, NEW c \in Nat, c <= last[s],
           applied'[i][s] = applied[i][s], entries'[i][s] = entries[i][s],
           \A d \in (applied[i][s] + 1)..last[s] : events'[s][d] = events[s][d]
    PROVE  ReplayedTo(i, s, l, c)' = ReplayedTo(i, s, l, c)
  <1>1. \A d \in (applied[i][s] + 1)..c : d \in (applied[i][s] + 1)..last[s]
    BY CursorType
  <1>2. PendingTo(i, s, l, c)' = PendingTo(i, s, l, c)
    BY <1>1 DEF PendingTo, StoredEvents
  <1>3. CASE PendingTo(i, s, l, c) = {}
    BY <1>2, <1>3 DEF ReplayedTo
  <1>4. CASE PendingTo(i, s, l, c) # {}
    <2>1. Max(PendingTo(i, s, l, c)) \in (applied[i][s] + 1)..c
      <3>1. Max(PendingTo(i, s, l, c)) \in PendingTo(i, s, l, c)
        BY <1>4, PendingToMax
      <3>2. PendingTo(i, s, l, c) \subseteq (applied[i][s] + 1)..c
        BY DEF PendingTo, StoredEvents
      <3> QED BY <3>1, <3>2
    <2> QED BY <1>1, <1>2, <1>4, <2>1 DEF ReplayedTo
  <1> QED BY <1>3, <1>4

Tells(i, s, k, c) == \E l \in Locator : ReplayedTo(i, s, l, c) = k

\* What the write of a row makes of the replayed keys of an index in service.
LEMMA WriteTo ==
    ASSUME ReplayInv(Index), Write, NEW i \in Index, lifecycle[i] = "Ready",
           NEW s \in Shard, NEW l \in Locator, RowKey(i, rows[s][l]) = Replayed(i, s, l),
           NEW z \in Nat, last[s] <= z, z <= last'[s]
    PROVE  TellsRow(i, s, l, z)
  <1>1. PICK C \in SUBSET Index : C = ReadyIndexes
    BY DEF ReadyIndexes
  <1>2. i \in C /\ UNCHANGED <<applied, entries>>
    BY <1>1 DEF ReadyIndexes, Write, authorityVars
  <1>3. PICK t \in Shard, old \in Locator \cup {NoLocator}, new \in Locator \cup {NoLocator},
             v \in Value \cup {NoRow} : CommitRow(t, old, new, v, C)
    BY <1>1 DEF Write
  <1> QED BY <1>1, <1>2, <1>3, CommitRowTo

\* A row transaction passes through no state without the key: until its event for the
\* index the old rows are told, from then on the new ones.
LEMMA WriteTells ==
    ASSUME ReplayInv(Index), Write, NEW i \in Index, Trusted(i), NEW s \in Shard, NEW k \in Key,
           NEW need \in Nat, need <= last[s],
           \A c \in need..last[s] : applied[i][s] <= c => Tells(i, s, k, c),
           s \in Holding(rows, i, k), s \in Holding(rows', i, k)
    PROVE  /\ need <= last'[s]
           /\ \A c \in need..last'[s] : applied'[i][s] <= c => Tells(i, s, k, c)'
  <1>1. PICK t \in Shard, old \in Locator \cup {NoLocator}, new \in Locator \cup {NoLocator},
             v \in Value \cup {NoRow} : CommitRow(t, old, new, v, ReadyIndexes)
    BY DEF Write
  <1>2. i \in ReadyIndexes /\ ReadyIndexes \in SUBSET Index /\ applied' = applied /\ entries' = entries
    BY DEF ReadyIndexes, Write, authorityVars, Trusted
  <1>3. TypeInv /\ OutboxInv /\ lifecycle[i] = "Ready"
    BY DEF ReplayInv, TypeInv, Trusted
  <1>4. last[s] <= last'[s] /\ \A d \in 1..last[s] : events'[s][d] = events[s][d]
    BY <1>1, <1>2, <1>3, CommitRowKeeps
  <1>5. last[s] \in Nat /\ last'[s] \in Nat /\ applied[i][s] \in Nat
    <2>1. OutboxInv'
      BY <1>1, <1>2, <1>3, CommitRowInv
    <2>2. last' \in [Shard -> Cursor]
      BY <2>1 DEF OutboxInv, OutboxTypeOK
    <2> QED BY <1>3, <2>2, CursorType, OutboxAssumption DEF Cursor
  <1>6. \A l \in Locator : RowKey(i, rows[s][l]) = Replayed(i, s, l)
    BY InStep
  <1>7. ASSUME NEW c \in need..last'[s], applied'[i][s] <= c PROVE Tells(i, s, k, c)'
    <2>1. c \in Nat
      BY <1>5
    <2>2. CASE c <= last[s]
      <3>1. PICK l \in Locator : ReplayedTo(i, s, l, c) = k
        BY <1>2, <1>5, <1>7, <2>1, <2>2 DEF Tells
      <3>2. \A d \in (applied[i][s] + 1)..last[s] : events'[s][d] = events[s][d]
        BY <1>4, <1>5
      <3>3. ReplayedTo(i, s, l, c)' = k
        BY <1>2, <1>3, <2>1, <2>2, <3>1, <3>2, SameTo
      <3> QED BY <3>3 DEF Tells
    <2>3. CASE ~ (c <= last[s])
      <3>1. last[s] <= c /\ c <= last'[s]
        BY <1>5, <1>7, <2>1, <2>3
      <3>2. PICK old_l \in Locator : RowKey(i, rows[s][old_l]) = k
        BY DEF Holding
      <3>3. PICK new_l \in Locator : RowKey(i, rows'[s][new_l]) = k
        BY DEF Holding
      <3>4. CASE ~ Told(i, s, c)
        <4>1. ReplayedTo(i, s, old_l, c)' = RowKey(i, rows[s][old_l])
          BY <1>3, <1>6, <2>1, <3>1, <3>4, WriteTo DEF TellsRow
        <4> QED BY <3>2, <4>1 DEF Tells
      <3>5. CASE Told(i, s, c)
        <4>1. ReplayedTo(i, s, new_l, c)' = RowKey(i, rows'[s][new_l])
          BY <1>3, <1>6, <2>1, <3>1, <3>5, WriteTo DEF TellsRow
        <4> QED BY <3>3, <4>1 DEF Tells
      <3> QED BY <3>4, <3>5
    <2> QED BY <2>2, <2>3
  <1> QED BY <1>4, <1>5, <1>7

\* Neither does any other online step.
LEMMA StillTells ==
    ASSUME ReplayInv(Index), Online, NEW i \in Index, Trusted(i), i \notin rebuild',
           NEW s \in Shard, NEW k \in Key,
           NEW need \in Nat, need <= last[s],
           \A c \in need..last[s] : applied[i][s] <= c => Tells(i, s, k, c),
           s \in Holding(rows, i, k), s \in Holding(rows', i, k)
    PROVE  /\ need <= last'[s]
           /\ \A c \in need..last'[s] : applied'[i][s] <= c => Tells(i, s, k, c)'
  <1>1. TypeInv /\ AckBehind(i) /\ LegacyFenced /\ lifecycle[i] = "Ready" /\ i \notin rebuild
    BY DEF ReplayInv, MaintenanceOf, Trusted
  <1>2. last[s] \in Nat /\ applied[i][s] \in Nat
    BY <1>1, CursorType
  <1>3. ASSUME last'[s] = last[s], applied'[i][s] = applied[i][s], entries'[i][s] = entries[i][s],
               \A d \in (applied[i][s] + 1)..last[s] : events'[s][d] = events[s][d]
        PROVE  /\ need <= last'[s]
               /\ \A c \in need..last'[s] : applied'[i][s] <= c => Tells(i, s, k, c)'
    <2>1. ASSUME NEW c \in need..last[s], applied[i][s] <= c PROVE Tells(i, s, k, c)'
      <3>1. c \in Nat /\ c <= last[s]
        BY <1>2
      <3>2. PICK l \in Locator : ReplayedTo(i, s, l, c) = k
        BY <2>1 DEF Tells
      <3>3. ReplayedTo(i, s, l, c)' = k
        BY <1>1, <1>3, <3>1, <3>2, SameTo
      <3> QED BY <3>3 DEF Tells
    <2> QED BY <1>3, <2>1
  <1>4. CASE Write
    BY <1>4, WriteTells
  <1>5. CASE LegacyWrite
    BY <1>1, <1>5 DEF LegacyWrite, LegacyFenced, ReadyIndexes
  <1>6. CASE \E t \in Shard : Prune(t, BatchLimit) /\ UNCHANGED authorityVars
    <2>1. last' = last /\ applied' = applied /\ entries' = entries
      BY <1>6 DEF Prune, authorityVars
    <2>2. \A d \in (applied[i][s] + 1)..last[s] : events'[s][d] = events[s][d]
      BY <1>1, <1>6, PruneKeeps
    <2> QED BY <1>3, <2>1, <2>2
  <1>7. ASSUME NEW w \in Worker, ApplyBatch(w)
        PROVE  /\ need <= last'[s]
               /\ \A c \in need..last'[s] : applied'[i][s] <= c => Tells(i, s, k, c)'
    <2>1. events' = events /\ last' = last
      BY <1>7 DEF ApplyBatch, outboxVars
    <2>2. CASE i = pass[w].index /\ s = pass[w].shard
      <3>1. applied[i][s] <= applied'[i][s] /\ applied'[i][s] \in Nat
        <4>1. TypeInv'
          BY <1>1, TypeStep DEF Next
        <4>2. applied'[i][s] \in Nat
          BY <4>1, OutboxAssumption DEF TypeInv, AuthorityTypeOK, Cursor
        <4> QED BY <1>7, <4>2, ApplyBatchAdvances
      <3>2. ASSUME NEW c \in need..last[s], applied'[i][s] <= c PROVE Tells(i, s, k, c)'
        <4>1. c \in Nat /\ c <= last[s] /\ applied[i][s] <= c
          BY <1>2, <3>1, <3>2
        <4>2. PICK l \in Locator : ReplayedTo(i, s, l, c) = k
          BY <3>2, <4>1 DEF Tells
        <4>3. ReplayedTo(i, s, l, c)' = k
          BY <1>7, <2>2, <3>2, <4>1, <4>2, ApplyBatchTo
        <4> QED BY <4>3 DEF Tells
      <3> QED BY <2>1, <3>2
    <2>3. CASE ~ (i = pass[w].index /\ s = pass[w].shard)
      <3>1. pass[w].index \in Index /\ pass[w].shard \in Shard
        BY <1>1, PassType
      <3>2. applied'[i][s] = applied[i][s]
        BY <1>1, <1>7, <2>3, <3>1 DEF ApplyBatch, TypeInv, AuthorityTypeOK
      <3>3. entries'[i][s] = entries[i][s]
        BY <1>1, <1>7, <2>3, <3>1 DEF ApplyBatch, TypeInv, AuthorityTypeOK
      <3> QED BY <1>3, <2>1, <3>2, <3>3
    <2> QED BY <2>2, <2>3
  <1>8. CASE UNCHANGED <<rows, events, last, pruned>>
    <2>1. CASE UNCHANGED <<entries, applied>>
      BY <1>3, <1>8, <2>1
    <2> QED BY <1>7, <2>1, OnlineAuthority
  <1> QED BY <1>4, <1>5, <1>6, <1>8, OnlineOutbox

--------------------------------------------------------------------------------
(* Queries while writers, workers and operators run.                       *)

\* The history of a query shrinks to the shards that still have the key.
LEMMA StillHeldEffect ==
    ASSUME read \in [Reader -> Read], StillHeld
    PROVE  /\ read' \in [Reader -> Read]
           /\ \A r \in Reader :
                 /\ read'[r] = [read[r] EXCEPT !.must =
                                   @ \cap Holding(rows', read[r].index, read[r].key)]
                 /\ read'[r].must = read[r].must \cap Holding(rows', read[r].index, read[r].key)
                 /\ read'[r].step = read[r].step /\ read'[r].index = read[r].index
                 /\ read'[r].key = read[r].key /\ read'[r].todo = read[r].todo
                 /\ read'[r].need = read[r].need /\ read'[r].uncertain = read[r].uncertain
                 /\ read'[r].candidates = read[r].candidates
                 /\ read'[r].owners = read[r].owners /\ read'[r].stale = read[r].stale
  <1>1. ASSUME NEW r \in Reader
        PROVE  [read[r] EXCEPT !.must = @ \cap Holding(rows', read[r].index, read[r].key)] \in Read
    BY ReadFields DEF Read
  <1>2. \A r \in Reader : read'[r] = [read[r] EXCEPT !.must =
                              @ \cap Holding(rows', read[r].index, read[r].key)]
    BY DEF StillHeld
  <1>3. read' \in [Reader -> Read]
    BY <1>1 DEF StillHeld
  <1> QED BY <1>2, <1>3, ReadFields DEF Read

LEMMA OnlineQuery == ASSUME ReadInv, Online, StillHeld, NEW r \in Reader PROVE QueryInv(r)'
  <1>1. ReplayInv(Index) /\ TypeInv /\ read \in [Reader -> Read] /\ QueryInv(r)
    BY DEF ReadInv, ReplayInv
  <1>. PICK i \in Index, k \in Key \cup {NoKey} : i = read[r].index /\ k = read[r].key
    BY <1>1, ReadFields
  <1>2. lifecycle' = lifecycle /\ rebuild \subseteq rebuild'
    BY OnlineFrame
  <1>3. /\ read'[r].must = read[r].must \cap Holding(rows', i, k)
        /\ read'[r].step = read[r].step /\ read'[r].index = i
        /\ read'[r].key = k /\ read'[r].todo = read[r].todo
        /\ read'[r].need = read[r].need /\ read'[r].uncertain = read[r].uncertain
        /\ read'[r].candidates = read[r].candidates
        /\ read'[r].owners = read[r].owners /\ read'[r].stale = read[r].stale
    BY <1>1, StillHeldEffect
  <1>4. TargetShards(r)' = TargetShards(r)
    BY <1>3 DEF TargetShards
  <1>5. read[r].step # "idle" =>
           /\ lifecycle'[read'[r].index] = "Ready" /\ read'[r].key \in Key
           /\ read'[r].must \subseteq Holding(rows', read'[r].index, read'[r].key)
    BY <1>1, <1>2, <1>3 DEF QueryInv
  <1>6. ASSUME read[r].step \in {"require", "authority"} PROVE CaptureInv(r)'
    <2>1. CaptureInv(r) /\ i \in Index /\ k \in Key /\ read[r].must \subseteq Holding(rows, i, k)
          /\ read[r].must \subseteq Shard /\ read[r].need \in [Shard -> Cursor]
      BY <1>1, <1>6, ReadFields DEF QueryInv
    <2> SUFFICES ASSUME NEW s \in read'[r].must \ read[r].todo
                 PROVE  /\ read[r].need[s] <= last'[s]
                        /\ Trusted(i)' => \A c \in read[r].need[s]..last'[s] :
                              applied'[i][s] <= c => Tells(i, s, k, c)'
      BY <1>3 DEF CaptureInv, Tells
    <2>2. s \in Shard /\ s \in read[r].must \ read[r].todo /\ s \in Holding(rows', i, k)
      BY <1>3, <2>1
    <2>3. read[r].need[s] \in Nat /\ read[r].need[s] <= last[s]
      BY <2>1, <2>2, OutboxAssumption DEF Cursor, CaptureInv
    <2>4. last[s] <= last'[s] /\ last[s] \in Nat /\ last'[s] \in Nat
      <3>1. lifecycle[i] = "Ready"
        BY <1>1, <1>6 DEF QueryInv
      <3>2. last[s] <= last'[s]
        BY <1>1, <2>1, <2>2, <3>1, InService
      <3>3. TypeInv'
        BY <1>1, TypeStep DEF Next
      <3>4. last' \in [Shard -> Cursor]
        BY <3>3 DEF TypeInv, OutboxInv, OutboxTypeOK
      <3> QED BY <1>1, <2>1, <2>2, <3>2, <3>4, CursorType, OutboxAssumption DEF Cursor
    <2>5. ASSUME Trusted(i)'
          PROVE  \A c \in read[r].need[s]..last'[s] : applied'[i][s] <= c => Tells(i, s, k, c)'
      <3>1. Trusted(i) /\ i \notin rebuild'
        BY <1>2, <2>5 DEF Trusted
      <3>2. \A c \in read[r].need[s]..last[s] : applied[i][s] <= c => Tells(i, s, k, c)
        BY <2>1, <2>2, <3>1 DEF CaptureInv, Tells
      <3>3. s \in Holding(rows, i, k)
        BY <2>1, <2>2
      <3>4. PICK need \in Nat : need = read[r].need[s]
        BY <2>3
      <3> QED BY <1>1, <2>1, <2>2, <2>3, <3>1, <3>2, <3>3, <3>4, StillTells
    <2> QED BY <2>3, <2>4, <2>5
  <1> QED BY <1>1, <1>3, <1>4, <1>5, <1>6 DEF QueryInv

--------------------------------------------------------------------------------
(* The steps of a query.                                                   *)

LEMMA BeginReadQuery ==
    ASSUME ReadInv, NEW r \in Reader, NEW i \in Index, NEW k \in Key, BeginRead(r, i, k)
    PROVE  read' \in [Reader -> Read] /\ QueryInv(r)' /\ \A q \in Reader : q # r => read'[q] = read[q]
  <1> DEFINE local == [NoRead EXCEPT !.step = "require", !.index = i, !.key = k,
                                     !.must = Holding(rows, i, k), !.todo = Shard]
  <1>1. read \in [Reader -> Read] /\ lifecycle[i] = "Ready" /\ Become(r, local) /\ UNCHANGED vars
    BY DEF ReadInv, BeginRead
  <1>2. Holding(rows, i, k) \subseteq Shard
    BY DEF Holding
  <1>3. local \in Read
    BY <1>2, NoReadType DEF Read
  <1>4. /\ local.step = "require" /\ local.index = i /\ local.key = k
        /\ local.must = Holding(rows, i, k) /\ local.todo = Shard
    BY DEF NoRead
  <1> HIDE DEF local
  <1>5. /\ read' \in [Reader -> Read] /\ read'[r] = local
        /\ \A q \in Reader : q # r => read'[q] = read[q]
    BY <1>1, <1>3, BecomeEffect
  <1>6. rows' = rows /\ lifecycle' = lifecycle
    BY <1>1 DEF vars, outboxVars
  <1>7. CaptureInv(r)'
    BY <1>2, <1>4, <1>5 DEF CaptureInv
  <1> QED BY <1>1, <1>4, <1>5, <1>6, <1>7 DEF QueryInv

\* The high-water mark of a shard is a requirement that the rows answer for.
LEMMA CaptureQuery ==
    ASSUME ReadInv, NEW r \in Reader, NEW s \in Shard, CaptureRequirement(r, s)
    PROVE  read' \in [Reader -> Read] /\ QueryInv(r)' /\ \A q \in Reader : q # r => read'[q] = read[q]
  <1> DEFINE rest == read[r].todo \ {s}
             local == [read[r] EXCEPT !.step = IF rest = {} THEN "authority" ELSE @,
                                      !.todo = rest, !.need[s] = last[s]]
  <1>1. /\ read \in [Reader -> Read] /\ read[r].step = "require" /\ Become(r, local)
        /\ UNCHANGED vars /\ ReplayInv(Index) /\ TypeInv /\ QueryInv(r)
    BY DEF ReadInv, ReplayInv, CaptureRequirement
  <1>. PICK i \in Index, k \in Key \cup {NoKey} : i = read[r].index /\ k = read[r].key
    BY <1>1, ReadFields
  <1>2. /\ read[r] \in Read /\ i \in Index /\ read[r].need \in [Shard -> Cursor]
        /\ last[s] \in Cursor /\ rest \subseteq Shard
    BY <1>1, ReadFields DEF TypeInv, OutboxInv, OutboxTypeOK
  <1>3. local \in Read
    BY <1>1, <1>2 DEF Read
  <1>4. /\ local.step \in {"require", "authority"} /\ (local.step = "authority" => rest = {})
        /\ local.index = i /\ local.key = k /\ local.must = read[r].must /\ local.todo = rest
        /\ local.need = [read[r].need EXCEPT ![s] = last[s]]
    BY <1>1, <1>2 DEF Read
  <1> HIDE DEF local
  <1>5. /\ read' \in [Reader -> Read] /\ read'[r] = local
        /\ \A q \in Reader : q # r => read'[q] = read[q]
    BY <1>1, <1>3, BecomeEffect
  <1>6. /\ rows' = rows /\ events' = events /\ last' = last /\ lifecycle' = lifecycle
        /\ rebuild' = rebuild /\ applied' = applied /\ entries' = entries
    BY <1>1 DEF vars, outboxVars, authorityVars
  <1>7. \A j, t, l, c : ReplayedTo(j, t, l, c)' = ReplayedTo(j, t, l, c)
    BY <1>6 DEF ReplayedTo, PendingTo, StoredEvents
  <1>8. lifecycle[i] = "Ready" /\ k \in Key /\ read[r].must \subseteq Holding(rows, i, k)
        /\ CaptureInv(r)
    BY <1>1 DEF QueryInv
  <1>9. ASSUME NEW t \in read[r].must \ rest
        PROVE  /\ local.need[t] <= last[t]
               /\ Trusted(i) => \A c \in local.need[t]..last[t] :
                     applied[i][t] <= c => \E l \in Locator : ReplayedTo(i, t, l, c) = k
    <2>1. t \in Shard /\ last[t] \in Nat
      BY <1>1, <1>2, ReadFields, CursorType
    <2>2. CASE t = s
      <3>1. local.need[t] = last[t]
        BY <1>2, <1>4, <2>2
      <3>2. ASSUME Trusted(i), NEW c \in last[t]..last[t]
            PROVE  \E l \in Locator : ReplayedTo(i, t, l, c) = k
        <4>1. PICK l \in Locator : RowKey(i, rows[t][l]) = k
          BY <1>8, <1>9 DEF Holding
        <4>2. Replayed(i, t, l) = k
          BY <1>1, <1>2, <2>1, <3>2, <4>1, InStep
        <4>3. c = last[t]
          BY <2>1
        <4>4. ReplayedTo(i, t, l, c) = k
          BY <4>2, <4>3 DEF Replayed, Pending, ReplayedTo, PendingTo
        <4> QED BY <4>4
      <3> QED BY <2>1, <3>1, <3>2
    <2>3. CASE t # s
      <3>1. local.need[t] = read[r].need[t] /\ t \in read[r].must \ read[r].todo
        BY <1>2, <1>4, <1>9, <2>1, <2>3
      <3> QED BY <1>8, <3>1 DEF CaptureInv
    <2> QED BY <2>2, <2>3
  <1>10. CaptureInv(r)'
    <2>1. /\ read'[r].index = i /\ read'[r].key = k /\ read'[r].must = read[r].must
          /\ read'[r].todo = rest /\ read'[r].need = local.need
      BY <1>4, <1>5
    <2> SUFFICES ASSUME NEW t \in read[r].must \ rest
                 PROVE  /\ local.need[t] <= last'[t]
                        /\ Trusted(i)' => \A c \in local.need[t]..last'[t] :
                              applied'[i][t] <= c => \E l \in Locator : ReplayedTo(i, t, l, c)' = k
      BY <2>1 DEF CaptureInv
    <2>2. Trusted(i)' = Trusted(i)
      BY <1>6 DEF Trusted
    <2> QED BY <1>6, <1>7, <1>9, <2>2
  <1> QED BY <1>4, <1>5, <1>6, <1>8, <1>10 DEF QueryInv

\* A shard that the authority excludes has a candidate: its watermark is a cursor at which
\* the index tells the key, and no tombstone hides an entry.
LEMMA AuthorityQuery ==
    ASSUME ReadInv, NEW r \in Reader, ReadAuthority(r)
    PROVE  read' \in [Reader -> Read] /\ QueryInv(r)' /\ \A q \in Reader : q # r => read'[q] = read[q]
  <1>1. /\ read \in [Reader -> Read] /\ read[r].step = "authority" /\ UNCHANGED vars
        /\ ReplayInv(Index) /\ TypeInv /\ QueryInv(r) /\ \A i \in Index : AckBehind(i)
    BY DEF ReadInv, ReplayInv, MaintenanceOf, ReadAuthority
  <1>. PICK i \in Index, k \in Key \cup {NoKey} : i = read[r].index /\ k = read[r].key
    BY <1>1, ReadFields
  <1> DEFINE found == CandidatesFor(read[r].index, read[r].key)
             unsure == UncertainShards(read[r].index, read[r].need)
             all == [read[r] EXCEPT !.step = "done", !.uncertain = Shard]
             some == [read[r] EXCEPT !.step = "verify", !.candidates = found, !.uncertain = unsure]
  <1>2. Become(r, all) \/ Become(r, some)
    BY Zenon DEF ReadAuthority
  <1>3. found \subseteq Candidate /\ unsure \subseteq Shard
    BY DEF CandidatesFor, UncertainShards
  <1>4. all \in Read /\ some \in Read
    <2>1. all \in Read
      BY ZenonT(40), <1>1, ReadFields DEF Read
    <2> HIDE DEF found, unsure
    <2>2. some \in Read
      BY ZenonT(40), <1>1, <1>3, ReadFields DEF Read
    <2> QED BY <2>1, <2>2
  <1>5. rows' = rows /\ lifecycle' = lifecycle
    BY <1>1 DEF vars, outboxVars
  <1>6. /\ lifecycle[i] = "Ready" /\ k \in Key /\ read[r].must \subseteq Holding(rows, i, k)
        /\ CaptureInv(r) /\ read[r].todo = {} /\ read[r].must \subseteq Shard
        /\ read[r].need \in [Shard -> Cursor] /\ read[r].owners \subseteq Shard
    BY <1>1, ReadFields DEF QueryInv
  <1>7. CASE Become(r, all)
    <2>1. /\ all.step = "done" /\ all.uncertain = Shard /\ all.index = i /\ all.key = k
          /\ all.must = read[r].must
      BY <1>1, ReadFields DEF Read
    <2> HIDE DEF all
    <2>2. /\ read' \in [Reader -> Read] /\ read'[r] = all
          /\ \A q \in Reader : q # r => read'[q] = read[q]
      BY <1>1, <1>4, <1>7, BecomeEffect
    <2>3. read'[r].must \subseteq TargetShards(r)'
      BY <1>6, <2>1, <2>2 DEF TargetShards
    <2> QED BY <1>5, <1>6, <2>1, <2>2, <2>3 DEF QueryInv
  <1>8. CASE Become(r, some)
    <2>1. /\ some.step = "verify" /\ some.uncertain = unsure /\ some.candidates = found
          /\ some.index = i /\ some.key = k /\ some.must = read[r].must
      BY <1>1, ReadFields DEF Read
    <2> HIDE DEF some
    <2>2. /\ read' \in [Reader -> Read] /\ read'[r] = some
          /\ \A q \in Reader : q # r => read'[q] = read[q]
      BY <1>1, <1>4, <1>8, BecomeEffect
    <2>3. unsure \subseteq TargetShards(r)'
      BY <1>3, <2>1, <2>2 DEF TargetShards
    <2>4. ASSUME NEW s \in read[r].must, s \notin unsure
          PROVE  \E c \in found : c[1] = s
      <3>1. s \in Shard /\ i \notin rebuild /\ repairs[i] = {} /\ applied[i][s] >= read[r].need[s]
        BY <1>6, <2>4 DEF UncertainShards, FreshFor
      <3>2. /\ applied[i][s] \in Nat /\ read[r].need[s] \in Nat /\ last[s] \in Nat
            /\ applied[i][s] <= last[s]
        BY <1>1, <1>6, <3>1, CursorType, OutboxAssumption DEF AckBehind, Cursor
      <3>3. PICK z : z = applied[i][s]
        OBVIOUS
      <3>4. z \in read[r].need[s]..last[s] /\ applied[i][s] <= z
        BY <3>1, <3>2, <3>3
      <3>5. PICK l \in Locator : ReplayedTo(i, s, l, z) = k
        BY <1>6, <3>1, <3>4 DEF CaptureInv, Trusted
      <3>6. entries[i][s][l] = k
        <4>1. PendingTo(i, s, l, z) = {}
          BY <3>2, <3>3 DEF PendingTo, StoredEvents
        <4> QED BY <3>5, <4>1 DEF ReplayedTo
      <3>7. <<s, l>> \in found
        BY <3>1, <3>6 DEF CandidatesFor, Candidate
      <3> QED BY <3>7
    <2>5. read'[r].must \subseteq {c[1] : c \in read'[r].candidates} \cup TargetShards(r)'
      <3> SUFFICES ASSUME NEW s \in read[r].must, s \notin TargetShards(r)'
                   PROVE  s \in {c[1] : c \in found}
        BY <2>1, <2>2
      <3>1. \E c \in found : c[1] = s
        BY <2>3, <2>4
      <3> QED BY <3>1
    <2> QED BY <1>5, <1>6, <2>1, <2>2, <2>5 DEF QueryInv
  <1> QED BY <1>2, <1>7, <1>8

\* A verified candidate makes its shard an owner, a stale one every shard uncertain.
LEMMA VerifyQuery ==
    ASSUME ReadInv, NEW r \in Reader, NEW c \in Candidate, VerifyCandidate(r, c)
    PROVE  read' \in [Reader -> Read] /\ QueryInv(r)' /\ \A q \in Reader : q # r => read'[q] = read[q]
  <1> DEFINE owner == [read[r] EXCEPT !.candidates = @ \ {c}, !.owners = @ \cup {c[1]}]
             stale == [read[r] EXCEPT !.candidates = @ \ {c}, !.stale = @ \cup {c}]
  <1>1. /\ read \in [Reader -> Read] /\ read[r].step = "verify" /\ UNCHANGED vars /\ QueryInv(r)
        /\ c \in read[r].candidates
    BY DEF ReadInv, VerifyCandidate
  <1>2. Become(r, owner) \/ Become(r, stale)
    BY DEF VerifyCandidate
  <1>3. c[1] \in Shard
    BY DEF Candidate
  <1>4. owner \in Read /\ stale \in Read
    <2>1. owner \in Read
      BY ZenonT(40), <1>1, <1>3, ReadFields DEF Read
    <2>2. stale \in Read
      BY ZenonT(40), <1>1, ReadFields DEF Read
    <2> QED BY <2>1, <2>2
  <1>5. rows' = rows /\ lifecycle' = lifecycle
    BY <1>1 DEF vars, outboxVars
  <1>6. /\ lifecycle[read[r].index] = "Ready" /\ read[r].key \in Key
        /\ read[r].must \subseteq Holding(rows, read[r].index, read[r].key)
        /\ read[r].must \subseteq {d[1] : d \in read[r].candidates} \cup TargetShards(r)
        /\ read[r].must \subseteq Shard /\ read[r].owners \subseteq Shard
        /\ read[r].uncertain \subseteq Shard
    BY <1>1, ReadFields DEF QueryInv
  <1>7. CASE Become(r, owner)
    <2>1. /\ owner.step = "verify" /\ owner.index = read[r].index /\ owner.key = read[r].key
          /\ owner.must = read[r].must /\ owner.candidates = read[r].candidates \ {c}
          /\ owner.owners = read[r].owners \cup {c[1]} /\ owner.stale = read[r].stale
          /\ owner.uncertain = read[r].uncertain
      BY <1>1, ReadFields DEF Read
    <2> HIDE DEF owner
    <2>2. /\ read' \in [Reader -> Read] /\ read'[r] = owner
          /\ \A q \in Reader : q # r => read'[q] = read[q]
      BY <1>1, <1>4, <1>7, BecomeEffect
    <2>3. TargetShards(r) \cup {c[1]} \subseteq TargetShards(r)'
      BY <1>3, <1>6, <2>1, <2>2 DEF TargetShards
    <2>4. read[r].must \subseteq {d[1] : d \in owner.candidates} \cup TargetShards(r)'
      BY <1>6, <2>1, <2>3
    <2> QED BY <1>5, <1>6, <2>1, <2>2, <2>4 DEF QueryInv
  <1>8. CASE Become(r, stale)
    <2>1. /\ stale.step = "verify" /\ stale.index = read[r].index /\ stale.key = read[r].key
          /\ stale.must = read[r].must /\ stale.stale = read[r].stale \cup {c}
      BY <1>1, ReadFields DEF Read
    <2> HIDE DEF stale
    <2>2. /\ read' \in [Reader -> Read] /\ read'[r] = stale
          /\ \A q \in Reader : q # r => read'[q] = read[q]
      BY <1>1, <1>4, <1>8, BecomeEffect
    <2>3. Shard \subseteq TargetShards(r)'
      BY <2>1, <2>2 DEF TargetShards
    <2> QED BY <1>5, <1>6, <2>1, <2>2, <2>3 DEF QueryInv
  <1> QED BY <1>2, <1>7, <1>8

\* The end of a query: with a stale candidate every shard is a target.
LEMMA FinishQuery ==
    ASSUME ReadInv, NEW r \in Reader, NEW local \in Read, Become(r, local),
           UNCHANGED <<rows, lifecycle>>, read[r].step \in {"verify", "apply"},
           local.step \in {"apply", "done"},
           local.index = read[r].index, local.key = read[r].key, local.must = read[r].must,
           local.owners = read[r].owners, local.stale = read[r].stale,
           local.uncertain = read[r].uncertain,
           read[r].stale = {} => read[r].candidates = {} /\ local.step = "done"
    PROVE  read' \in [Reader -> Read] /\ QueryInv(r)' /\ \A q \in Reader : q # r => read'[q] = read[q]
  <1>1. read \in [Reader -> Read] /\ QueryInv(r)
    BY DEF ReadInv
  <1>2. /\ read' \in [Reader -> Read] /\ read'[r] = local
        /\ \A q \in Reader : q # r => read'[q] = read[q]
    BY <1>1, BecomeEffect
  <1>3. TargetShards(r)' = TargetShards(r)
    BY <1>2 DEF TargetShards
  <1>4. /\ lifecycle[read[r].index] = "Ready" /\ read[r].key \in Key
        /\ read[r].must \subseteq Holding(rows, read[r].index, read[r].key)
        /\ read[r].must \subseteq Shard
    BY <1>1, ReadFields DEF QueryInv
  <1>5. read[r].must \subseteq TargetShards(r)
    <2>1. CASE read[r].stale # {}
      BY <1>4, <2>1 DEF TargetShards
    <2>2. CASE read[r].stale = {}
      BY <1>1, <2>2 DEF QueryInv
    <2> QED BY <2>1, <2>2
  <1> QED BY <1>2, <1>3, <1>4, <1>5 DEF QueryInv

\* Queueing tombstones.
LEMMA QueueQuery ==
    ASSUME ReadInv, NEW r \in Reader, QueueRepairs(r)
    PROVE  /\ read' \in [Reader -> Read] /\ QueryInv(r)' /\ \A q \in Reader : q # r => read'[q] = read[q]
           /\ repairs' \in [Index -> SUBSET Repair]
  <1> DEFINE i == read[r].index
             queued == {c \in read[r].stale : Tombstone(r, c, 2) \notin repairs[i]}
             local == [read[r] EXCEPT !.step = IF queued = {} THEN "done" ELSE "apply",
                                      !.candidates = queued]
             added == {Tombstone(r, c, 1) : c \in queued}
  <1>1. /\ read \in [Reader -> Read] /\ read[r].step = "verify" /\ read[r].stale # {}
        /\ TypeInv /\ QueryInv(r)
    BY DEF ReadInv, ReplayInv, QueueRepairs
  <1>2. Become(r, local) /\ UNCHANGED <<rows, lifecycle>>
        /\ repairs' = [repairs EXCEPT ![i] = @ \cup added]
    BY DEF QueueRepairs, outboxVars
  <1>3. queued \subseteq Candidate /\ i \in Index
    BY <1>1, ReadFields
  <1>4. local \in Read
    <2> HIDE DEF queued
    <2> QED BY ZenonT(40), <1>1, <1>3, ReadFields DEF Read
  <1>5. /\ local.step \in {"apply", "done"}
        /\ local.index = read[r].index /\ local.key = read[r].key /\ local.must = read[r].must
        /\ local.owners = read[r].owners /\ local.stale = read[r].stale
        /\ local.uncertain = read[r].uncertain
    BY <1>1, ReadFields DEF Read
  <1>6. added \subseteq Repair
    <2>1. read[r].key \in Key
      BY <1>1 DEF QueryInv
    <2>2. ASSUME NEW c \in Candidate PROVE Tombstone(r, c, 1) \in Repair
      BY <2>1 DEF Tombstone, Repair, Candidate
    <2> QED BY <1>3, <2>2
  <1> HIDE DEF local, added
  <1>7. repairs' \in [Index -> SUBSET Repair]
    BY <1>1, <1>2, <1>3, <1>6 DEF TypeInv, AuthorityTypeOK
  <1>8. read' \in [Reader -> Read] /\ QueryInv(r)' /\ \A q \in Reader : q # r => read'[q] = read[q]
    BY <1>1, <1>2, <1>4, <1>5, FinishQuery
  <1> QED BY <1>7, <1>8

\* Applying tombstones.
LEMMA ApplyQuery ==
    ASSUME ReadInv, NEW r \in Reader, ApplyRepairs(r)
    PROVE  /\ read' \in [Reader -> Read] /\ QueryInv(r)' /\ \A q \in Reader : q # r => read'[q] = read[q]
           /\ repairs' \in [Index -> SUBSET Repair]
  <1> DEFINE i == read[r].index
             pending == {c \in read[r].candidates : Tombstone(r, c, 1) \in repairs[i]}
             local == [read[r] EXCEPT !.step = "done", !.candidates = {}]
             removed == {Tombstone(r, c, 1) : c \in pending}
             added == {Tombstone(r, c, 2) : c \in pending}
  <1>1. /\ read \in [Reader -> Read] /\ read[r].step = "apply" /\ TypeInv /\ QueryInv(r)
    BY DEF ReadInv, ReplayInv, ApplyRepairs
  <1>2. Become(r, local) /\ UNCHANGED <<rows, lifecycle>>
        /\ repairs' = [repairs EXCEPT ![i] = (@ \ removed) \cup added]
    BY DEF ApplyRepairs, outboxVars
  <1>3. pending \subseteq Candidate /\ i \in Index
    BY <1>1, ReadFields
  <1>4. local \in Read
    BY ZenonT(40), <1>1, ReadFields DEF Read
  <1>5. /\ local.step = "done"
        /\ local.index = read[r].index /\ local.key = read[r].key /\ local.must = read[r].must
        /\ local.owners = read[r].owners /\ local.stale = read[r].stale
        /\ local.uncertain = read[r].uncertain
    BY <1>1, ReadFields DEF Read
  <1>6. added \subseteq Repair
    <2>1. read[r].key \in Key
      BY <1>1 DEF QueryInv
    <2>2. ASSUME NEW c \in Candidate PROVE Tombstone(r, c, 2) \in Repair
      BY <2>1 DEF Tombstone, Repair, Candidate
    <2> QED BY <1>3, <2>2
  <1> HIDE DEF local, added, removed
  <1>7. repairs' \in [Index -> SUBSET Repair]
    BY <1>1, <1>2, <1>3, <1>6 DEF TypeInv, AuthorityTypeOK
  <1>8. read[r].stale # {}
    BY <1>1 DEF QueryInv
  <1>9. read' \in [Reader -> Read] /\ QueryInv(r)' /\ \A q \in Reader : q # r => read'[q] = read[q]
    BY <1>1, <1>2, <1>4, <1>5, <1>8, FinishQuery
  <1> QED BY <1>7, <1>9

\* The remaining steps of a query.
LEMMA EndQuery ==
    ASSUME ReadInv, NEW r \in Reader, FinishRead(r) \/ EndRead(r)
    PROVE  read' \in [Reader -> Read] /\ QueryInv(r)' /\ \A q \in Reader : q # r => read'[q] = read[q]
  <1>1. read \in [Reader -> Read] /\ QueryInv(r) /\ UNCHANGED <<rows, lifecycle>>
    BY DEF ReadInv, FinishRead, EndRead, vars, outboxVars
  <1>2. CASE FinishRead(r)
    <2> DEFINE local == [read[r] EXCEPT !.step = "done", !.candidates = {}]
    <2>1. /\ Become(r, local) /\ read[r].step \in {"verify", "apply"}
          /\ read[r].step = "verify" => read[r].candidates = {}
      BY <1>2 DEF FinishRead
    <2>2. local \in Read
      BY <1>1, ReadFields DEF Read
    <2>3. /\ local.step = "done"
          /\ local.index = read[r].index /\ local.key = read[r].key /\ local.must = read[r].must
          /\ local.owners = read[r].owners /\ local.stale = read[r].stale
          /\ local.uncertain = read[r].uncertain
      BY <1>1, ReadFields DEF Read
    <2>4. read[r].stale = {} => read[r].candidates = {}
      BY <1>1, <2>1 DEF QueryInv
    <2> HIDE DEF local
    <2> QED BY <1>1, <2>1, <2>2, <2>3, <2>4, FinishQuery
  <1>3. CASE EndRead(r)
    <2>1. Become(r, NoRead)
      BY <1>3 DEF EndRead
    <2>2. /\ read' \in [Reader -> Read] /\ read'[r] = NoRead
          /\ \A q \in Reader : q # r => read'[q] = read[q]
      BY <1>1, <2>1, NoReadType, BecomeEffect
    <2>3. read'[r].step = "idle"
      BY <2>2 DEF NoRead
    <2> QED BY <2>2, <2>3 DEF QueryInv
  <1> QED BY <1>2, <1>3

\* A step of a query changes the query, and at most the tombstones.
LEMMA ReadStepInv == ASSUME ReadInv, NEW r \in Reader, ReadStep(r) PROVE ReadInv'
  <1>1. /\ read' \in [Reader -> Read] /\ QueryInv(r)'
        /\ \A q \in Reader : q # r => read'[q] = read[q]
    BY BeginReadQuery, CaptureQuery, AuthorityQuery, VerifyQuery, QueueQuery, ApplyQuery, EndQuery
       DEF ReadStep
  <1>2. CASE QueueRepairs(r) \/ ApplyRepairs(r)
    <2>1. repairs' \in [Index -> SUBSET Repair]
      BY <1>2, QueueQuery, ApplyQuery
    <2>2. UNCHANGED <<outboxVars, lifecycle, built, checkpoint, entries, applied, poisoned,
                      rebuild, paused, lease, workerVars, legacy, maint>>
      BY <1>2 DEF QueueRepairs, ApplyRepairs
    <2>3. ReplayInv(Index)'
      BY <2>1, <2>2, RepairsKeep DEF ReadInv
    <2>4. ASSUME NEW q \in Reader, q # r PROVE QueryInv(q)'
      BY <1>1, <2>2, <2>4, OtherQuery DEF ReadInv, outboxVars
    <2> QED BY <1>1, <2>3, <2>4 DEF ReadInv
  <1>3. CASE UNCHANGED vars
    <2>1. ReplayInv(Index)'
      BY <1>3, AllIndexesStep DEF ReadInv
    <2>2. ASSUME NEW q \in Reader, q # r PROVE QueryInv(q)'
      BY <1>1, <1>3, <2>2, OtherQuery DEF ReadInv, vars, outboxVars, authorityVars
    <2> QED BY <1>1, <2>1, <2>2 DEF ReadInv
  <1> QED BY <1>2, <1>3 DEF ReadStep, BeginRead, CaptureRequirement, ReadAuthority, VerifyCandidate,
         FinishRead, EndRead

LEMMA ReadInvInit == ReadInit => ReadInv
  <1> SUFFICES ASSUME ReadInit PROVE ReadInv
    OBVIOUS
  <1>1. ReplayInv(Index) /\ read \in [Reader -> Read]
    BY AllIndexesInit, NoReadType DEF ReadInit
  <1>2. \A r \in Reader : read[r].step = "idle"
    BY DEF ReadInit, NoRead
  <1> QED BY <1>1, <1>2 DEF ReadInv, QueryInv

LEMMA ReadInvStep == ASSUME ReadInv, [ReadNext]_readVars PROVE ReadInv'
  <1>1. ReplayInv(Index) /\ read \in [Reader -> Read]
    BY DEF ReadInv
  <1>2. CASE \E r \in Reader : ReadStep(r)
    BY <1>2, ReadStepInv
  <1>3. CASE Online /\ StillHeld
    <2>1. ReplayInv(Index)'
      BY <1>1, <1>3, AllIndexesStep DEF Next
    <2>2. read' \in [Reader -> Read]
      BY <1>1, <1>3, StillHeldEffect
    <2> QED BY <1>3, <2>1, <2>2, OnlineQuery DEF ReadInv
  <1>4. CASE ReadersIdle /\ Maintenance /\ UNCHANGED read
    <2>1. ReplayInv(Index)'
      BY <1>1, <1>4, AllIndexesStep DEF Next
    <2>2. \A r \in Reader : read'[r].step = "idle"
      BY <1>4 DEF ReadersIdle
    <2> QED BY <1>1, <1>4, <2>1, <2>2 DEF ReadInv, QueryInv
  <1>5. CASE UNCHANGED readVars
    <2>1. UNCHANGED vars /\ read' = read
      BY <1>5 DEF readVars
    <2>2. ReplayInv(Index)'
      BY <1>1, <2>1, AllIndexesStep
    <2>3. \A q \in Reader : QueryInv(q)'
      BY <2>1, OtherQuery DEF ReadInv, vars, outboxVars, authorityVars
    <2> QED BY <1>1, <2>1, <2>2, <2>3 DEF ReadInv
  <1> QED BY <1>2, <1>3, <1>4, <1>5 DEF ReadNext

--------------------------------------------------------------------------------
(* The theorems about queries.                                             *)

\* Queries and the tombstones they leave are well-formed, with everything else.
THEOREM ReadTyped == ReadSpec => []ReadTypeOK
  <1>1. ReadInv => ReadTypeOK
    BY DEF ReadInv, ReadTypeOK, ReplayInv, TypeInv, OutboxInv, AuthorityTypeOK, WorkerTypeOK,
       ControlTypeOK, AsyncTypeOK
  <1> QED BY <1>1, ReadInvInit, ReadInvStep, PTL DEF ReadSpec

\* The plan of a query misses no shard that held a matching row while it was made, for
\* any number of writers' transactions, replays, tombstones and fences in between
\* (verify_nonunique_candidates, uncertain_shards, target_shards).
THEOREM ReadsSafe == ReadSpec => []ReadComplete
  <1>1. ReadInv => ReadComplete
    BY DEF ReadInv, QueryInv, ReadComplete
  <1> QED BY <1>1, ReadInvInit, ReadInvStep, PTL DEF ReadSpec

\* Queries disturb no replay: with them, too, an index in service tells the truth once
\* its pending events are replayed.
THEOREM ReadersKeepReplay == ReadSpec => []ReplayTruth
  <1>1. ReadInv => ReplayTruth
    BY DEF ReadInv, ReplayInv, MaintenanceOf, ReplayTruth
  <1> QED BY <1>1, ReadInvInit, ReadInvStep, PTL DEF ReadSpec

--------------------------------------------------------------------------------
(* Offline validation and repair.                                          *)

\* No online step completes or discards a build.
LEMMA OnlineBuilt == ASSUME Online PROVE UNCHANGED built
<1>1. ASSUME NEW w \in Worker, WorkerStep(w) PROVE UNCHANGED built
  BY <1>1, WorkerFrame DEF MarkRebuildRequired, AcquireLease, ApplyBatch, authorityVars
<1>2. CASE Passes \/ Workers \/ Rejections
  BY <1>1, <1>2 DEF Passes, Workers, Rejections, BeginPass, FailPass, RejectBatch,
     RecordPoison, authorityVars
<1>3. CASE Writers \/ LegacyWriter \/ Operators \/ Expiry
  BY <1>3 DEF Writers, LegacyWriter, Operators, Expiry, Write, LegacyFence, LegacyWrite,
     LegacyError, SetPaused, PruneOutbox, Expire, authorityVars
<1>. QED
  BY <1>2, <1>3 DEF Online

\* Only a removal takes an active consumer away.
LEMMA StaysActive ==
    ASSUME TypeInv, Next, NEW s \in Shard, NEW i \in Index, IsActive(s, i)
    PROVE  IsActive(s, i)' \/ (i = maint.index /\ maint.phase = "deactivate")
<1>1. OutboxInv /\ consumer \in [Shard -> [Index -> [state : {"none", "active", "inactive"},
                                                     cursor : Cursor]]]
  BY DEF TypeInv, OutboxInv, OutboxTypeOK
<1>2. CASE UNCHANGED consumer
  BY <1>2 DEF IsActive
<1>3. CASE Write \/ LegacyWrite
  <2>1. ReadyIndexes \in SUBSET Index /\ {} \in SUBSET Index
    BY DEF ReadyIndexes
  <2>2. consumer'[s][i] = consumer[s][i]
    BY <1>1, <1>3, <2>1, CommitRowKeeps DEF Write, LegacyWrite
  <2>. QED
    BY <2>2 DEF IsActive
<1>4. ASSUME NEW w \in Worker, Acknowledge(w) PROVE IsActive(s, i)'
  <2>1. CASE UNCHANGED consumer
    BY <1>2, <2>1 DEF IsActive
  <2>2. CASE AdvanceConsumer(pass[w].index, pass[w].shard, pass[w].through)
    <3>1. pass[w].index \in Index /\ pass[w].shard \in Shard
      BY PassType
    <3>2. PICK j \in Index, t \in Shard : j = pass[w].index /\ t = pass[w].shard
      BY <3>1
    <3>3. PICK c : consumer' = [consumer EXCEPT ![t][j].cursor = c]
      BY <2>2, <3>2, Zenon DEF AdvanceConsumer
    <3>4. consumer'[s][i].state = consumer[s][i].state
      BY <1>1, <3>3
    <3>. QED
      BY <3>4 DEF IsActive
  <2>. QED
    BY <1>4, <2>1, <2>2 DEF Acknowledge, outboxVars
<1>5. ASSUME NEW t \in Shard, ActivateShard(t) PROVE IsActive(s, i)'
  <2>1. consumer' = [consumer EXCEPT ![t][maint.index] = [state |-> "active", cursor |-> last[t]]]
    BY <1>5 DEF ActivateShard, ActivateIndex
  <2>2. maint.index \in Index
    BY DEF TypeInv, ControlTypeOK
  <2>3. consumer'[s][i].state = "active"
    BY <1>1, <2>1, <2>2 DEF IsActive
  <2>. QED
    BY <2>3 DEF IsActive
<1>6. ASSUME NEW t \in Shard, DeactivateShard(t), i # maint.index PROVE IsActive(s, i)'
  <2>1. PICK x : consumer' = [consumer EXCEPT ![t][maint.index].state = x]
    BY <1>6, Zenon DEF DeactivateShard, DeactivateIndex
  <2>2. consumer'[s][i] = consumer[s][i]
    BY <1>1, <1>6, <2>1
  <2>. QED
    BY <2>2 DEF IsActive
<1>7. ASSUME NEW t \in Shard, DeactivateShard(t) PROVE maint.phase = "deactivate"
  BY <1>7 DEF DeactivateShard
<1>8. ASSUME NEW t \in Shard, (\E w \in Worker : PruneShard(w, t)) \/ PruneOutbox(t)
      PROVE  UNCHANGED consumer
  BY <1>8 DEF PruneShard, PruneOutbox, Prune, outboxVars
<1>. QED
  BY <1>2, <1>3, <1>4, <1>5, <1>6, <1>7, <1>8, OutboxWriters DEF outboxVars

\* A build is complete after a step if it was before or has just been initialised, and
\* no step brings a dropped index back.
LEMMA BuiltBefore ==
    ASSUME TypeInv, Next, NEW i \in Index, built'[i],
           lifecycle'[i] \notin {"Dropping", "Dropped"}
    PROVE  /\ built[i] \/ (InitializeIndex /\ i = maint.index)
           /\ lifecycle[i] \notin {"Dropping", "Dropped"} \/ (PublishReady /\ i = maint.index)
<1>. USE DEF TypeInv, ControlTypeOK, AuthorityTypeOK
<1>1. CASE Online
  BY <1>1, OnlineFrame, OnlineBuilt
<1>2. CASE \E j \in Index : TransitionIndex(j)
  BY <1>2 DEF TransitionIndex, CanTransition, authorityVars
<1>3. CASE \E j \in Index : BeginBuild(j) \/ BeginRemove(j)
  BY <1>3 DEF BeginBuild, BeginRemove, authorityVars
<1>4. CASE \E s \in Shard : ScanShard(s) \/ ActivateShard(s) \/ DeactivateShard(s)
  BY <1>4 DEF ScanShard, ActivateShard, DeactivateShard, authorityVars
<1>5. CASE PrepareBuild \/ VerifyBuild \/ AbandonMaintenance
  BY <1>5 DEF PrepareBuild, DiscardBuild, VerifyBuild, AbandonMaintenance, authorityVars
<1>6. CASE InitializeIndex
  BY <1>6 DEF InitializeIndex
<1>7. CASE PublishReady
  BY <1>7 DEF PublishReady, authorityVars
<1>8. CASE RemoveIndex
  BY <1>8 DEF RemoveIndex, DiscardBuild
<1>. QED
  BY <1>1, <1>2, <1>3, <1>4, <1>5, <1>6, <1>7, <1>8 DEF Next, Maintenance, BuildStep, RemoveStep

LEMMA ConsumersKeptStep == ASSUME TypeInv, RecoveryInv, Next PROVE ConsumersKept'
<1>1. TypeInv /\ BuildStage /\ ConsumersKept /\ OfflineStage
  BY DEF RecoveryInv, MaintenanceOf
<1>. SUFFICES ASSUME NEW i \in Index, built'[i],
                     lifecycle'[i] \notin {"Dropping", "Dropped"}, NEW s \in Shard
              PROVE  IsActive(s, i)'
  BY DEF ConsumersKept
<1>2. CASE InitializeIndex /\ i = maint.index
  <2>1. IsActive(s, i) /\ UNCHANGED consumer
    BY <1>1, <1>2 DEF InitializeIndex, BuildStage, outboxVars
  <2>. QED
    BY <2>1 DEF IsActive
<1>3. CASE PublishReady /\ i = maint.index
  <2>1. IsActive(s, i) /\ UNCHANGED consumer
    BY <1>1, <1>3 DEF PublishReady, BuildStage, outboxVars
  <2>. QED
    BY <2>1 DEF IsActive
<1>4. CASE built[i] /\ lifecycle[i] \notin {"Dropping", "Dropped"}
  <2>1. IsActive(s, i)
    BY <1>1, <1>4 DEF ConsumersKept
  <2>. QED
    BY <1>1, <1>4, <2>1, StaysActive DEF OfflineStage
<1>. QED
  BY <1>1, <1>2, <1>3, <1>4, BuiltBefore

LEMMA OfflineStageStep == ASSUME TypeInv, RecoveryInv, Next PROVE OfflineStage'
<1>1. TypeInv /\ OfflineAlone /\ OfflineStage
  BY DEF RecoveryInv, MaintenanceOf
<1>. USE DEF TypeInv, ControlTypeOK
<1>2. CASE Online
  <2>1. UNCHANGED <<lifecycle, maint>>
    BY <1>2, OnlineFrame
  <2>. QED
    BY <1>1, <2>1 DEF OfflineStage
<1>3. CASE maint'.phase \notin {"deactivate", "validate"}
  BY <1>3 DEF OfflineStage
<1>4. CASE \E i \in Index : TransitionIndex(i)
  BY <1>3, <1>4 DEF TransitionIndex, Quiescent, GateOpen
<1>5. CASE \E i \in Index : BeginBuild(i)
  BY <1>3, <1>5 DEF BeginBuild, Maintain
<1>6. CASE \E i \in Index : BeginRemove(i)
  BY <1>6 DEF BeginRemove, Maintain, OfflineStage
<1>7. CASE \E s \in Shard : ScanShard(s) \/ ActivateShard(s)
  BY <1>3, <1>7 DEF ScanShard, ActivateShard, Maintain
<1>8. CASE \E s \in Shard : DeactivateShard(s)
  <2>1. /\ maint'.phase = "deactivate" /\ maint'.index = maint.index
        /\ maint.phase = "deactivate" /\ UNCHANGED lifecycle
    BY <1>8 DEF DeactivateShard, Maintain
  <2>. QED
    BY <1>1, <2>1 DEF OfflineStage
<1>9. CASE PrepareBuild \/ VerifyBuild \/ InitializeIndex
  BY <1>3, <1>9 DEF PrepareBuild, VerifyBuild, InitializeIndex, Maintain, NoMaint
<1>10. CASE PublishReady \/ RemoveIndex \/ AbandonMaintenance
  BY <1>3, <1>10 DEF PublishReady, RemoveIndex, AbandonMaintenance, NoMaint
<1>. QED
  BY <1>2, <1>4, <1>5, <1>6, <1>7, <1>8, <1>9, <1>10 DEF Next, Maintenance, BuildStep, RemoveStep

\* An index out of service needs no invariant of its own.
LEMMA OutOfService ==
    ASSUME NEW I \in SUBSET Index, NEW J \in SUBSET Index, ReplayInv(I)',
           \A i \in J \ I : lifecycle'[i] # "Ready"
    PROVE  ReplayInv(J)'
<1>1. ASSUME NEW i \in J PROVE AckBehind(i)' /\ Replays(i)'
  <2>1. CASE i \in I
    BY <2>1 DEF ReplayInv, MaintenanceOf
  <2>2. CASE i \notin I
    BY <1>1, <2>2 DEF AckBehind, Replays, Trusted
  <2>. QED
    BY <2>1, <2>2
<1>2. ASSUME NEW w \in Worker, pass'[w].index \in J PROVE BatchCurrent(w)'
  <2>1. PassBounds(w)' /\ (pass'[w].index \in I => BatchCurrent(w)')
    BY DEF ReplayInv, MaintenanceOf
  <2>2. CASE pass'[w].index \notin I
    BY <1>2, <2>1, <2>2 DEF PassBounds, BatchCurrent
  <2>. QED
    BY <2>1, <2>2
<1>. QED
  BY <1>1, <1>2 DEF ReplayInv, MaintenanceOf

\* A step that touches neither rows, outbox, authority nor workers, and puts an index of
\* J into service only when it is drained and right, keeps the invariant of maintenance.
LEMMA OfflineKeeps ==
    ASSUME NEW I \in SUBSET Index, NEW J \in SUBSET Index, ReplayInv(I),
           UNCHANGED <<outboxVars, authorityVars, workerVars, legacy>>,
           ControlTypeOK', OfflineAlone', legacy = "idle", \A w \in Worker : pc[w] = "idle",
           maint'.phase \notin {"activate", "publish"},
           \A i \in J : lifecycle'[i] = "Ready" =>
               \/ lifecycle[i] = "Ready" /\ i \in I
               \/ \A s \in Shard : IsActive(s, i) /\ applied[i][s] = last[s]
                                   /\ entries[i][s] = SourceImage(i, s)
    PROVE  ReplayInv(J)'
<1>. USE DEF outboxVars, authorityVars, workerVars
<1>1. TypeInv /\ \A i \in I : AckBehind(i) /\ Replays(i)
  BY DEF ReplayInv, MaintenanceOf
<1>2. TypeInv'
  <2>1. OutboxInv'
    BY <1>1, OutboxUnchanged DEF TypeInv
  <2>. QED
    BY <1>1, <2>1 DEF TypeInv, AuthorityTypeOK, WorkerTypeOK
<1>3. BuildStage' /\ LegacyFenced'
  BY DEF BuildStage, LegacyFenced
<1>4. \A w \in Worker : PassBounds(w)' /\ BatchCurrent(w)'
  BY DEF PassBounds, BatchCurrent
<1>5. ASSUME NEW i \in J, lifecycle'[i] = "Ready", lifecycle[i] = "Ready", i \in I
      PROVE  AckBehind(i)' /\ Replays(i)'
  <2>1. AckBehind(i)'
    BY <1>1, <1>5 DEF AckBehind, IsActive
  <2>2. Replays(i)'
    BY <1>1, <1>5 DEF Replays, Trusted, Pending, StoredEvents
  <2>. QED
    BY <2>1, <2>2
<1>6. ASSUME NEW i \in J, \A s \in Shard : IsActive(s, i) /\ applied[i][s] = last[s]
                                          /\ entries[i][s] = SourceImage(i, s)
      PROVE  AckBehind(i)' /\ Replays(i)'
  <2>1. \A s \in Shard : last[s] \in Nat /\ consumer[s][i].cursor <= last[s]
    BY <1>1, <1>6, CursorType DEF TypeInv, OutboxInv, ConsumerBounds
  <2>2. AckBehind(i)'
    BY <1>6, <2>1 DEF AckBehind, IsActive
  <2>3. \A s \in Shard, l \in Locator : Pending(i, s, l)' = {}
    BY <1>6, <2>1 DEF Pending, StoredEvents
  <2>4. ASSUME NEW s \in Shard, NEW l \in Locator PROVE RowKey(i, rows[s][l]) = entries[i][s][l]
    <3>1. entries[i][s] = SourceImage(i, s)
      BY <1>6
    <3>. QED
      BY <3>1 DEF SourceImage
  <2>5. entries' = entries /\ rows' = rows
    OBVIOUS
  <2>6. Replays(i)'
    BY <2>3, <2>4, <2>5 DEF Replays, RowKey
  <2>. QED
    BY <2>2, <2>6
<1>7. ASSUME NEW i \in J, lifecycle'[i] # "Ready" PROVE AckBehind(i)' /\ Replays(i)'
  BY <1>7 DEF AckBehind, Replays, Trusted
<1>. QED
  BY <1>2, <1>3, <1>4, <1>5, <1>6, <1>7 DEF ReplayInv, MaintenanceOf

\* Validation, its verdict and the start of a repair.
LEMMA RecoverySteps ==
    ASSUME TypeInv, RecoveryInv, Recovery, Remember,
           NEW I \in SUBSET Index, I = Index \ undrained,
           NEW J \in SUBSET Index, J = Index \ undrained', ReplayInv(I)
    PROVE  ReplayInv(J)' /\ ConsumersKept' /\ OfflineStage'
<1>. USE DEF outboxVars, authorityVars
<1>1. /\ OfflineAlone /\ ConsumersKept /\ OfflineStage /\ undrained \subseteq ReadyIndexes
      /\ maint.index \in Index /\ lifecycle \in [Index -> Lifecycle]
  BY DEF RecoveryInv, MaintenanceOf, TypeInv, ControlTypeOK
<1>2. ASSUME NEW i \in J, lifecycle'[i] = "Ready"
      PROVE  i \in I /\ (maint.phase = "validate" /\ maint.index = i => Drained(i))
  BY <1>2 DEF Remember
<1>3. ASSUME NEW i \in Index, BeginValidate(i)
      PROVE  ReplayInv(J)' /\ ConsumersKept' /\ OfflineStage'
  <2>1. /\ legacy = "idle" /\ \A w \in Worker : pc[w] = "idle"
        /\ UNCHANGED <<outboxVars, authorityVars, workerVars, legacy>>
        /\ lifecycle' = [lifecycle EXCEPT ![i] = "Rebuilding"]
        /\ maint' = [phase |-> "validate", index |-> i, todo |-> {}]
        /\ lifecycle[i] \in {"Ready", "Invalid", "Rebuilding"}
    BY <1>3 DEF BeginValidate, Quiescent, Maintain
  <2>2. ControlTypeOK' /\ OfflineAlone'
    BY <1>1, <2>1 DEF TypeInv, ControlTypeOK, Phase, Lifecycle, OfflineAlone, workerVars
  <2>3. \A j \in J : lifecycle'[j] = "Ready" => lifecycle[j] = "Ready" /\ j \in I
    BY <1>1, <1>2, <2>1
  <2>4. ReplayInv(J)'
    BY <2>1, <2>2, <2>3, OfflineKeeps
  <2>. QED
    BY <1>1, <2>1, <2>4 DEF ConsumersKept, OfflineStage, IsActive
<1>4. CASE FinishValidate
  <2>1. PICK verdict \in {"Ready", "Invalid"} :
            /\ verdict = "Ready" => IndexValid(maint.index)
            /\ lifecycle' = [lifecycle EXCEPT ![maint.index] = verdict]
    BY <1>4 DEF FinishValidate
  <2>2. /\ maint.phase = "validate" /\ maint' = NoMaint
        /\ UNCHANGED <<outboxVars, authorityVars, workerVars, legacy>>
        /\ legacy = "idle" /\ \A w \in Worker : pc[w] = "idle"
        /\ lifecycle[maint.index] = "Rebuilding"
    BY <1>1, <1>4 DEF FinishValidate, OfflineAlone, OfflineStage
  <2>3. ControlTypeOK' /\ OfflineAlone'
    BY <1>1, <2>1, <2>2, AsyncAssumption
       DEF TypeInv, ControlTypeOK, NoMaint, Phase, Lifecycle, OfflineAlone
  <2>4. ASSUME NEW i \in J, lifecycle'[i] = "Ready", lifecycle[i] # "Ready"
        PROVE  \A s \in Shard : IsActive(s, i) /\ applied[i][s] = last[s]
                                /\ entries[i][s] = SourceImage(i, s)
    <3>1. i = maint.index /\ IndexValid(i)
      BY <1>1, <2>1, <2>4
    <3>2. Drained(i)
      BY <1>2, <2>2, <2>4, <3>1
    <3>. QED
      BY <1>1, <2>2, <3>1, <3>2 DEF IndexValid, ShardValid, ConsumersKept, Drained
  <2>5. maint'.phase \notin {"activate", "publish"}
    BY <2>2 DEF NoMaint
  <2>6. ReplayInv(J)'
    BY <1>2, <2>2, <2>3, <2>4, <2>5, OfflineKeeps
  <2>. QED
    BY <1>1, <2>1, <2>2, <2>6 DEF ConsumersKept, OfflineStage, IsActive, NoMaint
<1>5. CASE BeginRepair
  <2>1. PICK todo \in SUBSET Shard : maint' = [phase |-> "scan", index |-> maint.index, todo |-> todo]
    BY <1>5 DEF BeginRepair, Maintain
  <2>2. /\ maint.phase = "validate"
        /\ UNCHANGED <<outboxVars, lifecycle, authorityVars, workerVars, legacy>>
        /\ legacy = "idle" /\ \A w \in Worker : pc[w] = "idle"
        /\ lifecycle[maint.index] # "Ready"
    BY <1>1, <1>5 DEF BeginRepair, OfflineAlone
  <2>3. ControlTypeOK' /\ OfflineAlone'
    BY <1>1, <2>1, <2>2 DEF TypeInv, ControlTypeOK, Phase, OfflineAlone, workerVars
  <2>4. maint'.phase \notin {"activate", "publish"}
    BY <2>1
  <2>5. ReplayInv(J)'
    BY <1>2, <2>2, <2>3, <2>4, OfflineKeeps
  <2>. QED
    BY <1>1, <2>1, <2>2, <2>5 DEF ConsumersKept, OfflineStage, IsActive
<1>. QED
  BY <1>3, <1>4, <1>5 DEF Recovery

LEMMA RecoveryInit == AsyncInit /\ undrained = {} => TypeInv /\ RecoveryInv
<1>. SUFFICES ASSUME AsyncInit, undrained = {} PROVE TypeInv /\ RecoveryInv
  OBVIOUS
<1>1. ConsumersKept /\ OfflineStage
  BY DEF AsyncInit, ConsumersKept, OfflineStage, NoMaint
<1>2. TypeInv /\ MaintenanceOf(Index)
  BY AllIndexesInit DEF ReplayInv
<1>. QED
  BY <1>1, <1>2 DEF RecoveryInv, MaintenanceOf

LEMMA RecoveryStep ==
    ASSUME TypeInv, RecoveryInv, [RecoveryNext]_recoveryVars
    PROVE  TypeInv' /\ RecoveryInv'
<1>1. PICK I \in SUBSET Index : I = Index \ undrained
  OBVIOUS
<1>2. PICK J \in SUBSET Index : J = Index \ undrained'
  OBVIOUS
<1>3. ReplayInv(I)
  BY <1>1 DEF RecoveryInv, ReplayInv, MaintenanceOf
<1>4. ASSUME ReplayInv(J)', ConsumersKept', OfflineStage', undrained' \subseteq ReadyIndexes'
      PROVE  TypeInv' /\ RecoveryInv'
  BY <1>2, <1>4 DEF RecoveryInv, ReplayInv, MaintenanceOf
<1>5. CASE Next /\ Remember
  <2>1. ReplayInv(I)'
    BY <1>3, <1>5, ReplayStep
  <2>2. \A i \in J \ I : lifecycle'[i] # "Ready"
    BY <1>1, <1>2, <1>5 DEF Remember
  <2>3. ReplayInv(J)'
    BY <2>1, <2>2, OutOfService
  <2>4. ConsumersKept' /\ OfflineStage'
    BY <1>5, ConsumersKeptStep, OfflineStageStep
  <2>5. undrained' \subseteq ReadyIndexes'
    BY <1>5 DEF Remember, ReadyIndexes
  <2>. QED
    BY <1>4, <2>3, <2>4, <2>5
<1>6. CASE Recovery /\ Remember
  <2>1. ReplayInv(J)' /\ ConsumersKept' /\ OfflineStage'
    BY <1>1, <1>2, <1>3, <1>6, RecoverySteps
  <2>2. undrained' \subseteq ReadyIndexes'
    BY <1>6 DEF Remember, ReadyIndexes
  <2>. QED
    BY <1>4, <2>1, <2>2
<1>7. CASE UNCHANGED recoveryVars
  <2>1. UNCHANGED vars /\ undrained' = undrained
    BY <1>7 DEF recoveryVars
  <2>2. ReplayInv(J)'
    <3>1. I = J
      BY <1>1, <1>2, <2>1
    <3>. QED
      BY <1>3, <2>1, <3>1, ReplayStep
  <2>3. ConsumersKept' /\ OfflineStage' /\ undrained' \subseteq ReadyIndexes'
    BY <2>1 DEF RecoveryInv, ConsumersKept, OfflineStage, ReadyIndexes, IsActive, vars, outboxVars,
       authorityVars
  <2>. QED
    BY <1>4, <2>2, <2>3
<1>. QED
  BY <1>5, <1>6, <1>7 DEF RecoveryNext

\* Offline validation and repair keep every index truthful but those a validation puts
\* into service undrained: whatever an operator does to it or to others, an index in
\* service yields the source rows once its pending events are replayed, and its
\* acknowledgements stay behind its watermarks (validate_global_index,
\* repair_global_index).
THEOREM RecoverySafe == RecoverySpec => []RecoveryInv
<1>1. TypeInv /\ RecoveryInv /\ [RecoveryNext]_recoveryVars => TypeInv' /\ RecoveryInv'
  BY RecoveryStep
<1>. QED
  BY <1>1, RecoveryInit, PTL DEF RecoverySpec

\* "Lag therefore costs extra SQLite scans, never missing rows": a trusted index whose
\* watermark covers the outbox holds the key of every source row, through builds,
\* rebuilds, removals, legacy writes, validations and repairs, unless the validation
\* that put it into service found events still to replay (process_index,
\* initialize_index, validate_global_index).
THEOREM FreshSafe == RecoverySpec => []FreshUnlessUndrained
<1>1. ASSUME TypeInv, RecoveryInv PROVE FreshUnlessUndrained
  <2>. SUFFICES ASSUME NEW i \in Index \ undrained, NEW s \in Shard, Trusted(i),
                       applied[i][s] >= last[s], NEW l \in Locator
                PROVE  entries[i][s][l] = RowKey(i, rows[s][l])
    BY DEF FreshUnlessUndrained, Complete
  <2>1. Replays(i)
    BY <1>1 DEF RecoveryInv, MaintenanceOf
  <2>2. applied[i][s] \in Nat /\ last[s] \in Nat
    BY <1>1, CursorType
  <2>3. Pending(i, s, l) = {}
    BY <2>2 DEF Pending, StoredEvents
  <2>. QED
    BY <2>1, <2>3 DEF Replays
<1>2. TypeInv /\ RecoveryInv /\ [RecoveryNext]_recoveryVars => TypeInv' /\ RecoveryInv'
  BY RecoveryStep
<1>. QED
  BY <1>1, <1>2, RecoveryInit, PTL DEF RecoverySpec
================================================================================
